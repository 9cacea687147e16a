--------------------------- MODULE BootstrapProofs ---------------------------
(***************************************************************************)
(* Theorems of Bootstrap, for any modules, whatever they require and       *)
(* provide, and whatever their hooks do.                                   *)
(***************************************************************************)
EXTENDS Bootstrap, FiniteSetTheorems, TLAPS

USE BootstrapAssumption

-----------------------------------------------------------------------------
(* Sequences *)

(* How candidates and loaded modules are passed on.                          *)
LEMMA HeadAndTail ==
  ASSUME NEW S, NEW s \in Seq(S), s # <<>>
  PROVE  /\ Head(s) \in ToSet(s)
         /\ Tail(s) \in Seq(S)
         /\ ToSet(s) = {Head(s)} \union ToSet(Tail(s))
<1>1. /\ Tail(s) \in Seq(S) /\ Len(Tail(s)) = Len(s) - 1 /\ Len(s) \in Nat \ {0}
      /\ \A i \in 1 .. Len(s) - 1 : Tail(s)[i] = s[i + 1]
      /\ Head(s) = s[1]
  OBVIOUS
<1>2. ASSUME NEW x \in ToSet(s) PROVE x \in {Head(s)} \union ToSet(Tail(s))
  <2>1. PICK i \in 1 .. Len(s) : x = s[i]
    BY DEF ToSet
  <2>2. CASE i = 1
    BY <1>1, <2>1, <2>2
  <2>3. CASE i # 1
    <3>1. i - 1 \in 1 .. Len(s) - 1
      BY <1>1, <2>1, <2>3
    <3>2. Tail(s)[i - 1] = x
      BY <1>1, <2>1, <3>1
    <3>3. DOMAIN Tail(s) = 1 .. Len(s) - 1
      BY <1>1
    <3> QED
      BY <3>1, <3>2, <3>3 DEF ToSet
  <2> QED
    BY <2>2, <2>3
<1>3. ASSUME NEW x \in ToSet(Tail(s)) PROVE x \in ToSet(s)
  <2>1. PICK i \in 1 .. Len(s) - 1 : x = Tail(s)[i]
    BY <1>1 DEF ToSet
  <2>2. i + 1 \in 1 .. Len(s) /\ s[i + 1] = x
    BY <1>1, <2>1
  <2> QED
    BY <2>2 DEF ToSet
<1>4. Head(s) \in ToSet(s)
  BY <1>1 DEF ToSet
<1> QED
  BY <1>1, <1>2, <1>3, <1>4

LEMMA AppendTo ==
  ASSUME NEW S, NEW s \in Seq(S), NEW x \in S
  PROVE  /\ Append(s, x) \in Seq(S)
         /\ ToSet(Append(s, x)) = ToSet(s) \union {x}
<1>1. /\ Append(s, x) \in Seq(S) /\ Len(Append(s, x)) = Len(s) + 1
      /\ Len(s) \in Nat
      /\ \A i \in 1 .. Len(s) : Append(s, x)[i] = s[i]
      /\ Append(s, x)[Len(s) + 1] = x
  OBVIOUS
<1>2. ToSet(Append(s, x)) = {Append(s, x)[i] : i \in 1 .. Len(s) + 1}
  BY <1>1 DEF ToSet
<1>3. ToSet(s) = {s[i] : i \in 1 .. Len(s)}
  BY DEF ToSet
<1> HIDE DEF ToSet
<1>4. \A i \in 1 .. Len(s) + 1 : i \in 1 .. Len(s) \/ i = Len(s) + 1
  BY <1>1
<1> QED
  BY <1>1, <1>2, <1>3, <1>4

(* The places kept are numbered in their order.                              *)
Ranks(K) == [i \in K |-> Cardinality({j \in K : j <= i})]

LEMMA RanksNumber ==
  ASSUME NEW K \in SUBSET Nat, IsFiniteSet(K)
  PROVE  /\ Cardinality(K) \in Nat
         /\ Ranks(K) \in [K -> 1 .. Cardinality(K)]
         /\ \A i, j \in K : i < j => Ranks(K)[i] < Ranks(K)[j]
         /\ \A k \in 1 .. Cardinality(K) : \E i \in K : Ranks(K)[i] = k
<1> DEFINE n == Cardinality(K)
           Upto(i) == {j \in K : j <= i}
           rank == Ranks(K)
<1>1. n \in Nat
  BY FS_CardinalityType
<1>2. ASSUME NEW i \in K
      PROVE  /\ IsFiniteSet(Upto(i))
             /\ rank[i] = Cardinality(Upto(i))
             /\ rank[i] \in 1 .. n
  <2>1. IsFiniteSet(Upto(i)) /\ Cardinality(Upto(i)) <= n
    BY FS_Subset
  <2>2. Cardinality(Upto(i)) \in Nat /\ Cardinality(Upto(i)) # 0
    <3>1. i \in Upto(i)
      OBVIOUS
    <3> QED
      BY <2>1, <3>1, FS_CardinalityType, FS_EmptySet
  <2>3. rank[i] = Cardinality(Upto(i))
    BY DEF Ranks
  <2> QED
    BY <1>1, <2>1, <2>2, <2>3
<1>3. ASSUME NEW i \in K, NEW j \in K, i < j
      PROVE  rank[i] < rank[j]
  <2>1. Upto(i) \in SUBSET Upto(j) /\ j \in Upto(j) /\ j \notin Upto(i)
    <3>1. i \in Nat /\ j \in Nat
      OBVIOUS
    <3>2. \A x \in K : x \in Nat /\ (x <= i => x <= j)
      BY <1>3, <3>1
    <3>3. ~(j <= i)
      BY <1>3, <3>1
    <3> QED
      BY <3>1, <3>2, <3>3, j <= j
  <2>2. Cardinality(Upto(i)) <= Cardinality(Upto(j)) /\ Cardinality(Upto(i)) # Cardinality(Upto(j))
    BY <1>2, <2>1, FS_Subset
  <2> HIDE DEF Upto
  <2> QED
    BY <1>1, <1>2, <2>2
<1>4. rank \in [K -> 1 .. n]
  <2>1. \A i \in K : rank[i] \in 1 .. n
    BY <1>2
  <2> QED
    BY <2>1 DEF Ranks
<1> HIDE DEF rank, Upto
<1>5. \A k \in 1 .. n : \E i \in K : rank[i] = k
  <2>1. \A i, j \in K : rank[i] = rank[j] => i = j
    <3>1. ASSUME NEW i \in K, NEW j \in K, i < j PROVE rank[i] # rank[j]
      <4>1. rank[i] < rank[j] /\ rank[i] \in 1 .. n /\ rank[j] \in 1 .. n
        BY <1>3, <1>4, <3>1
      <4> QED
        BY <1>1, <4>1
    <3>2. \A i, j \in K : i < j \/ j < i \/ i = j
      OBVIOUS
    <3> QED
      BY <3>1, <3>2
  <2>2. rank \in Injection(K, 1 .. n)
    BY <1>4, <2>1, Zenon DEF Injection, IsInjective
  <2>3. IsFiniteSet(1 .. n) /\ Cardinality(1 .. n) = n
    BY <1>1, FS_Interval
  <2>4. rank \in Surjection(K, 1 .. n)
    BY <2>2, <2>3, FS_Injection
  <2> QED
    BY <2>4 DEF Surjection
<1> QED
  BY <1>1, <1>3, <1>4, <1>5 DEF rank

(* Filtering takes the elements at the places kept, each once, in their      *)
(* order.                                                                    *)
Selections(s, S, n) ==
  {place \in [1 .. n -> {i \in DOMAIN s : s[i] \in S}] :
     /\ Filter(s, S) = [k \in 1 .. n |-> s[place[k]]]
     /\ \A i \in DOMAIN s : s[i] \in S => \E k \in 1 .. n : place[k] = i
     /\ \A k, l \in 1 .. n : k < l => place[k] < place[l]}

LEMMA FilterPlaces ==
  ASSUME NEW X, NEW s \in Seq(X), NEW S
  PROVE  \E n \in Nat : Selections(s, S, n) # {}
<1> DEFINE kept == {i \in DOMAIN s : s[i] \in S}
           n == Cardinality(kept)
           Upto(i) == {j \in kept : j <= i}
           rank == Ranks(kept)
           place == [k \in 1 .. n |-> CHOOSE i \in kept : Cardinality(Upto(i)) = k]
<1>1. kept \in SUBSET Nat /\ IsFiniteSet(kept)
  <2>1. DOMAIN s = 1 .. Len(s) /\ Len(s) \in Nat
    OBVIOUS
  <2>2. IsFiniteSet(1 .. Len(s))
    BY <2>1, FS_Interval
  <2>3. kept \in SUBSET (1 .. Len(s))
    BY <2>1
  <2> QED
    BY <2>1, <2>2, <2>3, FS_Subset
<1>2. /\ n \in Nat
      /\ rank \in [kept -> 1 .. n]
      /\ \A i, j \in kept : i < j => rank[i] < rank[j]
      /\ \A k \in 1 .. n : \E i \in kept : rank[i] = k
  <2> HIDE DEF kept
  <2> QED
    BY <1>1, RanksNumber
<1>3. ASSUME NEW k \in 1 .. n PROVE place[k] \in kept /\ rank[place[k]] = k
  <2>0. \A i \in kept : rank[i] = Cardinality(Upto(i))
    BY DEF Ranks
  <2>1. PICK i \in kept : Cardinality(Upto(i)) = k
    BY <1>2, <2>0
  <2>2. place[k] = CHOOSE j \in kept : Cardinality(Upto(j)) = k
    OBVIOUS
  <2>3. place[k] \in kept /\ Cardinality(Upto(place[k])) = k
    BY <2>1, <2>2
  <2> QED
    BY <2>0, <2>3
<1>4. Filter(s, S) = [k \in 1 .. n |-> s[place[k]]]
  <2>1. \A k \in 1 .. n : s[place[k]] = s[CHOOSE i \in kept : Cardinality(Upto(i)) = k]
    OBVIOUS
  <2> QED
    BY <2>1 DEF Filter
<1>5. place \in [1 .. n -> kept]
  BY <1>3
<1> HIDE DEF place, rank, Upto
<1>6. \A k, l \in 1 .. n : k < l => place[k] < place[l]
  <2>1. ASSUME NEW k \in 1 .. n, NEW l \in 1 .. n, k < l PROVE place[k] < place[l]
    <3>1. place[k] \in kept /\ place[l] \in kept /\ rank[place[k]] = k /\ rank[place[l]] = l
      BY <1>3
    <3>2. place[l] < place[k] => l < k
      BY <1>2, <3>1
    <3>3. place[l] = place[k] => l = k
      BY <3>1
    <3>4. place[k] \in Nat /\ place[l] \in Nat
      BY <1>1, <3>1
    <3> QED
      BY <1>2, <2>1, <3>2, <3>3, <3>4
  <2> QED
    BY <2>1
<1>7. \A i \in kept : \E k \in 1 .. n : place[k] = i
  <2>1. ASSUME NEW i \in kept PROVE place[rank[i]] = i
    <3>1. rank[i] \in 1 .. n
      BY <1>2
    <3>2. place[rank[i]] \in kept /\ rank[place[rank[i]]] = rank[i]
      BY <1>3, <3>1
    <3>3. ~(i < place[rank[i]]) /\ ~(place[rank[i]] < i)
      BY <1>2, <3>1, <3>2
    <3>4. i \in Nat /\ place[rank[i]] \in Nat
      BY <1>1, <3>2
    <3> QED
      BY <3>3, <3>4
  <2> QED
    BY <1>2, <2>1
<1>8. \A i \in DOMAIN s : s[i] \in S => \E k \in 1 .. n : place[k] = i
  BY <1>7
<1>9. place \in Selections(s, S, n)
  BY <1>4, <1>5, <1>6, <1>8 DEF Selections
<1> QED
  BY <1>2, <1>9

(* x stands in s before y.                                                   *)
Precedes(s, x, y) == \E i, j \in DOMAIN s : i < j /\ s[i] = x /\ s[j] = y

LEMMA FilterFacts ==
  ASSUME NEW X, NEW s \in Seq(X), NEW S
  PROVE  /\ Filter(s, S) \in Seq(X)
         /\ ToSet(Filter(s, S)) = ToSet(s) \cap S
         /\ IsInjective(s) => IsInjective(Filter(s, S))
         /\ \A x, y \in S : Precedes(s, x, y) => Precedes(Filter(s, S), x, y)
<1>0. PICK n \in Nat : Selections(s, S, n) # {}
  BY FilterPlaces
<1>1. PICK place \in [1 .. n -> {i \in DOMAIN s : s[i] \in S}] :
        /\ Filter(s, S) = [k \in 1 .. n |-> s[place[k]]]
        /\ \A i \in DOMAIN s : s[i] \in S => \E k \in 1 .. n : place[k] = i
        /\ \A k, l \in 1 .. n : k < l => place[k] < place[l]
  BY <1>0 DEF Selections
<1> DEFINE t == Filter(s, S)
<1>2. DOMAIN t = 1 .. n /\ \A k \in 1 .. n : t[k] = s[place[k]]
  BY <1>1
<1>3. \A k \in 1 .. n : place[k] \in DOMAIN s /\ t[k] \in X /\ t[k] \in S
  BY <1>1, <1>2
<1>4. DOMAIN s \subseteq Nat
  OBVIOUS
<1>5. t \in Seq(X)
  BY <1>1, <1>3
<1> HIDE DEF t
<1>6. ToSet(t) = ToSet(s) \cap S
  <2>1. ASSUME NEW x \in ToSet(s) \cap S PROVE x \in ToSet(t)
    <3>1. PICK i \in DOMAIN s : s[i] = x
      BY DEF ToSet
    <3>2. PICK k \in 1 .. n : place[k] = i
      BY <1>1, <3>1
    <3> QED
      BY <1>2, <3>1, <3>2 DEF ToSet
  <2> QED
    BY <1>2, <1>3, <2>1 DEF ToSet
<1>7. IsInjective(s) => IsInjective(t)
  <2> SUFFICES ASSUME IsInjective(s), NEW k \in 1 .. n, NEW l \in 1 .. n, t[k] = t[l]
               PROVE  k = l
    BY <1>2 DEF IsInjective
  <2>1. place[k] = place[l]
    BY <1>2, <1>3 DEF IsInjective
  <2>2. place[k] \in Nat /\ ~(place[k] < place[k])
    BY <1>3, <1>4
  <2> QED
    BY <1>1, <2>1, <2>2
<1>8. ASSUME NEW x \in S, NEW y \in S, Precedes(s, x, y) PROVE Precedes(t, x, y)
  <2>1. PICK i \in DOMAIN s, j \in DOMAIN s : i < j /\ s[i] = x /\ s[j] = y
    BY <1>8 DEF Precedes
  <2>2. PICK k \in 1 .. n, l \in 1 .. n : place[k] = i /\ place[l] = j
    BY <1>1, <2>1
  <2>3. ~(place[l] < place[k]) /\ place[k] # place[l]
    BY <1>4, <2>1, <2>2
  <2>4. k < l
    BY <1>1, <2>3
  <2> QED
    BY <1>2, <2>1, <2>2, <2>4 DEF Precedes
<1> QED
  BY <1>5, <1>6, <1>7, <1>8 DEF t

LEMMA Concatenated ==
  ASSUME NEW X, NEW s \in Seq(X), NEW t \in Seq(X)
  PROVE  /\ s \o t \in Seq(X)
         /\ DOMAIN (s \o t) = 1 .. (Len(s) + Len(t))
         /\ \A i \in 1 .. Len(s) : (s \o t)[i] = s[i]
         /\ ToSet(s \o t) = ToSet(s) \union ToSet(t)
         /\ IsInjective(s) /\ IsInjective(t) /\ ToSet(s) \cap ToSet(t) = {}
              => IsInjective(s \o t)
<1> DEFINE st == s \o t
<1>1. /\ st \in Seq(X) /\ Len(st) = Len(s) + Len(t)
      /\ Len(s) \in Nat /\ Len(t) \in Nat
      /\ DOMAIN st = 1 .. Len(s) + Len(t)
      /\ DOMAIN s = 1 .. Len(s) /\ DOMAIN t = 1 .. Len(t)
      /\ \A i \in 1 .. Len(s) : st[i] = s[i]
      /\ \A i \in 1 .. Len(t) : st[Len(s) + i] = t[i]
  OBVIOUS
<1> HIDE DEF st
<1>2. \A i \in DOMAIN st :
        \/ i \in 1 .. Len(s) /\ st[i] = s[i]
        \/ i - Len(s) \in 1 .. Len(t) /\ st[i] = t[i - Len(s)]
  <2>1. ASSUME NEW i \in DOMAIN st, i \notin 1 .. Len(s)
        PROVE  i - Len(s) \in 1 .. Len(t) /\ st[i] = t[i - Len(s)]
    <3>1. i - Len(s) \in 1 .. Len(t) /\ Len(s) + (i - Len(s)) = i
      BY <1>1, <2>1
    <3> QED
      BY <1>1, <3>1
  <2> QED
    BY <1>1, <2>1
<1>3. ToSet(st) = ToSet(s) \union ToSet(t)
  <2>1. ASSUME NEW x \in ToSet(s) PROVE x \in ToSet(st)
    <3>1. PICK i \in 1 .. Len(s) : s[i] = x
      BY <1>1 DEF ToSet
    <3>2. i \in DOMAIN st
      BY <1>1
    <3> QED
      BY <1>1, <3>1, <3>2 DEF ToSet
  <2>2. ASSUME NEW x \in ToSet(t) PROVE x \in ToSet(st)
    <3>1. PICK i \in 1 .. Len(t) : t[i] = x
      BY <1>1 DEF ToSet
    <3>2. Len(s) + i \in DOMAIN st
      BY <1>1
    <3> QED
      BY <1>1, <3>1, <3>2 DEF ToSet
  <2>3. ASSUME NEW x \in ToSet(st) PROVE x \in ToSet(s) \union ToSet(t)
    <3>1. PICK i \in DOMAIN st : st[i] = x
      BY DEF ToSet
    <3> QED
      BY <1>1, <1>2, <3>1 DEF ToSet
  <2> QED
    BY <2>1, <2>2, <2>3
<1>4. ASSUME IsInjective(s), IsInjective(t), ToSet(s) \cap ToSet(t) = {}
      PROVE  IsInjective(st)
  <2> SUFFICES ASSUME NEW i \in DOMAIN st, NEW j \in DOMAIN st, st[i] = st[j]
               PROVE  i = j
    BY DEF IsInjective
  <2>1. \A k \in 1 .. Len(s), l \in 1 .. Len(t) : s[k] # t[l]
    <3>1. \A k \in 1 .. Len(s) : s[k] \in ToSet(s)
      BY <1>1 DEF ToSet
    <3>2. \A l \in 1 .. Len(t) : t[l] \in ToSet(t)
      BY <1>1 DEF ToSet
    <3> QED
      BY <1>4, <3>1, <3>2
  <2>2. CASE i \in 1 .. Len(s)
    <3>1. j \in 1 .. Len(s)
      BY <1>2, <2>1, <2>2
    <3> QED
      BY <1>1, <1>4, <2>2, <3>1 DEF IsInjective
  <2>3. CASE i \notin 1 .. Len(s)
    <3>1. j \notin 1 .. Len(s)
      BY <1>1, <1>2, <2>1, <2>3
    <3>2. /\ i - Len(s) \in 1 .. Len(t) /\ st[i] = t[i - Len(s)]
          /\ j - Len(s) \in 1 .. Len(t) /\ st[j] = t[j - Len(s)]
      BY <1>2, <2>3, <3>1
    <3>3. i - Len(s) = j - Len(s)
      BY <1>1, <1>4, <3>2 DEF IsInjective
    <3> QED
      BY <1>1, <3>3
  <2> QED
    BY <2>2, <2>3
<1> QED
  BY <1>1, <1>3, <1>4 DEF st

-----------------------------------------------------------------------------
(* The capability graph *)

LEMMA GraphTyped ==
  /\ Edges \in [LoadedIds -> SUBSET LoadedIds]
  /\ Unresolved \subseteq LoadedIds /\ OnCycle \subseteq LoadedIds
<1>1. ASSUME NEW c \in Loaded PROVE ProvidersOf(c) \subseteq LoadedIds
  <2>1. ASSUME NEW r, NEW m \in Matches(r) PROVE m[1] \in LoadedIds
    <3>1. PICK d \in Loaded : m = <<d.id, FALSE>> \/ m = <<d.id, TRUE>>
      BY DEF Matches
    <3>2. m[1] = d.id
      <4>1. \A x, y : <<x, y>>[1] = x
        OBVIOUS
      <4> QED
        BY <3>1, <4>1, Zenon
    <3>3. d.id \in LoadedIds
      BY DEF LoadedIds
    <3> QED
      BY <3>2, <3>3
  <2> QED
    BY <2>1 DEF ProvidersOf
<1>2. ASSUME NEW i \in LoadedIds PROVE ProvidersOf(CHOOSE c \in Loaded : c.id = i) \subseteq LoadedIds
  <2>1. (CHOOSE c \in Loaded : c.id = i) \in Loaded
    BY DEF LoadedIds
  <2> QED
    BY <1>1, <2>1
<1>3. Edges \in [LoadedIds -> SUBSET LoadedIds]
  BY <1>2 DEF Edges
<1> QED
  BY <1>3 DEF Unresolved, OnCycle, LoadedIds

(* What a module depends on includes its providers and what they depend on.  *)
LEMMA DependsOnCloses ==
  ASSUME NEW i \in LoadedIds
  PROVE  /\ DependsOn(i) \subseteq LoadedIds
         /\ Edges[i] \subseteq DependsOn(i)
         /\ \A j \in DependsOn(i) :
              Edges[j] \subseteq DependsOn(i) /\ DependsOn(j) \subseteq DependsOn(i)
<1>1. DependsOn(i) \subseteq LoadedIds
  BY DEF DependsOn
<1>2. Edges[i] \subseteq DependsOn(i)
  BY GraphTyped DEF DependsOn
<1>3. ASSUME NEW j \in DependsOn(i) PROVE Edges[j] \subseteq DependsOn(i)
  <2>1. j \in LoadedIds /\ Edges[j] \subseteq LoadedIds
    BY <1>1, GraphTyped
  <2> QED
    BY <2>1 DEF DependsOn
<1>4. ASSUME NEW j \in DependsOn(i) PROVE DependsOn(j) \subseteq DependsOn(i)
  <2>1. \A k \in DependsOn(i) : Edges[k] \subseteq DependsOn(i)
    BY <1>3
  <2>2. DependsOn(i) \in SUBSET LoadedIds /\ Edges[j] \subseteq DependsOn(i)
    BY <1>1, <1>3
  <2>3. \A x \in DependsOn(j) : \A S \in SUBSET LoadedIds :
          Edges[j] \subseteq S /\ (\A k \in S : Edges[k] \subseteq S) => x \in S
    BY DEF DependsOn
  <2> QED
    BY <2>1, <2>2, <2>3
<1> QED
  BY <1>1, <1>2, <1>3, <1>4

(* Of modules each of which has a provider among them, all depend on a       *)
(* cycle: why topoSort passes over no others.                                *)
LEMMA StuckDependOnCycle ==
  ASSUME IsFiniteSet(LoadedIds), NEW R \in SUBSET LoadedIds,
         \A x \in R : Edges[x] \cap R # {},
         NEW w \in R
  PROVE  DependsOn(w) \cap OnCycle # {}
<1> DEFINE reached == DependsOn(w) \cap R
           reaches == {DependsOn(x) : x \in reached}
           smaller == StrictSubsetOrdering(LoadedIds)
<1>1. reached # {}
  BY DependsOnCloses
<1>2. IsWellFoundedOn(smaller, SUBSET LoadedIds)
  BY FS_StrictSubsetOrderingWellFounded, FS_FiniteSubsetsOfFinite
<1>3. reaches \subseteq SUBSET LoadedIds /\ reaches # {}
  BY <1>1, DependsOnCloses
<1>4. \E D \in reaches : \A E \in reaches : <<E, D>> \notin smaller
  <2> HIDE DEF reaches, smaller
  <2> QED
    BY <1>2, <1>3, WFMin, Zenon
<1>5. PICK x \in reached : \A y \in reached : <<DependsOn(y), DependsOn(x)>> \notin smaller
  BY <1>4
<1>6. PICK y : y \in Edges[x] /\ y \in R
  OBVIOUS
<1>7. y \in DependsOn(x) /\ y \in reached /\ DependsOn(y) \subseteq DependsOn(x)
  BY <1>6, DependsOnCloses
<1>8. DependsOn(y) = DependsOn(x)
  <2>1. DependsOn(y) \in SUBSET LoadedIds /\ DependsOn(x) \in SUBSET LoadedIds
    BY <1>7, DependsOnCloses
  <2>2. <<DependsOn(y), DependsOn(x)>> \notin smaller
    BY <1>5, <1>7
  <2> QED
    BY <1>7, <2>1, <2>2 DEF StrictSubsetOrdering
<1>9. y \in OnCycle
  BY <1>7, <1>8 DEF OnCycle
<1> QED
  BY <1>7, <1>9

(* The graph is made of what is loaded and nothing else.                     *)
LEMMA GraphUnchanged ==
  ASSUME UNCHANGED valid
  PROVE  /\ Loaded' = Loaded /\ LoadedIds' = LoadedIds /\ IdsInOrder' = IdsInOrder
         /\ Edges' = Edges /\ Unresolved' = Unresolved /\ OnCycle' = OnCycle
         /\ \A i : DependsOn(i)' = DependsOn(i)
<1>1. Loaded' = Loaded /\ LoadedIds' = LoadedIds /\ IdsInOrder' = IdsInOrder
  BY DEF Loaded, LoadedIds, IdsInOrder
<1>2. \A r : Matches(r)' = Matches(r)
  BY <1>1 DEF Matches
<1>3. \A r : Resolved(r)' <=> Resolved(r)
  BY <1>2 DEF Resolved
<1>4. \A c : ProvidersOf(c)' = ProvidersOf(c)
  BY <1>2, <1>3 DEF ProvidersOf
<1>5. Edges' = Edges
  BY <1>1, <1>4 DEF Edges
<1>6. Unresolved' = Unresolved
  BY <1>1, <1>3 DEF Unresolved
<1>7. \A i : DependsOn(i)' = DependsOn(i)
  BY <1>1, <1>5 DEF DependsOn
<1> QED
  BY <1>1, <1>5, <1>6, <1>7 DEF OnCycle

-----------------------------------------------------------------------------
(* The inductive invariant *)

Candidates == UNION {ToSet(input) : input \in Inputs}

(* What is loaded can be, and no id is taken twice.                          *)
LoadedOnce ==
  /\ unread \in Seq(Candidates) /\ valid \in Seq(Candidates)
  /\ \A c \in Loaded : c.loads
  /\ IsInjective(IdsInOrder)

(* Where Kahn's algorithm is: what is queued or ordered waits for nothing    *)
(* that is not ordered, each provider precedes its consumers, and afterwards *)
(* all are ordered, only those behind a cycle out of turn.                   *)
Ordering ==
  /\ queue \in Seq(LoadedIds) /\ order \in Seq(LoadedIds)
  /\ IsInjective(queue) /\ IsInjective(order)
  /\ phase \in {"load", "index"} => queue = <<>> /\ order = <<>>
  /\ phase = "sort" =>
       /\ ToSet(queue) \cap ToSet(order) = {}
       /\ remaining = [w \in LoadedIds |-> Edges[w] \ ToSet(order)]
       /\ ToSet(queue) \union ToSet(order) = {w \in LoadedIds : remaining[w] = {}}
       /\ \A i \in ToSet(order) : \A p \in Edges[i] : Precedes(order, p, i)
  /\ phase \notin {"load", "index", "sort"} =>
       /\ ToSet(order) = LoadedIds
       /\ \A i \in LoadedIds : DependsOn(i) \cap OnCycle = {} =>
            \A p \in Edges[i] : Precedes(order, p, i)

(* Modules whose hooks are not run.                                          *)
Unstarted == Unresolved \union OnCycle

(* The state in which the engine has each module, phase by phase.            *)
Lifecycles ==
  /\ state \in [Ids -> States]
  /\ phase \in Phases \ {"thrown"}
  /\ \A i \in Ids \ LoadedIds : state[i] = "unknown"
  /\ \A i \in LoadedIds :
       /\ phase = "load" => state[i] = "discovered"
       /\ phase \in {"index", "sort", "fail_unresolved"} => state[i] = "validated"
       /\ phase = "fail_cycles" =>
            state[i] = IF i \in Unresolved THEN "failed" ELSE "validated"
       /\ phase = "register" =>
            state[i] = IF i \in Unstarted THEN "failed" ELSE "validated"
       /\ phase \in {"initialize", "done"} /\ i \in Unstarted => state[i] = "failed"

(* The registry, and what has become of the modules in it.                   *)
Registry ==
  /\ list \in Seq(LoadedIds) /\ IsInjective(list)
  /\ next \in 1 .. Len(list) + 1
  /\ hookFailed \subseteq Before(next) /\ subscribed \subseteq ToSet(list)
  /\ phase \notin {"initialize", "done"} => list = <<>>
  /\ phase = "done" => next = Len(list) + 1
  /\ phase \in {"initialize", "done"} =>
       /\ ToSet(list) = LoadedIds \ Unstarted
       /\ \A k \in 1 .. Len(list) :
            state[list[k]] = IF k >= next THEN "registered"
                             ELSE IF list[k] \in hookFailed THEN "failed"
                             ELSE "initialized"
       /\ \A i \in ToSet(list) : DependsOn(i) \cap OnCycle = {} =>
            \A p \in Edges[i] \cap ToSet(list) : Precedes(list, p, i)

(* diagnostics.ready, and the ids it is made from.                           *)
Diagnostics ==
  /\ issues \subseteq Ids \union {NoId}
  /\ ready \in BOOLEAN
  /\ phase = "done" =>
       (ready <=> /\ \A i \in LoadedIds : state[i] = "initialized"
                  /\ issues \subseteq LoadedIds \union {NoId})

IInv == LoadedOnce /\ Ordering /\ Lifecycles /\ Registry /\ Diagnostics

-----------------------------------------------------------------------------
LEMMA CandidateShape ==
  ASSUME NEW c \in Candidates
  PROVE  /\ c.loads \in BOOLEAN
         /\ c.id \in Ids \union {NoId}
         /\ c.loads => c.id \in Ids
  BY DEF Candidates, BootstrapAssumption

LEMMA LoadedShape ==
  ASSUME LoadedOnce
  PROVE  /\ LoadedIds \subseteq Ids /\ NoId \notin LoadedIds
         /\ IdsInOrder \in Seq(LoadedIds) /\ ToSet(IdsInOrder) = LoadedIds
         /\ IsFiniteSet(LoadedIds) /\ Len(valid) = Cardinality(LoadedIds)
<1>1. /\ Len(valid) \in Nat /\ DOMAIN valid = 1 .. Len(valid)
      /\ \A i \in 1 .. Len(valid) : valid[i] \in Candidates
  BY DEF LoadedOnce
<1>2. LoadedIds \subseteq Ids /\ NoId \notin LoadedIds
  <2>1. ASSUME NEW c \in Loaded PROVE c.id \in Ids
    <3>1. c \in Candidates /\ c.loads
      BY <1>1 DEF LoadedOnce, Loaded, ToSet
    <3> QED
      BY <3>1, CandidateShape
  <2> QED
    BY <2>1 DEF LoadedIds, BootstrapAssumption
<1>3. LoadedIds = {valid[i].id : i \in 1 .. Len(valid)}
  BY <1>1 DEF LoadedIds, Loaded, ToSet
<1>4. /\ IdsInOrder \in [1 .. Len(valid) -> LoadedIds]
      /\ \A i \in 1 .. Len(valid) : IdsInOrder[i] = valid[i].id
  BY <1>3 DEF IdsInOrder
<1>5. IdsInOrder \in Seq(LoadedIds)
  BY <1>1, <1>4
<1>6. ToSet(IdsInOrder) = LoadedIds
  BY <1>3, <1>4 DEF ToSet
<1>7. IdsInOrder \in Surjection(1 .. Len(valid), LoadedIds)
  BY <1>3, <1>4 DEF Surjection
<1>8. IdsInOrder \in Injection(1 .. Len(valid), LoadedIds)
  BY <1>4 DEF LoadedOnce, Injection
<1>9. IsFiniteSet(1 .. Len(valid)) /\ Cardinality(1 .. Len(valid)) = Len(valid)
  BY <1>1, FS_Interval
<1>10. IsFiniteSet(LoadedIds) /\ Cardinality(LoadedIds) = Len(valid)
  BY <1>7, <1>8, <1>9, FS_Surjection
<1> QED
  BY <1>2, <1>5, <1>6, <1>10

LEMMA InvInit == Init => IInv
<1> SUFFICES ASSUME Init PROVE IInv
  OBVIOUS
<1>1. unread \in Inputs /\ phase = "load" /\ valid = <<>> /\ issues = {}
      /\ state = [i \in Ids |-> "unknown"] /\ queue = <<>> /\ order = <<>>
      /\ list = <<>> /\ next = 1 /\ subscribed = {} /\ hookFailed = {} /\ ready = FALSE
  BY DEF Init, Idle
<1>2. Loaded = {} /\ LoadedIds = {} /\ DOMAIN IdsInOrder = {}
  BY <1>1 DEF Loaded, LoadedIds, ToSet, IdsInOrder
<1>3. LoadedOnce
  <2>1. unread \in Seq(ToSet(unread)) /\ ToSet(unread) \subseteq Candidates
    BY <1>1 DEF Candidates, BootstrapAssumption
  <2>2. unread \in Seq(Candidates)
    BY <2>1
  <2> QED
    BY <1>1, <1>2, <2>2 DEF LoadedOnce, IsInjective
<1>4. Ordering
  BY <1>1, <1>2 DEF Ordering, IsInjective
<1>5. Lifecycles
  BY <1>1, <1>2 DEF Lifecycles, Phases, States
<1>6. Registry
  BY <1>1, <1>2 DEF Registry, IsInjective
<1>7. Diagnostics
  BY <1>1 DEF Diagnostics
<1> QED
  BY <1>3, <1>4, <1>5, <1>6, <1>7 DEF IInv

-----------------------------------------------------------------------------
(* Loading *)

LEMMA LoadKeepsOnce ==
  ASSUME IInv, Load
  PROVE  /\ LoadedOnce'
         /\ \/ /\ LoadedIds' = LoadedIds \union {Head(unread).id}
               /\ Head(unread).id \in Ids \ LoadedIds
               /\ state' = [state EXCEPT ![Head(unread).id] = "discovered"]
               /\ issues' = issues
            \/ /\ UNCHANGED <<valid, state>>
               /\ issues' = issues \union {Head(unread).id}
               /\ Head(unread).id \in Ids \union {NoId}
         /\ phase' = "load"
<1> DEFINE candidate == Head(unread)
<1>0. /\ phase = "load" /\ unread # <<>> /\ unread' = Tail(unread)
      /\ unread \in Seq(Candidates) /\ valid \in Seq(Candidates)
  BY DEF Load, IInv, LoadedOnce
<1>1. candidate \in Candidates /\ unread' \in Seq(Candidates)
  BY <1>0
<1>2. /\ candidate.loads \in BOOLEAN /\ candidate.id \in Ids \union {NoId}
      /\ candidate.loads => candidate.id \in Ids
  BY <1>1, CandidateShape
<1>3. CASE candidate.loads /\ candidate.id \notin LoadedIds
  <2>1. valid' = Append(valid, candidate) /\ UNCHANGED issues
        /\ Transition({candidate.id}, "discovered", "load")
    BY <1>3 DEF Load
  <2>2. valid' \in Seq(Candidates) /\ Loaded' = Loaded \union {candidate}
    BY <1>0, <1>1, <2>1, AppendTo DEF Loaded
  <2>3. LoadedIds' = LoadedIds \union {candidate.id}
    BY <2>2 DEF LoadedIds
  <2>4. candidate.id \in Ids /\ state[candidate.id] = "unknown"
    BY <1>2, <1>3 DEF IInv, Lifecycles
  <2>5. state' = [state EXCEPT ![candidate.id] = "discovered"] /\ phase' = "load"
    BY <2>1, <2>4 DEF Transition, Transitions, IInv, Lifecycles
  <2>6. IsInjective(IdsInOrder')
    <3>1. /\ Len(valid') = Len(valid) + 1 /\ Len(valid) \in Nat
          /\ \A i \in 1 .. Len(valid) : valid'[i] = valid[i]
          /\ valid'[Len(valid) + 1] = candidate
          /\ \A i \in 1 .. Len(valid) : valid[i] \in Loaded
      BY <1>0, <2>1 DEF Loaded, ToSet
    <3>2. \A i \in 1 .. Len(valid) : valid[i].id # candidate.id
      BY <1>3, <3>1 DEF LoadedIds
    <3>3. \A i, j \in 1 .. Len(valid) : valid[i].id = valid[j].id => i = j
      BY DEF IInv, LoadedOnce, IsInjective, IdsInOrder
    <3> SUFFICES ASSUME NEW i \in 1 .. Len(valid'), NEW j \in 1 .. Len(valid'),
                        valid'[i].id = valid'[j].id
                 PROVE  i = j
      BY DEF IsInjective, IdsInOrder
    <3>4. \A k \in 1 .. Len(valid') : k \in 1 .. Len(valid) \/ k = Len(valid) + 1
      BY <3>1
    <3> QED
      BY <3>1, <3>2, <3>3, <3>4
  <2>7. \A c \in Loaded' : c.loads
    BY <1>3, <2>2 DEF IInv, LoadedOnce
  <2> QED
    BY <1>1, <1>3, <2>1, <2>2, <2>3, <2>4, <2>5, <2>6, <2>7 DEF LoadedOnce
<1>4. CASE ~(candidate.loads /\ candidate.id \notin LoadedIds)
  <2>1. issues' = issues \union {candidate.id} /\ UNCHANGED <<valid, state, phase>>
    BY <1>4 DEF Load
  <2> QED
    BY <1>0, <1>1, <1>2, <2>1, GraphUnchanged DEF IInv, LoadedOnce
<1> QED
  BY <1>3, <1>4

LEMMA LoadKeeps == IInv /\ Load => IInv'
<1> SUFFICES ASSUME IInv, Load PROVE IInv'
  OBVIOUS
<1>0. /\ phase = "load" /\ phase' = "load" /\ LoadedOnce'
      /\ UNCHANGED <<queue, order, list, next, subscribed, hookFailed, ready>>
  BY LoadKeepsOnce DEF Load, sorting, hooks
<1>1. Ordering'
  BY <1>0 DEF IInv, Ordering
<1>2. Lifecycles'
  <2>1. CASE UNCHANGED <<valid, state>>
    BY <1>0, <2>1, GraphUnchanged DEF IInv, Lifecycles
  <2>2. CASE /\ LoadedIds' = LoadedIds \union {Head(unread).id}
             /\ Head(unread).id \in Ids \ LoadedIds
             /\ state' = [state EXCEPT ![Head(unread).id] = "discovered"]
    BY <1>0, <2>2 DEF IInv, Lifecycles, Phases, States
  <2> QED
    BY <2>1, <2>2, LoadKeepsOnce
<1>3. Registry'
  <2>1. list = <<>>
    BY <1>0 DEF IInv, Registry
  <2> QED
    BY <1>0, <2>1 DEF IInv, Registry, Before, ToSet, IsInjective
<1>4. Diagnostics'
  BY <1>0, LoadKeepsOnce DEF IInv, Diagnostics
<1> QED
  BY <1>0, <1>1, <1>2, <1>3, <1>4 DEF IInv

(* Steps after loading.  The graph stays, and what they leave alone with it. *)
LEMMA OnceUnchanged ==
  ASSUME LoadedOnce, UNCHANGED <<unread, valid>>
  PROVE  LoadedOnce'
  BY GraphUnchanged DEF LoadedOnce

LEMMA OrderingUnchanged ==
  ASSUME Ordering, UNCHANGED <<valid, queue, order, remaining>>,
         \/ phase' = phase
         \/ phase \in {"load", "index"} /\ phase' \in {"load", "index"}
         \/ phase \notin {"load", "index", "sort"} /\ phase' \notin {"load", "index", "sort"}
  PROVE  Ordering'
<1>1. /\ LoadedIds' = LoadedIds /\ Edges' = Edges /\ OnCycle' = OnCycle
      /\ \A i : DependsOn(i)' = DependsOn(i)
  BY GraphUnchanged
<1> QED
  BY <1>1 DEF Ordering, Precedes

LEMMA RegistryUnstarted ==
  ASSUME Registry, UNCHANGED <<valid, list, next, subscribed, hookFailed>>,
         phase \notin {"initialize", "done"}, phase' \notin {"initialize", "done"}
  PROVE  Registry'
<1>1. LoadedIds' = LoadedIds
  BY GraphUnchanged
<1> QED
  BY <1>1 DEF Registry, Before

LEMMA DiagnosticsUnchanged ==
  ASSUME Diagnostics, UNCHANGED <<valid, issues, ready>>, phase' # "done"
  PROVE  Diagnostics'
  BY DEF Diagnostics

LEMMA ValidateKeeps == IInv /\ Validate => IInv'
<1> SUFFICES ASSUME IInv, Validate PROVE IInv'
  OBVIOUS
<1>0. /\ phase = "load" /\ Transition(LoadedIds, "validated", "index")
      /\ UNCHANGED <<unread, valid, issues, remaining, queue, order, list, next,
                     subscribed, hookFailed, ready>>
  BY DEF Validate, sorting, hooks
<1>1. /\ LoadedIds' = LoadedIds /\ Unresolved' = Unresolved /\ OnCycle' = OnCycle
      /\ LoadedIds \subseteq Ids
  BY <1>0, GraphUnchanged, LoadedShape DEF IInv
<1>2. \A i \in LoadedIds : state[i] = "discovered"
  BY <1>0 DEF IInv, Lifecycles
<1>3. /\ phase' = "index"
      /\ state' = [i \in Ids |-> IF i \in LoadedIds THEN "validated" ELSE state[i]]
  BY <1>0, <1>2 DEF Transition, Transitions
<1>4. Lifecycles'
  BY <1>0, <1>1, <1>3 DEF IInv, Lifecycles, Phases, States
<1> QED
  BY <1>0, <1>3, <1>4, OnceUnchanged, OrderingUnchanged, RegistryUnstarted,
     DiagnosticsUnchanged DEF IInv

-----------------------------------------------------------------------------
(* Sorting *)

LEMMA LifecyclesSorting ==
  ASSUME Lifecycles, UNCHANGED <<valid, state>>,
         phase \in {"index", "sort"}, phase' \in {"sort", "fail_unresolved"}
  PROVE  Lifecycles'
<1>1. LoadedIds' = LoadedIds
  BY GraphUnchanged
<1> QED
  BY <1>1 DEF Lifecycles, Phases

LEMMA StartSortKeeps == IInv /\ StartSort => IInv'
<1> SUFFICES ASSUME IInv, StartSort PROVE IInv'
  OBVIOUS
<1> DEFINE free == {i \in LoadedIds : Edges[i] = {}}
<1>0. /\ phase = "index" /\ phase' = "sort" /\ remaining' = Edges
      /\ queue' = Filter(IdsInOrder, free)
      /\ UNCHANGED <<unread, valid, issues, state, order, list, next, subscribed,
                     hookFailed, ready>>
  BY DEF StartSort, hooks
<1>1. /\ LoadedIds' = LoadedIds /\ Edges' = Edges
      /\ Edges \in [LoadedIds -> SUBSET LoadedIds]
  BY <1>0, GraphUnchanged, GraphTyped
<1>2. order = <<>>
  BY <1>0 DEF IInv, Ordering
<1>3. /\ queue' \in Seq(LoadedIds) /\ IsInjective(queue')
      /\ ToSet(queue') = free
  <2>1. IdsInOrder \in Seq(LoadedIds) /\ ToSet(IdsInOrder) = LoadedIds
    BY LoadedShape DEF IInv
  <2>2. IsInjective(IdsInOrder)
    BY DEF IInv, LoadedOnce
  <2>3. ToSet(IdsInOrder) \cap free = free
    BY <2>1
  <2> HIDE DEF free
  <2> QED
    BY <1>0, <2>1, <2>2, <2>3, FilterFacts
<1>4. Ordering'
  <2>1. ToSet(order') = {}
    BY <1>0, <1>2 DEF ToSet
  <2>2. \A w \in LoadedIds : Edges[w] \ {} = Edges[w]
    BY <1>1
  <2>3. remaining' = [w \in LoadedIds |-> Edges[w] \ ToSet(order')]
    BY <1>0, <1>1, <2>1, <2>2
  <2>4. ToSet(queue') \union ToSet(order') = {w \in LoadedIds : remaining'[w] = {}}
    BY <1>0, <1>3, <2>1
  <2>5. order' \in Seq(LoadedIds) /\ IsInjective(order')
    BY <1>0, <1>2 DEF IsInjective
  <2> QED
    BY <1>0, <1>1, <1>3, <2>1, <2>3, <2>4, <2>5 DEF Ordering
<1> QED
  BY <1>0, <1>4, OnceUnchanged, LifecyclesSorting, RegistryUnstarted,
     DiagnosticsUnchanged DEF IInv

LEMMA SortNextKeeps == IInv /\ SortNext => IInv'
<1> SUFFICES ASSUME IInv, SortNext PROVE IInv'
  OBVIOUS
<1> DEFINE v == Head(queue)
           waiting == {w \in LoadedIds : remaining[w] = {v}}
           freed == Filter(IdsInOrder, waiting)
<1>0. /\ phase = "sort" /\ phase' = "sort" /\ queue # <<>>
      /\ order' = Append(order, v)
      /\ remaining' = [w \in DOMAIN remaining |-> remaining[w] \ {v}]
      /\ queue' = Tail(queue) \o freed
      /\ UNCHANGED <<unread, valid, issues, state, list, next, subscribed,
                     hookFailed, ready>>
  BY DEF SortNext, hooks
<1>1. /\ LoadedIds' = LoadedIds /\ Edges' = Edges
      /\ Edges \in [LoadedIds -> SUBSET LoadedIds]
  BY <1>0, GraphUnchanged, GraphTyped
<1>2. /\ queue \in Seq(LoadedIds) /\ order \in Seq(LoadedIds)
      /\ IsInjective(queue) /\ IsInjective(order)
      /\ ToSet(queue) \cap ToSet(order) = {}
      /\ remaining = [w \in LoadedIds |-> Edges[w] \ ToSet(order)]
      /\ ToSet(queue) \union ToSet(order) = {w \in LoadedIds : remaining[w] = {}}
      /\ \A i \in ToSet(order) : \A p \in Edges[i] : Precedes(order, p, i)
  BY <1>0 DEF IInv, Ordering
<1>3. /\ v \in LoadedIds /\ Tail(queue) \in Seq(LoadedIds)
      /\ ToSet(queue) = {v} \union ToSet(Tail(queue))
      /\ v \notin ToSet(Tail(queue)) /\ IsInjective(Tail(queue))
  <2>1. /\ Tail(queue) \in Seq(LoadedIds) /\ v \in LoadedIds
        /\ ToSet(queue) = {v} \union ToSet(Tail(queue))
    BY <1>0, <1>2, HeadAndTail
  <2>2. /\ DOMAIN queue = 1 .. Len(queue) /\ Len(queue) \in Nat \ {0} /\ v = queue[1]
        /\ DOMAIN Tail(queue) = 1 .. Len(queue) - 1
        /\ \A i \in 1 .. Len(queue) - 1 : Tail(queue)[i] = queue[i + 1]
    BY <1>0, <1>2
  <2>3. \A i, j \in 1 .. Len(queue) : queue[i] = queue[j] => i = j
    BY <1>2, <2>2 DEF IsInjective
  <2>4. \A i \in 1 .. Len(queue) - 1 : i + 1 \in 1 .. Len(queue) /\ i + 1 # 1
    BY <2>2
  <2>5. v \notin ToSet(Tail(queue))
    BY <2>2, <2>3, <2>4 DEF ToSet
  <2>6. IsInjective(Tail(queue))
    <3> SUFFICES ASSUME NEW i \in 1 .. Len(queue) - 1, NEW j \in 1 .. Len(queue) - 1,
                        Tail(queue)[i] = Tail(queue)[j]
                 PROVE  i = j
      BY <2>2 DEF IsInjective
    <3>1. i + 1 = j + 1
      BY <2>2, <2>3, <2>4
    <3> QED
      BY <2>2, <3>1
  <2> QED
    BY <2>1, <2>5, <2>6
<1>4. freed \in Seq(LoadedIds) /\ IsInjective(freed) /\ ToSet(freed) = waiting
  <2>1. IdsInOrder \in Seq(LoadedIds) /\ ToSet(IdsInOrder) = LoadedIds
    BY LoadedShape DEF IInv
  <2>2. IsInjective(IdsInOrder)
    BY DEF IInv, LoadedOnce
  <2>3. ToSet(IdsInOrder) \cap waiting = waiting
    BY <2>1
  <2> HIDE DEF waiting
  <2> QED
    BY <2>1, <2>2, <2>3, FilterFacts
<1>5. /\ order' \in Seq(LoadedIds) /\ IsInjective(order')
      /\ ToSet(order') = ToSet(order) \union {v}
      /\ \A x, y : Precedes(order, x, y) => Precedes(order', x, y)
      /\ \A x \in ToSet(order) : Precedes(order', x, v)
  <2>1. order' \in Seq(LoadedIds) /\ ToSet(order') = ToSet(order) \union {v}
    BY <1>0, <1>2, <1>3, AppendTo
  <2>2. /\ Len(order) \in Nat /\ DOMAIN order = 1 .. Len(order)
        /\ DOMAIN order' = 1 .. Len(order) + 1
        /\ \A i \in 1 .. Len(order) : order'[i] = order[i]
        /\ order'[Len(order) + 1] = v
    BY <1>0, <1>2, <1>3
  <2>3. \A i \in 1 .. Len(order) : order[i] # v
    <3>1. \A i \in 1 .. Len(order) : order[i] \in ToSet(order)
      BY <2>2 DEF ToSet
    <3>2. v \notin ToSet(order)
      BY <1>2, <1>3
    <3> QED
      BY <3>1, <3>2
  <2>4. \A i \in 1 .. Len(order) + 1 : i \in 1 .. Len(order) \/ i = Len(order) + 1
    BY <2>2
  <2>5. IsInjective(order')
    BY <1>2, <2>2, <2>3, <2>4 DEF IsInjective
  <2>6. DOMAIN order \subseteq DOMAIN order'
    BY <2>2
  <2>7. \A x, y : Precedes(order, x, y) => Precedes(order', x, y)
    BY <2>2, <2>6 DEF Precedes
  <2>8. ASSUME NEW x \in ToSet(order) PROVE Precedes(order', x, v)
    <3>1. PICK i \in 1 .. Len(order) : order[i] = x
      BY <2>2 DEF ToSet
    <3>2. i \in DOMAIN order' /\ Len(order) + 1 \in DOMAIN order' /\ i < Len(order) + 1
      BY <2>2
    <3> QED
      BY <2>2, <3>1, <3>2 DEF Precedes
  <2> QED
    BY <2>1, <2>5, <2>7, <2>8
<1>6. \A w \in LoadedIds : remaining'[w] = Edges[w] \ ToSet(order')
  BY <1>0, <1>2, <1>5
<1>7. remaining' = [w \in LoadedIds |-> Edges[w] \ ToSet(order')]
  BY <1>0, <1>2, <1>6
<1>8. /\ queue' \in Seq(LoadedIds) /\ IsInjective(queue')
      /\ ToSet(queue') = ToSet(Tail(queue)) \union waiting
  <2>1. ToSet(Tail(queue)) \cap waiting = {}
    BY <1>2, <1>3
  <2> DEFINE rest == Tail(queue)
  <2>2. rest \in Seq(LoadedIds) /\ IsInjective(rest) /\ queue' = rest \o freed
    BY <1>0, <1>3
  <2> HIDE DEF freed, waiting, rest
  <2>3. ToSet(rest) \cap ToSet(freed) = {}
    BY <1>4, <2>1 DEF rest
  <2>4. /\ rest \o freed \in Seq(LoadedIds) /\ IsInjective(rest \o freed)
        /\ ToSet(rest \o freed) = ToSet(rest) \union ToSet(freed)
    BY <1>4, <2>2, <2>3, Concatenated
  <2> QED
    BY <1>4, <2>2, <2>4 DEF rest
<1>9. ToSet(queue') \union ToSet(order') = {w \in LoadedIds : remaining'[w] = {}}
  <2>1. ASSUME NEW w \in LoadedIds
        PROVE  remaining'[w] = {} <=> remaining[w] = {} \/ remaining[w] = {v}
    BY <1>0, <1>2
  <2> QED
    BY <1>2, <1>3, <1>5, <1>8, <2>1
<1>10. ToSet(queue') \cap ToSet(order') = {}
  <2>1. \A w \in waiting : w \notin ToSet(queue) \union ToSet(order)
    <3> HIDE DEF v
    <3>1. \A w \in waiting : w \in LoadedIds /\ remaining[w] # {}
      OBVIOUS
    <3> QED
      BY <1>2, <3>1
  <2> HIDE DEF waiting, v
  <2>2. \A x \in ToSet(Tail(queue)) : x \notin ToSet(order) /\ x # v
    BY <1>2, <1>3
  <2>3. \A x \in waiting : x \notin ToSet(order) /\ x # v
    BY <1>3, <2>1
  <2> QED
    BY <1>5, <1>8, <2>2, <2>3
<1>11. ASSUME NEW i \in ToSet(order'), NEW p \in Edges[i] PROVE Precedes(order', p, i)
  <2>1. CASE i \in ToSet(order)
    BY <1>2, <1>5, <2>1
  <2>2. CASE i = v
    <3>1. remaining[v] = {}
      BY <1>2, <1>3
    <3>2. p \in ToSet(order)
      BY <1>2, <1>3, <2>2, <3>1
    <3> QED
      BY <1>5, <2>2, <3>2
  <2> QED
    BY <1>5, <2>1, <2>2
<1>12. Ordering'
  BY <1>0, <1>1, <1>5, <1>7, <1>8, <1>9, <1>10, <1>11 DEF Ordering
<1> QED
  BY <1>0, <1>12, OnceUnchanged, LifecyclesSorting, RegistryUnstarted,
     DiagnosticsUnchanged DEF IInv

(* What is appended last depends on a cycle; the rest stands as ordered.     *)
LEMMA FinishSortKeeps == IInv /\ FinishSort => IInv'
<1> SUFFICES ASSUME IInv, FinishSort PROVE IInv'
  OBVIOUS
<1> DEFINE left == LoadedIds \ ToSet(order)
           last == Filter(IdsInOrder, left)
<1>0. /\ phase = "sort" /\ phase' = "fail_unresolved" /\ queue = <<>>
      /\ order' = order \o last
      /\ UNCHANGED <<unread, valid, issues, state, remaining, queue, list, next,
                     subscribed, hookFailed, ready>>
  BY DEF FinishSort, hooks
<1>1. /\ LoadedIds' = LoadedIds /\ Edges' = Edges /\ OnCycle' = OnCycle
      /\ \A i : DependsOn(i)' = DependsOn(i)
      /\ Edges \in [LoadedIds -> SUBSET LoadedIds]
  BY <1>0, GraphUnchanged, GraphTyped
<1>2. /\ order \in Seq(LoadedIds) /\ IsInjective(order)
      /\ remaining = [w \in LoadedIds |-> Edges[w] \ ToSet(order)]
      /\ ToSet(queue) \union ToSet(order) = {w \in LoadedIds : remaining[w] = {}}
      /\ \A i \in ToSet(order) : \A p \in Edges[i] : Precedes(order, p, i)
  BY <1>0 DEF IInv, Ordering
<1>3. ToSet(order) = {w \in LoadedIds : remaining[w] = {}}
  <2>1. ToSet(queue) = {}
    BY <1>0 DEF ToSet
  <2> QED
    BY <1>2, <2>1
<1>4. last \in Seq(LoadedIds) /\ IsInjective(last) /\ ToSet(last) = left
  <2>1. IdsInOrder \in Seq(LoadedIds) /\ ToSet(IdsInOrder) = LoadedIds
    BY LoadedShape DEF IInv
  <2>2. IsInjective(IdsInOrder)
    BY DEF IInv, LoadedOnce
  <2>3. ToSet(IdsInOrder) \cap left = left
    BY <2>1
  <2> HIDE DEF left
  <2> QED
    BY <2>1, <2>2, <2>3, FilterFacts
<1>5. /\ order' \in Seq(LoadedIds) /\ IsInjective(order')
      /\ ToSet(order') = LoadedIds
      /\ \A x, y : Precedes(order, x, y) => Precedes(order', x, y)
  <2> HIDE DEF last
  <2>1. ToSet(order) \cap ToSet(last) = {} /\ ToSet(order) \union ToSet(last) = LoadedIds
    BY <1>3, <1>4
  <2>2. /\ order \o last \in Seq(LoadedIds) /\ IsInjective(order \o last)
        /\ ToSet(order \o last) = ToSet(order) \union ToSet(last)
        /\ DOMAIN (order \o last) = 1 .. (Len(order) + Len(last))
        /\ \A i \in 1 .. Len(order) : (order \o last)[i] = order[i]
    BY <1>2, <1>4, <2>1, Concatenated
  <2>3. /\ DOMAIN order = 1 .. Len(order) /\ Len(order) \in Nat /\ Len(last) \in Nat
        /\ 1 .. Len(order) \subseteq 1 .. (Len(order) + Len(last))
    BY <1>2, <1>4
  <2>4. DOMAIN order \subseteq DOMAIN order' /\ \A i \in DOMAIN order : order'[i] = order[i]
    BY <1>0, <2>2, <2>3
  <2>5. \A x, y : Precedes(order, x, y) => Precedes(order', x, y)
    BY <2>4 DEF Precedes
  <2> QED
    BY <1>0, <2>1, <2>2, <2>5
<1>6. ASSUME NEW i \in left PROVE DependsOn(i) \cap OnCycle # {}
  <2>1. ASSUME NEW x \in left PROVE Edges[x] \cap left # {}
    <3>1. x \in LoadedIds /\ x \notin ToSet(order) /\ Edges[x] \subseteq LoadedIds
      BY <1>1
    <3>2. remaining[x] # {} /\ remaining[x] = Edges[x] \ ToSet(order)
      BY <1>2, <1>3, <3>1
    <3> QED
      BY <3>1, <3>2
  <2>2. IsFiniteSet(LoadedIds) /\ left \in SUBSET LoadedIds
    BY LoadedShape DEF IInv
  <2> HIDE DEF left
  <2> QED
    BY <1>6, <2>1, <2>2, StuckDependOnCycle
<1>7. ASSUME NEW i \in LoadedIds, DependsOn(i) \cap OnCycle = {}, NEW p \in Edges[i]
      PROVE  Precedes(order', p, i)
  <2>1. i \in ToSet(order)
    BY <1>6, <1>7
  <2> QED
    BY <1>2, <1>5, <1>7, <2>1
<1>8. Ordering'
  <2>1. queue' \in Seq(LoadedIds) /\ IsInjective(queue')
    BY <1>0 DEF IInv, Ordering
  <2> QED
    BY <1>0, <1>1, <1>5, <1>7, <2>1 DEF Ordering
<1> QED
  BY <1>0, <1>8, OnceUnchanged, LifecyclesSorting, RegistryUnstarted,
     DiagnosticsUnchanged DEF IInv

-----------------------------------------------------------------------------
(* Failing and registering *)

LEMMA FailUnresolvedKeeps == IInv /\ FailUnresolved => IInv'
<1> SUFFICES ASSUME IInv, FailUnresolved PROVE IInv'
  OBVIOUS
<1>0. /\ phase = "fail_unresolved" /\ Transition(Unresolved, "failed", "fail_cycles")
      /\ UNCHANGED <<unread, valid, issues, remaining, queue, order, list, next,
                     subscribed, hookFailed, ready>>
  BY DEF FailUnresolved, sorting, hooks
<1>1. /\ LoadedIds' = LoadedIds /\ Unresolved' = Unresolved
      /\ LoadedIds \subseteq Ids /\ Unresolved \subseteq LoadedIds
  BY <1>0, GraphUnchanged, GraphTyped, LoadedShape DEF IInv
<1>2. \A i \in LoadedIds : state[i] = "validated"
  BY <1>0 DEF IInv, Lifecycles
<1>3. /\ phase' = "fail_cycles"
      /\ state' = [i \in Ids |-> IF i \in Unresolved THEN "failed" ELSE state[i]]
  BY <1>0, <1>1, <1>2 DEF Transition, Transitions
<1>4. Lifecycles'
  BY <1>0, <1>1, <1>2, <1>3 DEF IInv, Lifecycles, Phases, States
<1> QED
  BY <1>0, <1>3, <1>4, OnceUnchanged, OrderingUnchanged, RegistryUnstarted,
     DiagnosticsUnchanged DEF IInv

LEMMA FailCyclesKeeps == IInv /\ FailCycles => IInv'
<1> SUFFICES ASSUME IInv, FailCycles PROVE IInv'
  OBVIOUS
<1> DEFINE failing == {i \in OnCycle : state[i] = "validated"}
<1>0. /\ phase = "fail_cycles" /\ Transition(failing, "failed", "register")
      /\ UNCHANGED <<unread, valid, issues, remaining, queue, order, list, next,
                     subscribed, hookFailed, ready>>
  BY DEF FailCycles, sorting, hooks
<1>1. /\ LoadedIds' = LoadedIds /\ Unresolved' = Unresolved /\ OnCycle' = OnCycle
      /\ LoadedIds \subseteq Ids /\ OnCycle \subseteq LoadedIds
  BY <1>0, GraphUnchanged, GraphTyped, LoadedShape DEF IInv
<1>2. \A i \in LoadedIds : state[i] = IF i \in Unresolved THEN "failed" ELSE "validated"
  BY <1>0 DEF IInv, Lifecycles
<1>3. /\ phase' = "register"
      /\ state' = [i \in Ids |-> IF i \in failing THEN "failed" ELSE state[i]]
  BY <1>0 DEF Transition, Transitions
<1>4. ASSUME NEW i \in LoadedIds
      PROVE  state'[i] = IF i \in Unstarted THEN "failed" ELSE "validated"
  BY <1>1, <1>2, <1>3 DEF Unstarted
<1>5. Unstarted' = Unstarted
  BY <1>1 DEF Unstarted
<1>6. Lifecycles'
  <2>1. state' \in [Ids -> States]
    BY <1>3 DEF IInv, Lifecycles, States
  <2>2. \A i \in Ids \ LoadedIds : state'[i] = "unknown"
    BY <1>1, <1>3 DEF IInv, Lifecycles
  <2> QED
    BY <1>1, <1>3, <1>4, <1>5, <2>1, <2>2 DEF Lifecycles, Phases
<1> QED
  BY <1>0, <1>3, <1>6, OnceUnchanged, OrderingUnchanged, RegistryUnstarted,
     DiagnosticsUnchanged DEF IInv

LEMMA RegisterKeeps == IInv /\ Register => IInv'
<1> SUFFICES ASSUME IInv, Register PROVE IInv'
  OBVIOUS
<1> DEFINE still == {i \in LoadedIds : state[i] = "validated"}
<1>0. /\ phase = "register" /\ list' = Filter(order, still)
      /\ Transition(still, "registered", "initialize")
      /\ UNCHANGED <<unread, valid, issues, remaining, queue, order, next,
                     subscribed, hookFailed, ready>>
  BY DEF Register, sorting
<1>1. /\ LoadedIds' = LoadedIds /\ Unresolved' = Unresolved /\ OnCycle' = OnCycle
      /\ Edges' = Edges /\ \A i : DependsOn(i)' = DependsOn(i)
      /\ LoadedIds \subseteq Ids /\ Edges \in [LoadedIds -> SUBSET LoadedIds]
  BY <1>0, GraphUnchanged, GraphTyped, LoadedShape DEF IInv
<1>2. Unstarted' = Unstarted
  BY <1>1 DEF Unstarted
<1>3. \A i \in LoadedIds : state[i] = IF i \in Unstarted THEN "failed" ELSE "validated"
  BY <1>0 DEF IInv, Lifecycles
<1>4. still = LoadedIds \ Unstarted
  BY <1>3
<1>5. /\ phase' = "initialize"
      /\ state' = [i \in Ids |-> IF i \in still THEN "registered" ELSE state[i]]
  BY <1>0 DEF Transition, Transitions
<1>6. /\ order \in Seq(LoadedIds) /\ IsInjective(order) /\ ToSet(order) = LoadedIds
      /\ \A i \in LoadedIds : DependsOn(i) \cap OnCycle = {} =>
           \A p \in Edges[i] : Precedes(order, p, i)
  BY <1>0 DEF IInv, Ordering
<1>7. /\ list = <<>> /\ next \in 1 .. Len(list) + 1 /\ hookFailed \subseteq Before(next)
      /\ subscribed \subseteq ToSet(list)
  BY <1>0 DEF IInv, Registry
<1>8. next = 1 /\ hookFailed = {} /\ subscribed = {}
  <2>1. next = 1 /\ ToSet(list) = {}
    BY <1>7 DEF ToSet
  <2>2. Before(next) = {}
    BY <2>1 DEF Before
  <2> QED
    BY <1>7, <2>1, <2>2
<1>9. /\ list' \in Seq(LoadedIds) /\ IsInjective(list') /\ ToSet(list') = still
      /\ \A x, y \in still : Precedes(order, x, y) => Precedes(list', x, y)
  <2>1. ToSet(order) \cap still = still
    BY <1>6
  <2> HIDE DEF still
  <2> QED
    BY <1>0, <1>6, <2>1, FilterFacts
<1>10. Lifecycles'
  <2>1. state' \in [Ids -> States]
    BY <1>5 DEF IInv, Lifecycles, States
  <2>2. \A i \in Ids \ LoadedIds : state'[i] = "unknown"
    BY <1>1, <1>5 DEF IInv, Lifecycles
  <2>3. \A i \in LoadedIds : i \in Unstarted => state'[i] = "failed"
    BY <1>1, <1>3, <1>4, <1>5
  <2> QED
    BY <1>1, <1>2, <1>5, <2>1, <2>2, <2>3 DEF Lifecycles, Phases
<1>11. Registry'
  <2>1. Len(list') \in Nat /\ DOMAIN list' = 1 .. Len(list')
    BY <1>9
  <2>2. \A k \in 1 .. Len(list') : list'[k] \in still
    BY <1>9, <2>1 DEF ToSet
  <2>3. next' = 1 /\ hookFailed' = {} /\ subscribed' = {}
    BY <1>0, <1>8
  <2>4. ASSUME NEW k \in 1 .. Len(list')
        PROVE  state'[list'[k]] = "registered" /\ k >= next'
    BY <1>1, <1>5, <2>1, <2>2, <2>3
  <2>5. ASSUME NEW i \in ToSet(list'), DependsOn(i) \cap OnCycle = {},
               NEW p \in Edges[i] \cap ToSet(list')
        PROVE  Precedes(list', p, i)
    BY <1>6, <1>9, <2>5
  <2>6. next' \in 1 .. Len(list') + 1
    BY <2>1, <2>3
  <2>7. ToSet(list') = LoadedIds' \ Unstarted'
    BY <1>1, <1>2, <1>4, <1>9
  <2> HIDE DEF still
  <2> QED
    BY <1>1, <1>5, <1>9, <2>3, <2>4, <2>5, <2>6, <2>7 DEF Registry
<1>12. Ordering'
  BY <1>0, <1>5, OrderingUnchanged DEF IInv
<1> QED
  BY <1>0, <1>5, <1>10, <1>11, <1>12, OnceUnchanged, DiagnosticsUnchanged DEF IInv

-----------------------------------------------------------------------------
(* Hooks *)

(* The module whose hooks run is registered, and no other stands at its      *)
(* place.                                                                    *)
LEMMA RunningShape ==
  ASSUME IInv, Running
  PROVE  /\ phase = "initialize" /\ next \in 1 .. Len(list) /\ Len(list) \in Nat
         /\ list[next] \in LoadedIds \ Unstarted
         /\ LoadedIds \subseteq Ids
         /\ state[list[next]] = "registered"
         /\ list[next] \notin Before(next)
         /\ Before(next + 1) = Before(next) \union {list[next]}
         /\ \A k \in 1 .. Len(list) : list[k] = list[next] => k = next
         /\ list[next] \notin hookFailed
<1>1. /\ phase = "initialize" /\ next <= Len(list) /\ list \in Seq(LoadedIds)
      /\ IsInjective(list) /\ next \in 1 .. Len(list) + 1
      /\ hookFailed \subseteq Before(next)
      /\ ToSet(list) = LoadedIds \ Unstarted
      /\ \A k \in 1 .. Len(list) : k >= next => state[list[k]] = "registered"
  BY DEF Running, IInv, Registry
<1>2. /\ next \in 1 .. Len(list) /\ Len(list) \in Nat /\ DOMAIN list = 1 .. Len(list)
      /\ next >= next
  BY <1>1
<1>3. list[next] \in LoadedIds \ Unstarted
  BY <1>1, <1>2 DEF ToSet
<1>4. \A k \in 1 .. Len(list) : list[k] = list[next] => k = next
  BY <1>1, <1>2 DEF IsInjective
<1>5. list[next] \notin Before(next)
  <2>1. \A k \in 1 .. next - 1 : k \in 1 .. Len(list) /\ k # next
    BY <1>2
  <2> QED
    BY <1>4, <2>1 DEF Before
<1>6. Before(next + 1) = Before(next) \union {list[next]}
  <2>1. next + 1 - 1 = next /\ \A k : k \in 1 .. next <=> k \in 1 .. next - 1 \/ k = next
    BY <1>2
  <2> QED
    BY <2>1 DEF Before
<1>7. LoadedIds \subseteq Ids
  BY LoadedShape DEF IInv
<1> QED
  BY <1>1, <1>2, <1>3, <1>4, <1>5, <1>6, <1>7

(* Whether its hooks succeed or fail, the loop goes on to the next module.   *)
LEMMA AdvanceKeeps ==
  ASSUME IInv, Running, NEW to \in {"initialized", "failed"},
         Transition({list[next]}, to, "initialize"),
         next' = next + 1,
         hookFailed' = hookFailed \union (IF to = "failed" THEN {list[next]} ELSE {}),
         UNCHANGED <<unread, valid, issues, remaining, queue, order, list,
                     subscribed, ready>>
  PROVE  IInv'
<1> DEFINE m == list[next]
<1>0. /\ phase = "initialize" /\ next \in 1 .. Len(list) /\ Len(list) \in Nat
      /\ m \in LoadedIds \ Unstarted /\ LoadedIds \subseteq Ids
      /\ state[m] = "registered" /\ m \notin Before(next) /\ m \notin hookFailed
      /\ Before(next + 1) = Before(next) \union {m}
      /\ \A k \in 1 .. Len(list) : list[k] = m => k = next
  BY RunningShape
<1>1. /\ LoadedIds' = LoadedIds /\ Unresolved' = Unresolved /\ OnCycle' = OnCycle
      /\ Edges' = Edges /\ \A i : DependsOn(i)' = DependsOn(i)
  BY GraphUnchanged
<1>2. Unstarted' = Unstarted
  BY <1>1 DEF Unstarted
<1>3. phase' = "initialize" /\ state' = [i \in Ids |-> IF i = m THEN to ELSE state[i]]
  BY <1>0 DEF Transition, Transitions
<1>4. Lifecycles'
  <2>1. state' \in [Ids -> States]
    BY <1>3 DEF IInv, Lifecycles, States
  <2>2. \A i \in Ids \ LoadedIds : state'[i] = "unknown"
    BY <1>0, <1>1, <1>3 DEF IInv, Lifecycles
  <2>3. \A i \in LoadedIds : i \in Unstarted => state'[i] = "failed"
    BY <1>0, <1>1, <1>3 DEF IInv, Lifecycles
  <2> HIDE DEF m
  <2> QED
    BY <1>1, <1>2, <1>3, <2>1, <2>2, <2>3 DEF Lifecycles, Phases
<1>5. /\ list \in Seq(LoadedIds) /\ IsInjective(list)
      /\ hookFailed \subseteq Before(next) /\ subscribed \subseteq ToSet(list)
      /\ ToSet(list) = LoadedIds \ Unstarted
      /\ \A k \in 1 .. Len(list) :
           state[list[k]] = IF k >= next THEN "registered"
                            ELSE IF list[k] \in hookFailed THEN "failed"
                            ELSE "initialized"
      /\ \A i \in ToSet(list) : DependsOn(i) \cap OnCycle = {} =>
           \A p \in Edges[i] \cap ToSet(list) : Precedes(list, p, i)
  BY <1>0 DEF IInv, Registry
<1>6. hookFailed' \subseteq Before(next')
  BY <1>0, <1>5
<1>7. ASSUME NEW k \in 1 .. Len(list)
      PROVE  state'[list[k]] = IF k >= next' THEN "registered"
                               ELSE IF list[k] \in hookFailed' THEN "failed"
                               ELSE "initialized"
  <2>0. list[k] \in Ids /\ next \in Nat /\ k \in Nat
    BY <1>0, <1>5 DEF ToSet
  <2>1. CASE k = next
    <3>1. list[k] = m /\ ~(k >= next + 1)
      BY <2>0, <2>1
    <3>2. state'[list[k]] = to
      BY <1>3, <2>0, <3>1
    <3>3. to = "failed" <=> list[k] \in hookFailed'
      BY <1>0, <3>1
    <3> QED
      BY <3>1, <3>2, <3>3
  <2>2. CASE k # next
    <3>1. list[k] # m /\ (k >= next + 1 <=> k >= next)
      BY <1>0, <2>0, <2>2
    <3>2. state'[list[k]] = state[list[k]]
      BY <1>3, <2>0, <3>1
    <3>3. list[k] \in hookFailed' <=> list[k] \in hookFailed
      BY <3>1
    <3> QED
      BY <1>5, <3>1, <3>2, <3>3
  <2> QED
    BY <2>1, <2>2
<1>8. Registry'
  <2>1. next' \in 1 .. Len(list) + 1
    BY <1>0
  <2>2. ToSet(list') = LoadedIds' \ Unstarted'
    BY <1>1, <1>2, <1>5
  <2> HIDE DEF m
  <2> QED
    BY <1>1, <1>3, <1>5, <1>6, <1>7, <2>1, <2>2 DEF Registry, Before, Precedes
<1>9. Ordering'
  BY <1>0, <1>3, OrderingUnchanged DEF IInv
<1> QED
  BY <1>3, <1>4, <1>8, <1>9, OnceUnchanged, DiagnosticsUnchanged DEF IInv

LEMMA SubscribeKeeps == IInv /\ Subscribe => IInv'
<1> SUFFICES ASSUME IInv, Subscribe PROVE IInv'
  OBVIOUS
<1>0. /\ Running /\ subscribed' = subscribed \union {list[next]}
      /\ UNCHANGED <<phase, unread, valid, issues, state, remaining, queue, order,
                     list, next, hookFailed, ready>>
  BY DEF Subscribe, sorting
<1>1. /\ LoadedIds' = LoadedIds /\ Unresolved' = Unresolved /\ OnCycle' = OnCycle
      /\ Edges' = Edges /\ \A i : DependsOn(i)' = DependsOn(i)
  BY <1>0, GraphUnchanged
<1>2. Unstarted' = Unstarted
  BY <1>1 DEF Unstarted
<1>3. phase = "initialize" /\ list[next] \in ToSet(list)
  BY <1>0, RunningShape DEF IInv, Registry
<1>4. Registry'
  BY <1>0, <1>1, <1>2, <1>3 DEF IInv, Registry, Before, Precedes
<1>5. Lifecycles'
  BY <1>0, <1>1, <1>2 DEF IInv, Lifecycles
<1> QED
  BY <1>0, <1>3, <1>4, <1>5, OnceUnchanged, OrderingUnchanged, DiagnosticsUnchanged
  DEF IInv

LEMMA SnapshotKeeps == IInv /\ Snapshot => IInv'
<1> SUFFICES ASSUME IInv, Snapshot PROVE IInv'
  OBVIOUS
<1>0. /\ phase = "initialize" /\ next > Len(list) /\ phase' = "done"
      /\ ready' = /\ \A i \in LoadedIds : state[i] \in {"initialized", "disabled"}
                  /\ issues \subseteq LoadedIds \union {NoId}
      /\ UNCHANGED <<unread, valid, issues, state, remaining, queue, order, list,
                     next, subscribed, hookFailed>>
  BY DEF Snapshot, sorting
<1>1. /\ LoadedIds' = LoadedIds /\ Unresolved' = Unresolved /\ OnCycle' = OnCycle
      /\ Edges' = Edges /\ \A i : DependsOn(i)' = DependsOn(i)
  BY <1>0, GraphUnchanged
<1>2. Unstarted' = Unstarted
  BY <1>1 DEF Unstarted
<1>3. next = Len(list) + 1
  BY <1>0 DEF IInv, Registry
<1>4. Registry'
  BY <1>0, <1>1, <1>2, <1>3 DEF IInv, Registry, Before, Precedes
<1>5. Lifecycles'
  BY <1>0, <1>1, <1>2 DEF IInv, Lifecycles, Phases
<1>6. ASSUME NEW i \in LoadedIds PROVE state[i] # "disabled"
  <2>1. CASE i \in Unstarted
    BY <1>0, <2>1 DEF IInv, Lifecycles
  <2>2. CASE i \notin Unstarted
    <3>1. i \in ToSet(list)
      BY <1>0, <2>2 DEF IInv, Registry
    <3>2. PICK k \in 1 .. Len(list) : list[k] = i
      BY <3>1 DEF ToSet, IInv, Registry
    <3> QED
      BY <1>0, <3>2 DEF IInv, Registry
  <2> QED
    BY <2>1, <2>2
<1>7. Diagnostics'
  <2>1. ready' <=> /\ \A i \in LoadedIds : state[i] = "initialized"
                   /\ issues \subseteq LoadedIds \union {NoId}
    BY <1>0, <1>6
  <2>2. ready' \in BOOLEAN
    BY <1>0
  <2> QED
    BY <1>0, <1>1, <2>1, <2>2 DEF IInv, Diagnostics
<1> QED
  BY <1>0, <1>4, <1>5, <1>7, OnceUnchanged, OrderingUnchanged DEF IInv

LEMMA InvNext == IInv /\ [Next]_vars => IInv'
<1> SUFFICES ASSUME IInv, [Next]_vars PROVE IInv'
  OBVIOUS
<1>1. CASE Load
  BY <1>1, LoadKeeps
<1>2. CASE Validate
  BY <1>2, ValidateKeeps
<1>3. CASE StartSort
  BY <1>3, StartSortKeeps
<1>4. CASE SortNext
  BY <1>4, SortNextKeeps
<1>5. CASE FinishSort
  BY <1>5, FinishSortKeeps
<1>6. CASE FailUnresolved
  BY <1>6, FailUnresolvedKeeps
<1>7. CASE FailCycles
  BY <1>7, FailCyclesKeeps
<1>8. CASE Register
  BY <1>8, RegisterKeeps
<1>9. CASE HooksSucceed
  <2>1. /\ Running /\ Transition({list[next]}, "initialized", "initialize")
        /\ next' = next + 1
        /\ hookFailed' = hookFailed \union {}
        /\ UNCHANGED <<unread, valid, issues, remaining, queue, order, list,
                       subscribed, ready>>
    BY <1>9 DEF HooksSucceed, sorting
  <2> QED
    BY <2>1, AdvanceKeeps
<1>10. CASE HookFails
  <2>1. /\ Running /\ Transition({list[next]}, "failed", "initialize")
        /\ next' = next + 1
        /\ hookFailed' = hookFailed \union {list[next]}
        /\ UNCHANGED <<unread, valid, issues, remaining, queue, order, list,
                       subscribed, ready>>
    BY <1>10 DEF HookFails, sorting
  <2> QED
    BY <2>1, AdvanceKeeps
<1>11. CASE Snapshot
  BY <1>11, SnapshotKeeps
<1>12. CASE Subscribe
  BY <1>12, SubscribeKeeps
<1>13. CASE UNCHANGED vars
  <2>1. UNCHANGED <<phase, unread, valid, issues, state, remaining, queue, order,
                    list, next, subscribed, hookFailed, ready>>
    BY <1>13 DEF vars
  <2>2. Unstarted' = Unstarted
    BY <2>1, GraphUnchanged DEF Unstarted
  <2>3. Lifecycles' /\ Registry' /\ Diagnostics'
    BY <2>1, <2>2, GraphUnchanged
    DEF IInv, Lifecycles, Registry, Diagnostics, Before, Precedes
  <2> QED
    BY <2>1, <2>3, OnceUnchanged, OrderingUnchanged DEF IInv
<1> QED
  BY <1>1, <1>2, <1>3, <1>4, <1>5, <1>6, <1>7, <1>8, <1>9, <1>10, <1>11, <1>12,
     <1>13 DEF Next, Proceed

LEMMA Invariant == Spec => []IInv
  BY InvInit, InvNext, PTL DEF Spec

-----------------------------------------------------------------------------
(* Theorems *)

LEMMA InvTyped == IInv => TypeOK
<1> SUFFICES ASSUME IInv PROVE TypeOK
  OBVIOUS
<1>1. phase \in Phases /\ state \in [Ids -> States]
  BY DEF IInv, Lifecycles
<1>2. LoadedIds \subseteq Ids /\ Len(valid) = Cardinality(LoadedIds)
  BY LoadedShape DEF IInv
<1>3. issues \subseteq Ids \union {NoId} /\ ready \in BOOLEAN
  BY DEF IInv, Diagnostics
<1>4. ToSet(queue) \union ToSet(order) \union ToSet(list) \subseteq LoadedIds
  BY DEF IInv, Ordering, Registry, ToSet
<1>5. next \in 1 .. Len(list) + 1 /\ subscribed \subseteq ToSet(list)
  BY DEF IInv, Registry
<1>6. hookFailed \subseteq ToSet(list)
  <2>1. DOMAIN list = 1 .. Len(list) /\ Len(list) \in Nat /\ hookFailed \subseteq Before(next)
    BY DEF IInv, Registry
  <2>2. 1 .. next - 1 \subseteq DOMAIN list
    BY <1>5, <2>1
  <2> QED
    BY <2>1, <2>2 DEF Before, ToSet
<1> QED
  BY <1>1, <1>2, <1>3, <1>4, <1>5, <1>6 DEF TypeOK

(* bootstrap's state stays well-formed: only loaded modules are queued,      *)
(* ordered and registered, and only registered ones subscribe or fail in a   *)
(* hook.                                                                     *)
THEOREM BootstrapTyped == Spec => []TypeOK
  BY Invariant, InvTyped, PTL

(* Whatever the candidates and the hooks, no transition asked of the         *)
(* lifecycle engine is refused: bootstrap does not throw.                    *)
THEOREM BootstrapReturns == Spec => []NeverThrows
<1>1. IInv => NeverThrows
  BY DEF IInv, Lifecycles, NeverThrows
<1> QED
  BY <1>1, Invariant, PTL

LEMMA RegistryInOrder ==
  ASSUME IInv, phase = "done", NEW i \in 1 .. Len(list),
         DependsOn(list[i]) \cap OnCycle = {}
  PROVE  Edges[list[i]] \cap ToSet(list) \subseteq Before(i)
<1> SUFFICES ASSUME NEW p \in Edges[list[i]] \cap ToSet(list) PROVE p \in Before(i)
  OBVIOUS
<1>1. list \in Seq(LoadedIds) /\ IsInjective(list) /\ DOMAIN list = 1 .. Len(list)
  BY DEF IInv, Registry
<1>2. list[i] \in ToSet(list)
  BY <1>1 DEF ToSet
<1>3. Precedes(list, p, list[i])
  BY <1>2 DEF IInv, Registry
<1>4. PICK k \in DOMAIN list, l \in DOMAIN list : k < l /\ list[k] = p /\ list[l] = list[i]
  BY <1>3 DEF Precedes
<1>5. l = i
  BY <1>1, <1>4 DEF IsInjective
<1>6. k \in 1 .. i - 1
  BY <1>1, <1>4, <1>5
<1> QED
  BY <1>4, <1>6 DEF Before

(* For any capability graph, the hooks of a module that does not depend on a *)
(* cycle run after those of every registered module it depends on.           *)
THEOREM ProvidersInOrder == Spec => []ProvidersFirstOffCycles
<1>1. IInv => ProvidersFirstOffCycles
  BY RegistryInOrder DEF ProvidersFirstOffCycles
<1> QED
  BY <1>1, Invariant, PTL

LEMMA InvIsolated == IInv => FailuresIsolated
<1> SUFFICES ASSUME IInv, phase = "done"
             PROVE  /\ \A i \in LoadedIds :
                         state[i] = IF i \in Unstarted \union hookFailed
                                    THEN "failed" ELSE "initialized"
                    /\ subscribed \cap Unstarted = {}
  BY DEF FailuresIsolated, Unstarted
<1>1. /\ list \in Seq(LoadedIds) /\ next = Len(list) + 1
      /\ subscribed \subseteq ToSet(list) /\ ToSet(list) = LoadedIds \ Unstarted
      /\ \A k \in 1 .. Len(list) :
           state[list[k]] = IF k >= next THEN "registered"
                            ELSE IF list[k] \in hookFailed THEN "failed"
                            ELSE "initialized"
  BY DEF IInv, Registry
<1>2. ASSUME NEW i \in LoadedIds
      PROVE  state[i] = IF i \in Unstarted \union hookFailed
                        THEN "failed" ELSE "initialized"
  <2>1. CASE i \in Unstarted
    BY <2>1 DEF IInv, Lifecycles
  <2>2. CASE i \notin Unstarted
    <3>1. PICK k \in 1 .. Len(list) : list[k] = i
      BY <1>1, <2>2 DEF ToSet
    <3>2. ~(k >= next)
      BY <1>1
    <3> QED
      BY <1>1, <2>2, <3>1, <3>2
  <2> QED
    BY <2>1, <2>2
<1> QED
  BY <1>1, <1>2

(* For any capability graph and any hooks, a module fails for a reason of    *)
(* its own or for a cycle that it is on, and no other module with it.        *)
THEOREM FailuresStay == Spec => []FailuresIsolated
  BY Invariant, InvIsolated, PTL

-----------------------------------------------------------------------------
(* Termination: what can be said of it without fairness *)

(* How far bootstrap() is, and what is left to do at that stage.             *)
Stage ==
  CASE phase = "load" -> 0 [] phase = "index" -> 1 [] phase = "sort" -> 2
    [] phase = "fail_unresolved" -> 3 [] phase = "fail_cycles" -> 4
    [] phase = "register" -> 5 [] phase = "initialize" -> 6 [] OTHER -> 7

Left ==
  CASE phase = "load" -> Len(unread)
    [] phase = "sort" -> Cardinality(LoadedIds) - Len(order)
    [] phase = "initialize" -> Len(list) + 1 - next
    [] OTHER -> 0

Advances == Stage' > Stage \/ (Stage' = Stage /\ Left' < Left)

LEMMA LeftIsNatural == IInv => Stage \in 0 .. 7 /\ Left \in Nat
<1> SUFFICES ASSUME IInv PROVE Left \in Nat
  BY DEF Stage
<1>1. Len(unread) \in Nat
  BY DEF IInv, LoadedOnce
<1>2. Len(list) + 1 - next \in Nat
  <2>1. Len(list) \in Nat /\ next \in 1 .. Len(list) + 1
    BY DEF IInv, Registry
  <2> QED
    BY <2>1
<1>3. Cardinality(LoadedIds) - Len(order) \in Nat
  <2>1. /\ order \in Seq(LoadedIds) /\ IsInjective(order)
        /\ Len(order) \in Nat /\ DOMAIN order = 1 .. Len(order)
    BY DEF IInv, Ordering
  <2>2. IsFiniteSet(LoadedIds)
    BY LoadedShape DEF IInv
  <2>3. order \in Injection(1 .. Len(order), LoadedIds)
    BY <2>1 DEF Injection
  <2>4. /\ Cardinality(1 .. Len(order)) = Len(order)
        /\ Cardinality(1 .. Len(order)) <= Cardinality(LoadedIds)
    <3>1. Cardinality(1 .. Len(order)) = Len(order)
      BY <2>1, FS_Interval
    <3>2. Cardinality(1 .. Len(order)) <= Cardinality(LoadedIds)
      BY <2>2, <2>3, FS_Injection
    <3> QED
      BY <3>1, <3>2
  <2>5. Cardinality(LoadedIds) \in Nat
    BY <2>2, FS_CardinalityType
  <2> QED
    BY <2>1, <2>4, <2>5
<1> QED
  BY <1>1, <1>2, <1>3 DEF Left

LEMMA ProceedAdvances ==
  ASSUME IInv, IInv', Proceed
  PROVE  Advances
<1>1. CASE Load
  <2>1. phase = "load" /\ unread # <<>> /\ unread' = Tail(unread) /\ unread \in Seq(Candidates)
    BY <1>1 DEF Load, IInv, LoadedOnce
  <2>2. phase' = "load"
    BY <1>1, LoadKeepsOnce
  <2>3. Len(unread') < Len(unread)
    BY <2>1
  <2> QED
    BY <2>1, <2>2, <2>3 DEF Advances, Stage, Left
<1>2. CASE SortNext
  <2>1. /\ phase = "sort" /\ phase' = "sort" /\ UNCHANGED valid
        /\ order' = Append(order, Head(queue)) /\ order \in Seq(LoadedIds)
        /\ LoadedIds' = LoadedIds
    BY <1>2, GraphUnchanged DEF SortNext, IInv, Ordering
  <2>2. Cardinality(LoadedIds) \in Nat
    BY LoadedShape, FS_CardinalityType DEF IInv
  <2>3. Len(order') = Len(order) + 1 /\ Len(order) \in Nat
    BY <2>1
  <2> QED
    BY <2>1, <2>2, <2>3 DEF Advances, Stage, Left
<1>3. CASE HooksSucceed \/ HookFails
  <2>1. phase = "initialize" /\ next' = next + 1 /\ UNCHANGED list
    BY <1>3 DEF HooksSucceed, HookFails, Running
  <2>2. phase' = "initialize"
    BY <1>3 DEF HooksSucceed, HookFails, Transition, IInv, Lifecycles
  <2>3. Len(list) \in Nat /\ next \in Nat
    BY DEF IInv, Registry
  <2> QED
    BY <2>1, <2>2, <2>3 DEF Advances, Stage, Left
<1>4. CASE Validate \/ FailUnresolved \/ FailCycles \/ Register
  <2>1. phase' # "thrown"
    BY DEF IInv, Lifecycles
  <2> QED
    BY <1>4, <2>1 DEF Validate, FailUnresolved, FailCycles, Register, Transition,
       Advances, Stage
<1>5. CASE StartSort \/ FinishSort
  BY <1>5 DEF StartSort, FinishSort, Advances, Stage
<1>6. CASE Snapshot
  BY <1>6 DEF Snapshot, Advances, Stage
<1> QED
  BY <1>1, <1>2, <1>3, <1>4, <1>5, <1>6 DEF Proceed

(* For any input, bootstrap() can take only so many steps: each brings it to *)
(* a later stage, or leaves less to do at that stage.                        *)
THEOREM BootstrapEnds ==
  Spec => [](Stage \in 0 .. 7 /\ Left \in Nat) /\ [][Proceed => Advances]_vars
<1>1. IInv /\ IInv' /\ [Next]_vars => [Proceed => Advances]_vars
  BY ProceedAdvances
<1> QED
  BY <1>1, Invariant, LeftIsNatural, PTL DEF Spec
=============================================================================
