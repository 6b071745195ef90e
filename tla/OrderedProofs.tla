---------------------------- MODULE OrderedProofs ----------------------------
(***************************************************************************)
(* What a list comprehension with a condition keeps.                       *)
(***************************************************************************)
EXTENDS Ordered, Functions, FiniteSetTheorems, SequenceTheorems, TLAPS

(***************************************************************************)
(* The numbers of a finite set in increasing order: each of them once.  The *)
(* number of smaller ones tells any two apart, so it takes each value once. *)
(***************************************************************************)
LEMMA AscendingIs ==
    ASSUME NEW S \in SUBSET Nat, IsFiniteSet(S)
    PROVE  /\ Cardinality(S) \in Nat
           /\ Ascending(S) \in [1 .. Cardinality(S) -> S]
           /\ \A i, j \in 1 .. Cardinality(S) : i < j => Ascending(S)[i] < Ascending(S)[j]
           /\ \A x \in S : \E k \in 1 .. Cardinality(S) : Ascending(S)[k] = x
<1> DEFINE n == Cardinality(S)
           below(i) == {j \in S : j < i}
           rank(i) == Cardinality(below(i))
           R == 0 .. n - 1
           f == [i \in S |-> rank(i)]
<1>1. n \in Nat
  BY FS_CardinalityType
<1>2. ASSUME NEW i \in S
      PROVE  rank(i) \in R
  <2>1. IsFiniteSet(S \ {i}) /\ Cardinality(S \ {i}) = n - 1
    BY FS_RemoveElement
  <2>2. below(i) \in SUBSET (S \ {i})
    BY <1>2
  <2>3. IsFiniteSet(below(i)) /\ rank(i) <= n - 1
    BY <2>1, <2>2, FS_Subset
  <2>4. rank(i) \in Nat
    BY <2>3, FS_CardinalityType
  <2> HIDE DEF rank
  <2> QED
    BY <1>1, <2>3, <2>4
<1>3. ASSUME NEW i \in S, NEW j \in S, i < j
      PROVE  rank(i) < rank(j)
  <2>1. below(j) \in SUBSET S
    OBVIOUS
  <2>2. IsFiniteSet(below(j))
    BY <2>1, FS_Subset
  <2>3. below(i) \in SUBSET below(j) /\ i \in below(j) /\ i \notin below(i)
    <3>1. i \in Nat /\ j \in Nat /\ \A k \in S : k \in Nat
      OBVIOUS
    <3>2. \A k \in S : k < i => k < j
      BY <1>3, <3>1
    <3>3. ~(i < i)
      BY <3>1
    <3> QED
      BY <1>3, <3>2, <3>3
  <2>4. rank(i) <= rank(j) /\ (rank(j) = rank(i) => below(j) = below(i))
    BY <2>2, <2>3, FS_Subset
  <2>5. rank(i) # rank(j)
    BY <2>3, <2>4
  <2>6. rank(i) \in R /\ rank(j) \in R
    BY <1>2
  <2> HIDE DEF rank, below
  <2> QED
    BY <1>1, <2>4, <2>5, <2>6
<1> HIDE DEF rank
<1>4. f \in [S -> R] /\ \A i, j \in S : f[i] = f[j] => i = j
  <2>1. f \in [S -> R]
    BY <1>2
  <2>2. ASSUME NEW i \in S, NEW j \in S, rank(i) = rank(j)
        PROVE  i = j
    <3>1. rank(i) \in Nat /\ rank(j) \in Nat
      BY <1>1, <1>2
    <3> QED
      BY <1>3, <2>2, <3>1
  <2> QED
    BY <2>1, <2>2
<1>5. IsFiniteSet(R) /\ Cardinality(R) = n
  <2>1. n - 1 \in Int /\ 0 \in Int
    BY <1>1
  <2>2. IsFiniteSet(0 .. n - 1) /\ Cardinality(0 .. n - 1) = IF 0 > n - 1 THEN 0 ELSE (n - 1) - 0 + 1
    BY <2>1, FS_Interval
  <2> QED
    BY <1>1, <2>2
<1>6. f \in Injection(S, R)
  BY <1>4 DEF Injection, IsInjective
<1>7. f \in Surjection(S, R)
  <2> HIDE DEF f, R
  <2> QED
    BY <1>5, <1>6, FS_Injection
<1>8. \A k \in 1 .. n : \E i \in S : rank(i) = k - 1
  <2>1. \A r \in R : \E i \in S : f[i] = r
    BY <1>7 DEF Surjection
  <2>2. \A k \in 1 .. n : k - 1 \in R
    BY <1>1
  <2> QED
    BY <2>1, <2>2
<1>9. \A k \in 1 .. n : Ascending(S)[k] \in S /\ rank(Ascending(S)[k]) = k - 1
  BY <1>8 DEF Ascending, rank
<1>10. Ascending(S) \in [1 .. n -> S]
  BY <1>9 DEF Ascending
<1>11. ASSUME NEW i \in 1 .. n, NEW j \in 1 .. n, i < j
       PROVE  Ascending(S)[i] < Ascending(S)[j]
  <2> DEFINE a == Ascending(S)[i]
             b == Ascending(S)[j]
  <2>1. a \in Nat /\ b \in Nat /\ a \in S /\ b \in S /\ rank(a) = i - 1 /\ rank(b) = j - 1
    BY <1>9
  <2> HIDE DEF a, b
  <2>2. a # b
    BY <1>11, <2>1
  <2>3. ~(b < a)
    <3> SUFFICES ASSUME b < a
                 PROVE  FALSE
      OBVIOUS
    <3>1. rank(b) < rank(a)
      BY <1>3, <2>1
    <3> QED
      BY <1>1, <1>11, <2>1, <3>1
  <2> QED
    BY <2>1, <2>2, <2>3 DEF a, b
<1>12. ASSUME NEW x \in S
       PROVE  \E k \in 1 .. n : Ascending(S)[k] = x
  <2>1. rank(x) \in R /\ rank(x) + 1 \in 1 .. n
    BY <1>1, <1>2
  <2>2. PICK k \in 1 .. n : k = rank(x) + 1
    BY <2>1
  <2>3. Ascending(S)[k] \in S /\ rank(Ascending(S)[k]) = rank(x)
    BY <1>9, <2>1, <2>2
  <2> QED
    BY <1>4, <2>3
<1> QED
  BY <1>1, <1>10, <1>11, <1>12


(***************************************************************************)
(* What a comprehension keeps: members of the list, at places that grow.   *)
(***************************************************************************)
LEMMA AtPlacesIs ==
    ASSUME NEW T, NEW s \in Seq(T), NEW places \in SUBSET DOMAIN s
    PROVE  /\ AtPlaces(s, places) \in Seq(T)
           /\ AtPlaces(s, places) = <<>> <=> places = {}
           /\ \A k \in DOMAIN AtPlaces(s, places) :
                 \E p \in places : AtPlaces(s, places)[k] = s[p]
           /\ \A j, k \in DOMAIN AtPlaces(s, places) :
                 j < k => \E p, q \in places : /\ p < q
                                               /\ AtPlaces(s, places)[j] = s[p]
                                               /\ AtPlaces(s, places)[k] = s[q]
<1> DEFINE n == Cardinality(places)
           order == Ascending(places)
           kept == AtPlaces(s, places)
<1>1. DOMAIN s = 1 .. Len(s) /\ Len(s) \in Nat
  OBVIOUS
<1>2. IsFiniteSet(places) /\ places \in SUBSET Nat
  <2>1. 1 \in Int /\ Len(s) \in Int
    BY <1>1
  <2>2. IsFiniteSet(1 .. Len(s))
    BY <2>1, FS_Interval
  <2>3. places \in SUBSET (1 .. Len(s)) /\ 1 .. Len(s) \in SUBSET Nat
    BY <1>1
  <2>4. IsFiniteSet(places)
    BY <2>2, <2>3, FS_Subset
  <2> QED
    BY <2>3, <2>4
<1>3. /\ n \in Nat /\ order \in [1 .. n -> places]
      /\ \A i, j \in 1 .. n : i < j => order[i] < order[j]
  BY <1>2, AscendingIs
<1>4. n = 0 <=> places = {}
  BY <1>2, FS_EmptySet
<1>5. kept = [k \in 1 .. n |-> s[order[k]]]
  BY <1>3 DEF AtPlaces
<1> HIDE DEF n, order
<1>6. kept \in [1 .. n -> T]
  BY <1>3, <1>5
<1>7. kept \in Seq(T) /\ Len(kept) = n /\ DOMAIN kept = 1 .. n
  BY <1>3, <1>6
<1>8. kept = <<>> <=> n = 0
  BY <1>3, <1>7, EmptySeq
<1>9. \A k \in 1 .. n : kept[k] = s[order[k]] /\ order[k] \in places
  BY <1>3, <1>5
<1> HIDE DEF kept
<1> QED
  BY <1>3, <1>4, <1>7, <1>8, <1>9 DEF kept

\* The places of a whole list.
LEMMA AscendingInterval ==
    ASSUME NEW n \in Nat
    PROVE  Ascending(1 .. n) = [k \in 1 .. n |-> k]
<1>1. 1 \in Int /\ n \in Int
  OBVIOUS
<1>2. Cardinality(1 .. n) = n
  <2>1. Cardinality(1 .. n) = IF 1 > n THEN 0 ELSE n - 1 + 1
    BY <1>1, FS_Interval
  <2> QED
    BY <2>1
<1>3. ASSUME NEW i \in 1 .. n
      PROVE  Cardinality({j \in 1 .. n : j < i}) = i - 1
  <2>1. {j \in 1 .. n : j < i} = 1 .. i - 1
    OBVIOUS
  <2>2. i - 1 \in Int /\ i - 1 \in Nat
    OBVIOUS
  <2>3. Cardinality(1 .. i - 1) = IF 1 > i - 1 THEN 0 ELSE (i - 1) - 1 + 1
    BY <1>1, <2>2, FS_Interval
  <2>4. (IF 1 > i - 1 THEN 0 ELSE (i - 1) - 1 + 1) = i - 1
    BY <2>2
  <2> QED
    BY <2>1, <2>3, <2>4
<1>4. ASSUME NEW k \in 1 .. n
      PROVE  (CHOOSE i \in 1 .. n : Cardinality({j \in 1 .. n : j < i}) = k - 1) = k
  <2>1. \A i \in 1 .. n : Cardinality({j \in 1 .. n : j < i}) = k - 1 <=> i = k
    <3>1. \A i \in 1 .. n : i - 1 = k - 1 <=> i = k
      OBVIOUS
    <3> QED
      BY <1>3, <3>1
  <2> QED
    BY <2>1
<1> QED
  BY <1>2, <1>4 DEF Ascending

(***************************************************************************)
(* To list a set of numbers in increasing order there is one way only.     *)
(***************************************************************************)
Enumerates(f, n, S) ==
    /\ f \in [1 .. n -> S]
    /\ \A i, j \in 1 .. n : i < j => f[i] < f[j]
    /\ \A x \in S : \E k \in 1 .. n : f[k] = x

Rank(i, S) == Cardinality({j \in S : j < i})

LEMMA RankOf ==
    ASSUME NEW S \in SUBSET Nat, NEW n \in Nat, NEW f, Enumerates(f, n, S), NEW k \in 1 .. n
    PROVE  Rank(f[k], S) = k - 1
<1> DEFINE below == {j \in S : j < f[k]}
           low == 1 .. k - 1
           g == [i \in low |-> f[i]]
<1>1. /\ k - 1 \in Nat /\ low \subseteq 1 .. n
      /\ \A i \in 1 .. n : i \in low <=> i < k
      /\ \A i \in 1 .. n : f[i] \in S /\ f[i] \in Nat
  <2>1. \A i \in 1 .. n : f[i] \in S /\ f[i] \in Nat
    BY DEF Enumerates
  <2> QED
    BY <2>1
<1>2. \A i, j \in 1 .. n : i < j => f[i] < f[j]
  BY DEF Enumerates
<1>3. \A i \in low : f[i] \in below
  BY <1>1, <1>2
<1>4. \A i, j \in low : f[i] = f[j] => i = j
  <2> SUFFICES ASSUME NEW i \in low, NEW j \in low, f[i] = f[j] PROVE i = j
    OBVIOUS
  <2>1. i \in 1 .. n /\ j \in 1 .. n /\ f[i] \in Nat /\ f[j] \in Nat
    BY <1>1
  <2>2. ~(f[i] < f[j]) /\ ~(f[j] < f[i])
    BY <2>1
  <2>3. ~(i < j) /\ ~(j < i)
    BY <1>2, <2>1, <2>2
  <2> QED
    BY <2>1, <2>3
<1>5. \A x \in below : \E i \in low : f[i] = x
  <2> SUFFICES ASSUME NEW x \in below PROVE \E i \in low : f[i] = x
    OBVIOUS
  <2>1. PICK i \in 1 .. n : f[i] = x
    BY DEF Enumerates
  <2>2. f[i] < f[k] /\ f[i] \in Nat /\ f[k] \in Nat
    BY <1>1, <2>1
  <2>3. i < k
    <3>1. i # k /\ ~(k < i)
      BY <1>2, <2>2
    <3> QED
      BY <3>1
  <2> QED
    BY <1>1, <2>1, <2>3
<1>6. g \in Bijection(low, below)
  <2>1. g \in [low -> below]
    BY <1>3
  <2>2. g \in Injection(low, below)
    BY <1>4, <2>1 DEF Injection, IsInjective
  <2>3. g \in Surjection(low, below)
    BY <1>5, <2>1 DEF Surjection
  <2> QED
    BY <2>2, <2>3 DEF Bijection
<1>7. IsFiniteSet(low) /\ Cardinality(low) = k - 1
  <2>1. 1 \in Int /\ k - 1 \in Int
    BY <1>1
  <2>2. IsFiniteSet(low) /\ Cardinality(low) = IF 1 > k - 1 THEN 0 ELSE (k - 1) - 1 + 1
    BY <2>1, FS_Interval
  <2> HIDE DEF low
  <2> QED
    BY <1>1, <2>2
<1> HIDE DEF low, below, g
<1>8. Cardinality(below) = Cardinality(low)
  BY <1>6, <1>7, FS_Bijection DEF ExistsBijection
<1> QED
  BY <1>7, <1>8 DEF below, Rank

LEMMA AscendingOnly ==
    ASSUME NEW S \in SUBSET Nat, NEW n \in Nat, NEW f, Enumerates(f, n, S)
    PROVE  IsFiniteSet(S) /\ Cardinality(S) = n /\ f = Ascending(S)
<1> DEFINE order == Ascending(S)
<1>1. /\ f \in [1 .. n -> S] /\ \A k \in 1 .. n : f[k] \in Nat
      /\ \A i, j \in 1 .. n : i < j => f[i] < f[j]
      /\ \A x \in S : \E k \in 1 .. n : f[k] = x
  BY DEF Enumerates
<1>2. f \in Bijection(1 .. n, S)
  <2>1. \A i, j \in 1 .. n : f[i] = f[j] => i = j
    <3> SUFFICES ASSUME NEW i \in 1 .. n, NEW j \in 1 .. n, f[i] = f[j] PROVE i = j
      OBVIOUS
    <3>1. ~(f[i] < f[j]) /\ ~(f[j] < f[i])
      BY <1>1
    <3> QED
      BY <1>1, <3>1
  <2>2. f \in Injection(1 .. n, S)
    BY <1>1, <2>1 DEF Injection, IsInjective
  <2>3. f \in Surjection(1 .. n, S)
    BY <1>1 DEF Surjection
  <2> QED
    BY <2>2, <2>3 DEF Bijection
<1>3. IsFiniteSet(1 .. n) /\ Cardinality(1 .. n) = n
  <2>1. 1 \in Int /\ n \in Int
    OBVIOUS
  <2>2. IsFiniteSet(1 .. n) /\ Cardinality(1 .. n) = IF 1 > n THEN 0 ELSE n - 1 + 1
    BY <2>1, FS_Interval
  <2> QED
    BY <2>2
<1>4. IsFiniteSet(S) /\ Cardinality(S) = n
  BY <1>2, <1>3, FS_Bijection DEF ExistsBijection
<1>5. Enumerates(order, n, S)
  BY <1>4, AscendingIs DEF Enumerates
<1>6. order \in [1 .. n -> S]
  BY <1>5 DEF Enumerates
<1> HIDE DEF order
<1>7. ASSUME NEW k \in 1 .. n
      PROVE  f[k] = order[k]
  <2>1. f[k] \in S
    BY <1>1
  <2>2. PICK l \in 1 .. n : order[l] = f[k]
    BY <1>5, <2>1 DEF Enumerates
  <2>3. Rank(f[k], S) = k - 1
    BY RankOf
  <2>4. Rank(order[l], S) = l - 1
    BY <1>5, RankOf
  <2>5. k - 1 = l - 1
    BY <2>2, <2>3, <2>4
  <2>6. k = l
    BY <2>5
  <2> QED
    BY <2>2, <2>6
<1>8. f = order
  BY <1>1, <1>6, <1>7
<1> QED
  BY <1>4, <1>8 DEF order

-----------------------------------------------------------------------------
(***************************************************************************)
(* Parts of a list: some of its members, in their order.                   *)
(***************************************************************************)
IsPart(x, s) == \E places \in SUBSET DOMAIN s : x = AtPlaces(s, places)

LEMMA PlacesAre ==
    ASSUME NEW T, NEW s \in Seq(T), NEW places \in SUBSET DOMAIN s
    PROVE  /\ places \in SUBSET Nat /\ Cardinality(places) \in Nat
           /\ Enumerates(Ascending(places), Cardinality(places), places)
           /\ AtPlaces(s, places) = [k \in 1 .. Cardinality(places) |-> s[Ascending(places)[k]]]
           /\ AtPlaces(s, places) \in Seq(T) /\ Len(AtPlaces(s, places)) = Cardinality(places)
<1> DEFINE n == Cardinality(places)
           order == Ascending(places)
<1>1. DOMAIN s = 1 .. Len(s) /\ Len(s) \in Nat /\ \A p \in DOMAIN s : s[p] \in T
  BY ElementOfSeq
<1>2. IsFiniteSet(places) /\ places \in SUBSET Nat
  <2>1. 1 \in Int /\ Len(s) \in Int
    BY <1>1
  <2>2. IsFiniteSet(1 .. Len(s))
    BY <2>1, FS_Interval
  <2>3. places \in SUBSET (1 .. Len(s)) /\ 1 .. Len(s) \in SUBSET Nat
    BY <1>1
  <2>4. IsFiniteSet(places)
    BY <2>2, <2>3, FS_Subset
  <2> QED
    BY <2>3, <2>4
<1>3. n \in Nat /\ Enumerates(order, n, places)
  BY <1>2, AscendingIs DEF Enumerates
<1>4. order \in [1 .. n -> places]
  BY <1>3 DEF Enumerates
<1>5. AtPlaces(s, places) = [k \in 1 .. n |-> s[order[k]]]
  BY <1>4 DEF AtPlaces
<1> HIDE DEF n, order
<1>6. \A k \in 1 .. n : s[order[k]] \in T
  BY <1>1, <1>4
<1>7. AtPlaces(s, places) \in Seq(T) /\ Len(AtPlaces(s, places)) = n
  BY <1>3, <1>5, <1>6
<1> QED
  BY <1>2, <1>3, <1>5, <1>7 DEF n, order

\* A list that goes through these places in their order is the part at them.
LEMMA PartAt ==
    ASSUME NEW T, NEW s \in Seq(T), NEW places \in SUBSET DOMAIN s, NEW n \in Nat,
           NEW f, Enumerates(f, n, places)
    PROVE  AtPlaces(s, places) = [k \in 1 .. n |-> s[f[k]]]
<1>1. places \in SUBSET Nat
  BY PlacesAre
<1>2. Cardinality(places) = n /\ f = Ascending(places)
  BY <1>1, AscendingOnly
<1> QED
  BY <1>2, PlacesAre

LEMMA PartIs ==
    ASSUME NEW T, NEW s \in Seq(T), NEW x, IsPart(x, s)
    PROVE  x \in Seq(T) /\ Range(x) \subseteq Range(s) /\ (IsInjective(s) => IsInjective(x))
<1>1. PICK places \in SUBSET DOMAIN s : x = AtPlaces(s, places)
  BY DEF IsPart
<1> DEFINE n == Cardinality(places)
           f == Ascending(places)
<1>2. x = [k \in 1 .. n |-> s[f[k]]] /\ Enumerates(f, n, places) /\ n \in Nat /\ x \in Seq(T)
      /\ places \in SUBSET Nat
  BY <1>1, PlacesAre
<1> HIDE DEF n, f
<1>3. /\ DOMAIN x = 1 .. n
      /\ \A k \in 1 .. n : x[k] = s[f[k]] /\ f[k] \in DOMAIN s /\ f[k] \in Nat
      /\ \A i, j \in 1 .. n : i < j => f[i] < f[j]
  BY <1>2 DEF Enumerates
<1>4. Range(x) \subseteq Range(s)
  BY <1>3 DEF Range
<1>5. ASSUME IsInjective(s), NEW i \in 1 .. n, NEW j \in 1 .. n, x[i] = x[j]
      PROVE  i = j
  <2>1. f[i] = f[j]
    BY <1>3, <1>5 DEF IsInjective
  <2>2. ~(i < j) /\ ~(j < i)
    BY <1>3, <2>1
  <2> QED
    BY <1>2, <2>2
<1>6. IsInjective(s) => IsInjective(x)
  BY <1>3, <1>5 DEF IsInjective
<1> QED
  BY <1>2, <1>4, <1>6

LEMMA OnlyIs ==
    ASSUME NEW T, NEW s \in Seq(T), NEW S
    PROVE  /\ IsPart(Only(s, S), s)
           /\ Only(s, S) \in Seq(T)
           /\ Range(Only(s, S)) = Range(s) \cap S
           /\ IsInjective(s) => IsInjective(Only(s, S))
<1> DEFINE places == {k \in DOMAIN s : s[k] \in S}
           n == Cardinality(places)
           f == Ascending(places)
           x == Only(s, S)
<1>1. x = AtPlaces(s, places) /\ places \in SUBSET DOMAIN s
  BY DEF Only
<1>2. IsPart(x, s)
  BY <1>1 DEF IsPart
<1>4. \A p \in places : p \in DOMAIN s /\ s[p] \in S
  OBVIOUS
<1>5. \A p \in DOMAIN s : s[p] \in S => p \in places
  OBVIOUS
<1> HIDE DEF places, x
<1>3. x = [k \in 1 .. n |-> s[f[k]]] /\ Enumerates(f, n, places) /\ n \in Nat
  BY <1>1, PlacesAre
<1> HIDE DEF n, f
<1>6. /\ DOMAIN x = 1 .. n /\ \A k \in 1 .. n : x[k] = s[f[k]] /\ f[k] \in places
      /\ \A p \in places : \E k \in 1 .. n : f[k] = p
  BY <1>3 DEF Enumerates
<1>7. Range(x) = Range(s) \cap S
  <2>1. ASSUME NEW e \in Range(x) PROVE e \in Range(s) \cap S
    BY <1>4, <1>6, <2>1 DEF Range
  <2>2. ASSUME NEW e \in Range(s), e \in S PROVE e \in Range(x)
    <3>1. PICK p \in DOMAIN s : s[p] = e
      BY <2>2 DEF Range
    <3>2. PICK k \in 1 .. n : f[k] = p
      BY <1>5, <1>6, <2>2, <3>1
    <3> QED
      BY <1>6, <3>1, <3>2 DEF Range
  <2> QED
    BY <2>1, <2>2
<1> QED
  BY <1>2, <1>7, PartIs DEF x

LEMMA PartOfPart ==
    ASSUME NEW T, NEW s \in Seq(T), NEW x, IsPart(x, s), NEW y, IsPart(y, x)
    PROVE  IsPart(y, s)
<1>1. PICK outer \in SUBSET DOMAIN s : x = AtPlaces(s, outer)
  BY DEF IsPart
<1>2. PICK inner \in SUBSET DOMAIN x : y = AtPlaces(x, inner)
  BY DEF IsPart
<1> DEFINE m == Cardinality(outer)
           f == Ascending(outer)
           n == Cardinality(inner)
           g == Ascending(inner)
           both == {f[k] : k \in inner}
           h == [k \in 1 .. n |-> f[g[k]]]
<1>3. /\ x = [k \in 1 .. m |-> s[f[k]]] /\ x \in Seq(T) /\ m \in Nat
      /\ Enumerates(f, m, outer) /\ outer \in SUBSET Nat
  BY <1>1, PlacesAre
<1> HIDE DEF m, f
<1>0. x \in Seq(T)
  BY <1>3
<1>4. y = [k \in 1 .. n |-> x[g[k]]] /\ n \in Nat /\ Enumerates(g, n, inner)
  BY <1>0, <1>2, PlacesAre
<1> HIDE DEF n, g
<1>5. /\ f \in [1 .. m -> outer] /\ g \in [1 .. n -> inner] /\ DOMAIN x = 1 .. m
      /\ inner \subseteq 1 .. m
      /\ \A i, j \in 1 .. m : i < j => f[i] < f[j]
      /\ \A i, j \in 1 .. n : i < j => g[i] < g[j]
      /\ \A p \in inner : \E k \in 1 .. n : g[k] = p
  BY <1>2, <1>3, <1>4 DEF Enumerates
<1>6. both \in SUBSET DOMAIN s
  BY <1>5
<1>7. Enumerates(h, n, both)
  <2>1. \A k \in 1 .. n : g[k] \in inner /\ g[k] \in 1 .. m
    BY <1>5
  <2>2. h \in [1 .. n -> both]
    BY <2>1
  <2>3. \A i, j \in 1 .. n : i < j => h[i] < h[j]
    BY <1>5, <2>1
  <2>4. \A p \in both : \E k \in 1 .. n : h[k] = p
    BY <1>5
  <2> QED
    BY <2>2, <2>3, <2>4 DEF Enumerates
<1>8. y = [k \in 1 .. n |-> s[h[k]]]
  <2>1. \A k \in 1 .. n : g[k] \in 1 .. m
    BY <1>5
  <2>2. \A k \in 1 .. n : x[g[k]] = s[f[g[k]]]
    BY <1>3, <2>1
  <2> QED
    BY <1>4, <2>2
<1> HIDE DEF both, h
<1>9. AtPlaces(s, both) = [k \in 1 .. n |-> s[h[k]]]
  BY <1>4, <1>6, <1>7, PartAt
<1> QED
  BY <1>6, <1>8, <1>9 DEF IsPart

LEMMA BeginningIsPart ==
    ASSUME NEW T, NEW s \in Seq(T), NEW m \in 0 .. Len(s)
    PROVE  IsPart(SubSeq(s, 1, m), s)
<1> DEFINE f == [k \in 1 .. m |-> k]
<1>1. m \in Nat /\ 1 .. m \in SUBSET DOMAIN s /\ m <= Len(s) /\ Len(s) \in Nat
  BY LenProperties
<1>2. Enumerates(f, m, 1 .. m)
  BY <1>1 DEF Enumerates
<1>3. AtPlaces(s, 1 .. m) = [k \in 1 .. m |-> s[f[k]]]
  <2> HIDE DEF f
  <2> QED
    BY <1>1, <1>2, PartAt
<1>4. SubSeq(s, 1, m) = [k \in 1 .. m |-> s[k]]
  BY <1>1
<1>5. SubSeq(s, 1, m) = AtPlaces(s, 1 .. m)
  BY <1>3, <1>4
<1> QED
  BY <1>1, <1>5 DEF IsPart

\* A part of a list without doubles is what its members pick out.
LEMMA PartIsOnly ==
    ASSUME NEW T, NEW s \in Seq(T), IsInjective(s), NEW x, IsPart(x, s)
    PROVE  Only(s, Range(x)) = x
<1>1. PICK places \in SUBSET DOMAIN s : x = AtPlaces(s, places)
  BY DEF IsPart
<1> DEFINE n == Cardinality(places)
           f == Ascending(places)
<1>2. x = [k \in 1 .. n |-> s[f[k]]] /\ Enumerates(f, n, places)
  BY <1>1, PlacesAre
<1> HIDE DEF n, f
<1>3. /\ DOMAIN x = 1 .. n /\ \A k \in 1 .. n : x[k] = s[f[k]] /\ f[k] \in places
      /\ \A p \in places : \E k \in 1 .. n : f[k] = p
  BY <1>2 DEF Enumerates
<1>4. ASSUME NEW p \in DOMAIN s
      PROVE  s[p] \in Range(x) <=> p \in places
  <2>1. ASSUME p \in places PROVE s[p] \in Range(x)
    BY <1>3, <2>1 DEF Range
  <2>2. ASSUME s[p] \in Range(x) PROVE p \in places
    <3>1. PICK k \in 1 .. n : s[p] = x[k]
      BY <1>3, <2>2 DEF Range
    <3>2. s[p] = s[f[k]] /\ f[k] \in DOMAIN s /\ f[k] \in places
      BY <1>3, <3>1
    <3> QED
      BY <3>2 DEF IsInjective
  <2> QED
    BY <2>1, <2>2
<1>5. {p \in DOMAIN s : s[p] \in Range(x)} = places
  BY <1>4
<1> QED
  BY <1>1, <1>5 DEF Only
=============================================================================
