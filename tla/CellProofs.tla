----------------------------- MODULE CellProofs -----------------------------
(***************************************************************************)
(* Proofs about one cell and the engines that read many: for any columns,  *)
(* any values a request may send and any number of them.                   *)
(*                                                                         *)
(* A request is made of scalars (Pieces), so a column of numbers holds     *)
(* numbers, a column of dates begins with an instant that prints, and      *)
(* opposite conditions compare the same two integers.  Storing what is     *)
(* stored changes nothing (Normal): a multiple of a place rounds to        *)
(* itself, a normal date is normal, and a list without repetitions keeps   *)
(* all its places (PickedAll).                                             *)
(*                                                                         *)
(* A list arranged by any strict order has the members it had, the ones    *)
(* ahead first (Ranks, ArrangedOf).  A sum is what its last number adds to *)
(* the sum before it (SumOf), so a mean lies between the bounds of the     *)
(* numbers (SumBetween, Quotients); half the numbers at most are below the *)
(* middle of them (MedianOf).                                              *)
(*                                                                         *)
(* Rows are sorted by comparisons that do not go in circles (Coherent):    *)
(* each type of column has one (TypedCompared), with the empties last it   *)
(* still is one (KeyIsCoherent), and so are the keys in turn               *)
(* (TurnsAreCoherent).  A row put behind those not ahead of it leaves the  *)
(* rows in order (PutInPlace), one row after the other (RowsInPlace).      *)
(*                                                                         *)
(* Rows are loaded a level at a time, each once and a parent before its    *)
(* children (LoadedOf), and sorting them is sorting their places           *)
(* (RowsSorted), so a query answers from one list that has every row the   *)
(* view keeps (QueryOf).  A page is a stretch of that list (PageOf): over  *)
(* a table that stands the pages are the list (StillWalk), and a client    *)
(* meets every row of a list that thins behind its first page              *)
(* (ThinnedWalk).  The groups have the keys of the rows, in order          *)
(* (GroupsOfRows).                                                         *)
(***************************************************************************)
EXTENDS CellLaws, FiniteSetTheorems, SequenceTheorems, TLAPS

-----------------------------------------------------------------------------
(* Lists in order. *)

\* A strict total order of the members of S, as the set of its pairs.
Orders(S, ahead) ==
  /\ \A i \in S : <<i, i>> \notin ahead
  /\ \A i, j \in S : i = j \/ <<i, j>> \in ahead \/ <<j, i>> \in ahead
  /\ \A i, j, k \in S : <<i, j>> \in ahead /\ <<j, k>> \in ahead => <<i, k>> \in ahead

\* The n-th member of a set, in any order.
LEMMA Ranks ==
  ASSUME NEW S, IsFiniteSet(S), NEW ahead, Orders(S, ahead)
  PROVE  /\ Cardinality(S) \in Nat
         /\ \A n \in 1 .. Cardinality(S) : Nth(S, ahead, n) \in S /\ RankIn(S, ahead, Nth(S, ahead, n)) = n
         /\ \A i \in S : \E n \in 1 .. Cardinality(S) : Nth(S, ahead, n) = i
         /\ \A m, n \in 1 .. Cardinality(S) : m < n => <<Nth(S, ahead, m), Nth(S, ahead, n)>> \in ahead
<1> DEFINE C == Cardinality(S)
           upTo(i) == {k \in S : k = i \/ <<k, i>> \in ahead}
           rank == [i \in S |-> RankIn(S, ahead, i)]
<1>1. C \in Nat
  BY FS_CardinalityType
<1>2. ASSUME NEW i \in S
      PROVE  /\ IsFiniteSet(upTo(i)) /\ RankIn(S, ahead, i) \in 1 .. C
             /\ RankIn(S, ahead, i) = Cardinality(upTo(i))
  <2>1. upTo(i) \in SUBSET S /\ i \in upTo(i)
    OBVIOUS
  <2>2. IsFiniteSet(upTo(i)) /\ Cardinality(upTo(i)) <= C
    <3> HIDE DEF upTo
    <3> QED
      BY <2>1, FS_Subset
  <2>3. Cardinality(upTo(i)) \in Nat /\ Cardinality(upTo(i)) # 0
    <3> HIDE DEF upTo
    <3> QED
      BY <2>1, <2>2, FS_EmptySet, FS_CardinalityType
  <2>4. RankIn(S, ahead, i) = Cardinality(upTo(i))
    BY DEF RankIn
  <2> QED
    BY <1>1, <2>2, <2>3, <2>4
<1>3. ASSUME NEW i \in S, NEW j \in S, <<i, j>> \in ahead PROVE RankIn(S, ahead, i) < RankIn(S, ahead, j)
  <2>1. j \in upTo(j) /\ j \notin upTo(i)
    BY <1>3 DEF Orders
  <2>2. upTo(i) \in SUBSET upTo(j)
    BY <1>3 DEF Orders
  <2>3. /\ IsFiniteSet(upTo(j)) /\ IsFiniteSet(upTo(i))
        /\ RankIn(S, ahead, i) = Cardinality(upTo(i)) /\ RankIn(S, ahead, j) = Cardinality(upTo(j))
    BY <1>2
  <2> HIDE DEF upTo
  <2>4. Cardinality(upTo(i)) <= Cardinality(upTo(j)) /\ Cardinality(upTo(i)) # Cardinality(upTo(j))
    BY <2>1, <2>2, <2>3, FS_Subset
  <2>5. Cardinality(upTo(i)) \in Nat /\ Cardinality(upTo(j)) \in Nat
    BY <2>3, FS_CardinalityType
  <2> QED
    BY <2>3, <2>4, <2>5
<1>4. \A i, j \in S : RankIn(S, ahead, i) = RankIn(S, ahead, j) => i = j
  <2>1. ASSUME NEW i \in S, NEW j \in S, RankIn(S, ahead, i) = RankIn(S, ahead, j), i # j PROVE FALSE
    <3>1. RankIn(S, ahead, i) \in Nat /\ RankIn(S, ahead, j) \in Nat
      <4> HIDE DEF upTo, C
      <4> QED
        BY <1>1, <1>2
    <3>2. <<i, j>> \in ahead \/ <<j, i>> \in ahead
      BY <2>1 DEF Orders
    <3> QED
      BY <1>3, <2>1, <3>1, <3>2
  <2> QED
    BY <2>1
<1>5. rank \in Injection(S, 1 .. C)
  <2>1. \A i \in S : rank[i] = RankIn(S, ahead, i)
    OBVIOUS
  <2>2. rank \in [S -> 1 .. C]
    BY <1>2
  <2> HIDE DEF rank
  <2> QED
    BY <1>4, <2>1, <2>2 DEF Injection, IsInjective
<1>6. IsFiniteSet(1 .. C) /\ Cardinality(1 .. C) = C
  BY <1>1, FS_Interval
<1>7. rank \in Surjection(S, 1 .. C)
  <2> HIDE DEF rank
  <2> QED BY <1>5, <1>6, FS_Injection
<1>8. \A n \in 1 .. C : \E i \in S : RankIn(S, ahead, i) = n
  BY <1>7 DEF Surjection
<1>9. \A n \in 1 .. C : Nth(S, ahead, n) \in S /\ RankIn(S, ahead, Nth(S, ahead, n)) = n
  BY <1>8 DEF Nth
<1>10. ASSUME NEW i \in S PROVE \E n \in 1 .. C : Nth(S, ahead, n) = i
  BY <1>2, <1>4, <1>9
<1>11. ASSUME NEW m \in 1 .. C, NEW n \in 1 .. C, m < n PROVE <<Nth(S, ahead, m), Nth(S, ahead, n)>> \in ahead
  <2> DEFINE i == Nth(S, ahead, m)
             j == Nth(S, ahead, n)
  <2>1. i \in S /\ j \in S /\ RankIn(S, ahead, i) = m /\ RankIn(S, ahead, j) = n
    BY <1>9
  <2>2. m \in Nat /\ n \in Nat
    BY <1>1
  <2> HIDE DEF i, j
  <2>3. ~(<<j, i>> \in ahead)
    BY <1>3, <1>11, <2>1, <2>2
  <2>4. i # j
    BY <1>11, <2>1, <2>2
  <2>5. <<i, j>> \in ahead
    BY <2>1, <2>3, <2>4 DEF Orders
  <2> QED
    BY <2>5 DEF i, j
<1> QED
  BY <1>1, <1>9, <1>10, <1>11

\* A sequence arranged by any order is made of the same members.
LEMMA ArrangedOf ==
  ASSUME NEW T, NEW s \in Seq(T), NEW places \in SUBSET (DOMAIN s), NEW ahead, Orders(places, ahead)
  PROVE  /\ Arranged(s, places, ahead) \in Seq(T)
         /\ Len(Arranged(s, places, ahead)) = Cardinality(places) /\ Cardinality(places) \in Nat
         /\ IsFiniteSet(places)
         /\ \A n \in 1 .. Cardinality(places) :
              Nth(places, ahead, n) \in places /\ Arranged(s, places, ahead)[n] = s[Nth(places, ahead, n)]
         /\ \A m, n \in 1 .. Cardinality(places) :
              /\ m < n => <<Nth(places, ahead, m), Nth(places, ahead, n)>> \in ahead
              /\ Nth(places, ahead, n) = Nth(places, ahead, m) => n = m
         /\ \A i \in places : \E n \in 1 .. Cardinality(places) : Nth(places, ahead, n) = i
         /\ places # {} => Cardinality(places) # 0
<1>1. DOMAIN s = 1 .. Len(s) /\ Len(s) \in Nat
  OBVIOUS
<1>2. IsFiniteSet(1 .. Len(s))
  BY <1>1, FS_Interval
<1>3. IsFiniteSet(places)
  BY <1>1, <1>2, FS_Subset
<1>4. /\ Cardinality(places) \in Nat
      /\ \A n \in 1 .. Cardinality(places) :
           Nth(places, ahead, n) \in places /\ RankIn(places, ahead, Nth(places, ahead, n)) = n
      /\ \A i \in places : \E n \in 1 .. Cardinality(places) : Nth(places, ahead, n) = i
      /\ \A m, n \in 1 .. Cardinality(places) : m < n => <<Nth(places, ahead, m), Nth(places, ahead, n)>> \in ahead
  BY <1>3, Ranks
<1>5. \A n \in 1 .. Cardinality(places) : s[Nth(places, ahead, n)] \in T
  BY <1>4
<1>6. Arranged(s, places, ahead) \in Seq(T) /\ Len(Arranged(s, places, ahead)) = Cardinality(places)
  BY <1>4, <1>5 DEF Arranged
<1>7. places # {} => Cardinality(places) # 0
  BY <1>3, FS_EmptySet
<1>8. \A n \in 1 .. Cardinality(places) :
        Nth(places, ahead, n) \in places /\ Arranged(s, places, ahead)[n] = s[Nth(places, ahead, n)]
  BY <1>4 DEF Arranged
<1>9. \A m, n \in 1 .. Cardinality(places) : Nth(places, ahead, n) = Nth(places, ahead, m) => n = m
  BY <1>4
<1> QED
  BY <1>3, <1>4, <1>6, <1>7, <1>8, <1>9

\* Places in a sequence come in their own order, and its members there as they came.
Onwards(places) == {p \in places \X places : p[1] < p[2]}
Place(places, n) == Nth(places, Onwards(places), n)

LEMMA PlacesOrder ==
  ASSUME NEW S, \A k \in S : k \in Int
  PROVE  Orders(S, Onwards(S))
<1>1. \A i, j \in S : <<i, j>> \in Onwards(S) <=> i < j
  BY DEF Onwards
<1> QED
  BY <1>1 DEF Orders

LEMMA PickedOf ==
  ASSUME NEW T, NEW s \in Seq(T), NEW places \in SUBSET (DOMAIN s)
  PROVE  /\ Picked(s, places) \in Seq(T)
         /\ Len(Picked(s, places)) = Cardinality(places) /\ Cardinality(places) \in Nat
         /\ IsFiniteSet(places)
         /\ \A n \in 1 .. Cardinality(places) :
              /\ Place(places, n) \in places /\ Picked(s, places)[n] = s[Place(places, n)]
              /\ \A m \in 1 .. Cardinality(places) :
                   /\ Place(places, n) = Place(places, m) => n = m
                   /\ m < n => Place(places, m) < Place(places, n)
         /\ \A i \in places : \E n \in 1 .. Cardinality(places) : Place(places, n) = i
         /\ places # {} => Cardinality(places) # 0
<1>1. Picked(s, places) = Arranged(s, places, Onwards(places))
  BY DEF Picked, Onwards
<1>2. \A k \in places : k \in Int
  OBVIOUS
<1>3. Orders(places, Onwards(places))
  BY <1>2, PlacesOrder
<1>4. \A i, j : <<i, j>> \in Onwards(places) => i < j
  BY DEF Onwards
<1> DEFINE ahead == Onwards(places)
           a == Arranged(s, places, ahead)
           C == Cardinality(places)
<1> HIDE DEF ahead
<1>5. /\ a \in Seq(T) /\ Len(a) = C /\ C \in Nat /\ IsFiniteSet(places)
      /\ \A n \in 1 .. C : Nth(places, ahead, n) \in places /\ a[n] = s[Nth(places, ahead, n)]
      /\ \A m, n \in 1 .. C :
           /\ m < n => <<Nth(places, ahead, m), Nth(places, ahead, n)>> \in ahead
           /\ Nth(places, ahead, n) = Nth(places, ahead, m) => n = m
      /\ \A i \in places : \E n \in 1 .. C : Nth(places, ahead, n) = i
      /\ places # {} => C # 0
  <2>1. Orders(places, ahead)
    BY <1>3 DEF ahead
  <2> QED
    BY <2>1, ArrangedOf
<1>6. \A n : Nth(places, ahead, n) = Place(places, n)
  BY DEF Place, ahead
<1> HIDE DEF a, C
<1>7. \A m, n \in 1 .. C : m < n => Place(places, m) < Place(places, n)
  <2> SUFFICES ASSUME NEW m \in 1 .. C, NEW n \in 1 .. C, m < n PROVE Place(places, m) < Place(places, n)
    OBVIOUS
  <2>1. <<Place(places, m), Place(places, n)>> \in ahead
    BY <1>5, <1>6
  <2> QED
    BY <1>4, <2>1 DEF ahead
<1> QED
  BY <1>1, <1>5, <1>6, <1>7 DEF a, C, ahead

LEMMA PickedAll ==
  ASSUME NEW T, NEW s \in Seq(T)
  PROVE  Picked(s, DOMAIN s) = s
<1> DEFINE L == Len(s)
           D == 1 .. L
<1>1. DOMAIN s = D /\ L \in Nat /\ \A k \in D : k \in Int
  OBVIOUS
<1>2. IsFiniteSet(D) /\ Cardinality(D) = L
  BY <1>1, FS_Interval
<1>3. Orders(D, Onwards(D))
  BY <1>1, PlacesOrder
<1>4. ASSUME NEW n \in D PROVE Place(D, n) = n
  <2>1. Place(D, n) \in D /\ RankIn(D, Onwards(D), Place(D, n)) = n
    BY <1>2, <1>3, Ranks DEF Place
  <2>2. ASSUME NEW i \in D PROVE RankIn(D, Onwards(D), i) = i
    <3>1. {k \in D : k = i \/ <<k, i>> \in Onwards(D)} = 1 .. i
      <4>1. \A k \in D : <<k, i>> \in Onwards(D) <=> k < i
        BY DEF Onwards
      <4> QED
        BY <1>1, <4>1
    <3>2. Cardinality(1 .. i) = i
      BY <1>1, FS_Interval
    <3> QED
      BY <3>1, <3>2 DEF RankIn
  <2> QED
    BY <2>1, <2>2
<1> QED
  <2>1. Picked(s, DOMAIN s) = [n \in D |-> s[n]]
    BY <1>1, <1>2, <1>4 DEF Picked, Arranged, Place, Onwards
  <2> QED
    BY <1>1, <2>1

\* A list without its repetitions.
LEMMA DedupeOf ==
  ASSUME NEW T, NEW s \in Seq(T)
  PROVE  /\ Dedupe(s) \in Seq(T) /\ IsInjective(Dedupe(s))
         /\ s # <<>> => Dedupe(s) # <<>>
         /\ IsInjective(s) => Dedupe(s) = s
<1> DEFINE first == {i \in DOMAIN s : \A j \in 1 .. i - 1 : s[j] # s[i]}
           d == Picked(s, first)
<1>1. Dedupe(s) = d
  BY DEF Dedupe
<1>2. DOMAIN s = 1 .. Len(s) /\ Len(s) \in Nat
  OBVIOUS
<1>3. first \in SUBSET (DOMAIN s)
  OBVIOUS
<1>4. \A i, k \in first : s[i] = s[k] => i = k
  BY <1>2
<1>5. s # <<>> => 1 \in first
  BY <1>2
<1>6. IsInjective(s) => first = DOMAIN s
  BY <1>2 DEF IsInjective
<1> HIDE DEF first
<1>7. /\ d \in Seq(T) /\ Len(d) = Cardinality(first) /\ Cardinality(first) \in Nat
      /\ \A n \in 1 .. Cardinality(first) :
           /\ Place(first, n) \in first /\ d[n] = s[Place(first, n)]
           /\ \A m \in 1 .. Cardinality(first) : Place(first, n) = Place(first, m) => n = m
      /\ first # {} => Cardinality(first) # 0
  BY <1>3, PickedOf
<1>8. IsInjective(s) => d = s
  BY <1>6, PickedAll
<1> HIDE DEF d
<1>9. IsInjective(d)
  <2>1. DOMAIN d = 1 .. Cardinality(first)
    BY <1>7
  <2> QED
    BY <1>4, <1>7, <2>1 DEF IsInjective
<1>10. s # <<>> => d # <<>>
  BY <1>5, <1>7
<1> QED
  BY <1>1, <1>7, <1>8, <1>9, <1>10

\* A finite set of integers has a least and a greatest member.
LEMMA Extremes ==
  ASSUME NEW S \in SUBSET Int, IsFiniteSet(S), S # {}
  PROVE  /\ Min(S) \in S /\ \A x \in S : Min(S) <= x
         /\ Max(S) \in S /\ \A x \in S : x <= Max(S)
<1> DEFINE ahead == {p \in S \X S : p[1] < p[2]}
           C == Cardinality(S)
<1>1. \A k \in S : k \in Int
  OBVIOUS
<1>2. \A i, j \in S : <<i, j>> \in ahead <=> i < j
  OBVIOUS
<1> HIDE DEF ahead
<1>3. Orders(S, ahead)
  BY <1>1, <1>2 DEF Orders
<1>4. /\ C \in Nat
      /\ \A n \in 1 .. C : Nth(S, ahead, n) \in S
      /\ \A i \in S : \E n \in 1 .. C : Nth(S, ahead, n) = i
      /\ \A m, n \in 1 .. C : m < n => <<Nth(S, ahead, m), Nth(S, ahead, n)>> \in ahead
  BY <1>3, Ranks
<1>5. C # 0
  BY FS_EmptySet
<1> HIDE DEF C
<1>6. 1 \in 1 .. C /\ C \in 1 .. C /\ \A n \in 1 .. C : n \in Nat /\ (n = 1 \/ 1 < n) /\ (n = C \/ n < C)
  BY <1>4, <1>5
<1>7. ASSUME NEW x \in S PROVE Nth(S, ahead, 1) <= x /\ x <= Nth(S, ahead, C)
  <2>1. PICK n \in 1 .. C : Nth(S, ahead, n) = x
    BY <1>4
  <2>2. x = Nth(S, ahead, 1) \/ Nth(S, ahead, 1) < x
    BY <1>2, <1>4, <1>6, <2>1
  <2>3. x = Nth(S, ahead, C) \/ x < Nth(S, ahead, C)
    BY <1>2, <1>4, <1>6, <2>1
  <2>4. x \in Int /\ Nth(S, ahead, 1) \in Int /\ Nth(S, ahead, C) \in Int
    BY <1>1, <1>4, <1>6
  <2> QED
    BY <2>2, <2>3, <2>4
<1>8. Nth(S, ahead, 1) \in S /\ Nth(S, ahead, C) \in S
  BY <1>4, <1>6
<1>9. \E x \in S : \A y \in S : x <= y
  BY <1>7, <1>8
<1>10. \E x \in S : \A y \in S : x >= y
  BY <1>1, <1>7, <1>8
<1>11. Min(S) \in S /\ \A x \in S : Min(S) <= x
  BY <1>9 DEF Min
<1>12. Max(S) \in S /\ \A x \in S : Max(S) >= x
  BY <1>10 DEF Max
<1> QED
  BY <1>1, <1>11, <1>12

LEMMA LeastNumber ==
  ASSUME NEW L \in Nat, NEW S \in SUBSET (0 .. L), S # {}
  PROVE  \E n \in S : \A k \in S : n <= k
<1>1. IsFiniteSet(0 .. L)
  BY FS_Interval
<1>2. IsFiniteSet(S)
  BY <1>1, FS_Subset
<1>3. S \in SUBSET Int
  OBVIOUS
<1> QED
  BY <1>2, <1>3, Extremes

\* A function that starts from a and goes on by steps.
Follows(n, S, a, step, f) ==
  /\ f \in [0 .. n -> S] /\ f[0] = a
  /\ \A k \in 1 .. n : f[k] = step[<<f[k - 1], k>>]

\* Such a function there is.
LEMMA Recursion ==
  ASSUME NEW L \in Nat, NEW S, NEW a \in S, NEW step \in [S \X (1 .. L) -> S]
  PROVE  \E f : Follows(L, S, a, step, f)
<1> DEFINE bad == {n \in 0 .. L : ~\E f : Follows(n, S, a, step, f)}
<1>1. \E f : Follows(0, S, a, step, f)
  <2>1. Follows(0, S, a, step, [k \in 0 .. 0 |-> a])
    BY DEF Follows
  <2> QED
    BY <2>1
<1>2. ASSUME NEW n \in 0 .. L, n # 0, NEW g, Follows(n - 1, S, a, step, g)
      PROVE  \E f : Follows(n, S, a, step, f)
  <2> DEFINE f == [k \in 0 .. n |-> IF k = n THEN step[<<g[n - 1], n>>] ELSE g[k]]
  <2>1. n \in Nat /\ n \in 1 .. L /\ n - 1 \in Nat /\ n - 1 \in 0 .. n - 1 /\ 0 \in 0 .. n /\ n \in 0 .. n
    BY <1>2
  <2>2. \A k \in 0 .. n : k # n => k \in 0 .. n - 1
    BY <2>1
  <2>3. \A k \in 0 .. n - 1 : g[k] \in S
    BY <1>2 DEF Follows
  <2>4. step[<<g[n - 1], n>>] \in S
    BY <2>1, <2>3
  <2>5. f \in [0 .. n -> S]
    BY <2>2, <2>3, <2>4
  <2>6. f[0] = a
    BY <1>2, <2>1 DEF Follows
  <2>7. ASSUME NEW k \in 1 .. n PROVE f[k] = step[<<f[k - 1], k>>]
    <3>1. k \in 0 .. n /\ k - 1 \in 0 .. n /\ k - 1 # n
      BY <2>1
    <3>2. f[k - 1] = g[k - 1]
      BY <3>1
    <3>3. CASE k = n
      BY <3>1, <3>2, <3>3
    <3>4. CASE k # n
      <4>1. f[k] = g[k] /\ k \in 1 .. n - 1
        BY <2>1, <3>1, <3>4
      <4>2. g[k] = step[<<g[k - 1], k>>]
        BY <1>2, <4>1 DEF Follows
      <4> QED
        BY <3>2, <4>1, <4>2
    <3> QED
      BY <3>3, <3>4
  <2> HIDE DEF f
  <2> QED
    BY <2>5, <2>6, <2>7 DEF Follows
<1>3. \A n \in 0 .. L : \E f : Follows(n, S, a, step, f)
  <2> SUFFICES ASSUME bad # {} PROVE FALSE
    OBVIOUS
  <2>1. PICK n \in bad : \A k \in bad : n <= k
    BY LeastNumber
  <2>2. n \in 0 .. L /\ ~\E f : Follows(n, S, a, step, f)
    BY <2>1
  <2>3. n # 0
    BY <1>1, <2>2
  <2>4. n - 1 \in 0 .. L /\ ~(n <= n - 1)
    BY <2>2, <2>3
  <2>5. \E g : Follows(n - 1, S, a, step, g)
    BY <2>1, <2>4
  <2> HIDE DEF bad
  <2>6. PICK g : Follows(n - 1, S, a, step, g)
    BY <2>5
  <2> QED
    BY <1>2, <2>2, <2>3, <2>6
<1>4. L \in 0 .. L
  OBVIOUS
<1> QED
  BY <1>3, <1>4

\* The sums of the first numbers of a list, one more at a time.
LEMMA SumOf ==
  ASSUME NEW nums \in Seq(Int)
  PROVE  \E f \in [0 .. Len(nums) -> Int] :
           /\ f[0] = 0 /\ \A k \in 1 .. Len(nums) : f[k] = f[k - 1] + nums[k]
           /\ Sum(nums) = f[Len(nums)]
<1> DEFINE L == Len(nums)
           add == [p \in Int \X (1 .. L) |-> p[1] + nums[p[2]]]
           Step(f) == [k \in 0 .. L |-> IF k = 0 THEN 0 ELSE f[k - 1] + nums[k]]
           sums == CHOOSE f : f = Step(f)
<1>1. L \in Nat /\ \A k \in 1 .. L : nums[k] \in Int
  OBVIOUS
<1> HIDE DEF L
<1>2. add \in [Int \X (1 .. L) -> Int]
  BY <1>1
<1>3. \E f : Follows(L, Int, 0, add, f)
  <2>1. 0 \in Int /\ L \in Nat
    BY <1>1
  <2> HIDE DEF add
  <2> QED
    BY <1>2, <2>1, Recursion
<1>5. \E f : f = Step(f)
  <2>1. PICK f : Follows(L, Int, 0, add, f)
    BY <1>3
  <2>2. /\ f \in [0 .. L -> Int] /\ f[0] = 0
        /\ \A k \in 1 .. L : f[k] = add[<<f[k - 1], k>>]
    BY <2>1 DEF Follows
  <2>3. \A k \in 0 .. L : k # 0 => k \in 1 .. L /\ k - 1 \in 0 .. L
    BY <1>1
  <2>4. f = [k \in 0 .. L |-> f[k]]
    BY <2>2
  <2>5. \A k \in 0 .. L : f[k] = IF k = 0 THEN 0 ELSE f[k - 1] + nums[k]
    <3> TAKE k \in 0 .. L
    <3>1. CASE k = 0
      BY <2>2, <3>1
    <3>2. CASE k # 0
      BY <2>2, <2>3, <3>2
    <3> QED
      BY <3>1, <3>2
  <2>6. f = Step(f)
    BY <2>4, <2>5
  <2> QED
    BY <2>6
<1>6. sums = Step(sums)
  <2> HIDE DEF Step
  <2> QED
    BY <1>5
<1>7. Sum(nums) = sums[L]
  BY DEF Sum, L
<1> HIDE DEF sums
<1>8. \A k \in 0 .. L : sums[k] = IF k = 0 THEN 0 ELSE sums[k - 1] + nums[k]
  BY <1>6
<1>9. sums = [k \in 0 .. L |-> sums[k]]
  BY <1>6
<1>10. \A k \in 0 .. L : sums[k] \in Int
  <2> DEFINE wrong == {k \in 0 .. L : sums[k] \notin Int}
  <2> SUFFICES ASSUME wrong # {} PROVE FALSE
    OBVIOUS
  <2>1. PICK n \in wrong : \A k \in wrong : n <= k
    BY <1>1, LeastNumber
  <2>2. n # 0 /\ n \in 1 .. L /\ n - 1 \in 0 .. L /\ ~(n <= n - 1)
    BY <1>1, <1>8, <2>1
  <2>3. sums[n - 1] \in Int
    BY <2>1, <2>2
  <2>4. sums[n] \notin Int
    BY <2>1
  <2> HIDE DEF wrong
  <2>5. sums[n] = sums[n - 1] + nums[n] /\ nums[n] \in Int
    BY <1>1, <1>8, <2>2
  <2> QED
    BY <2>3, <2>4, <2>5
<1>11. sums \in [0 .. L -> Int]
  BY <1>9, <1>10
<1>12. sums[0] = 0 /\ \A k \in 1 .. L : sums[k] = sums[k - 1] + nums[k]
  <2>1. 0 \in 0 .. L /\ \A k \in 1 .. L : k \in 0 .. L /\ k # 0
    BY <1>1
  <2> QED
    BY <1>8, <2>1
<1> QED
  BY <1>7, <1>11, <1>12 DEF L

\* A sum of numbers between two bounds.
LEMMA SumBetween ==
  ASSUME NEW nums \in Seq(Int), NEW a \in Int, NEW b \in Int,
         \A k \in DOMAIN nums : a <= nums[k] /\ nums[k] <= b
  PROVE  Sum(nums) \in Int /\ Len(nums) * a <= Sum(nums) /\ Sum(nums) <= Len(nums) * b
<1> DEFINE L == Len(nums)
<1>1. /\ L \in Nat
      /\ \A k \in 1 .. L : nums[k] \in Int /\ a <= nums[k] /\ nums[k] <= b
  OBVIOUS
<1>2. PICK f \in [0 .. L -> Int] :
        /\ f[0] = 0 /\ \A k \in 1 .. L : f[k] = f[k - 1] + nums[k]
        /\ Sum(nums) = f[L]
  BY SumOf
<1> HIDE DEF L
<1> DEFINE wrong == {k \in 0 .. L : ~(k * a <= f[k] /\ f[k] <= k * b)}
<1>3. wrong = {}
  <2> SUFFICES ASSUME wrong # {} PROVE FALSE
    OBVIOUS
  <2>1. PICK n \in wrong : \A k \in wrong : n <= k
    BY <1>1, LeastNumber
  <2>2. n \in 0 .. L /\ ~(n * a <= f[n] /\ f[n] <= n * b)
    BY <2>1
  <2>3. n # 0
    BY <1>2, <2>2
  <2>4. n \in 1 .. L /\ n - 1 \in 0 .. L /\ ~(n <= n - 1) /\ n \in Int
    BY <1>1, <2>2, <2>3
  <2>5. n - 1 \notin wrong
    BY <2>1, <2>4
  <2>6. (n - 1) * a <= f[n - 1] /\ f[n - 1] <= (n - 1) * b
    BY <2>4, <2>5
  <2> HIDE DEF wrong
  <2>7. f[n] = f[n - 1] + nums[n] /\ nums[n] \in Int /\ f[n - 1] \in Int /\ a <= nums[n] /\ nums[n] <= b
    BY <1>1, <1>2, <2>4
  <2>8. (n - 1) * a + a = n * a /\ (n - 1) * b + b = n * b
    BY <2>4
  <2>9. n * a \in Int /\ n * b \in Int /\ (n - 1) * a \in Int /\ (n - 1) * b \in Int
    BY <2>4
  <2> QED
    BY <2>2, <2>6, <2>7, <2>8, <2>9
<1>4. L \in 0 .. L
  BY <1>1
<1>5. f[L] \in Int /\ L * a <= f[L] /\ f[L] <= L * b
  BY <1>1, <1>2, <1>3, <1>4
<1> QED
  BY <1>2, <1>5 DEF L

\* A quotient of a sum between two bounds, as many times as it is divided by.
LEMMA Quotients ==
  ASSUME NEW w \in Nat \ {0}, NEW s \in Int, NEW a \in Int, NEW b \in Int, w * a <= s, s <= w * b
  PROVE  s \div w \in Int /\ a <= s \div w /\ s \div w <= b
<1> DEFINE q == s \div w
<1>1. q \in Int /\ w * q <= s /\ s < w * q + w
  OBVIOUS
<1> HIDE DEF q
<1>2. ASSUME NEW m \in Int, m >= 1 PROVE w * m >= w
  BY <1>2
<1>3. w * q \in Int /\ w * a \in Int /\ w * b \in Int
  BY <1>1
<1>4. ASSUME q < a PROVE FALSE
  <2>1. w * (a - q) >= w /\ w * (a - q) = w * a - w * q
    BY <1>1, <1>2, <1>4
  <2> QED
    BY <1>1, <1>3, <2>1
<1>5. ASSUME b < q PROVE FALSE
  <2>1. w * (q - b) >= w /\ w * (q - b) = w * q - w * b
    BY <1>1, <1>2, <1>5
  <2> QED
    BY <1>1, <1>3, <2>1
<1> QED
  BY <1>1, <1>4, <1>5 DEF q

\* Two numbers of places that hold numbers below some bound, one into the other.
LEMMA Fewer ==
  ASSUME NEW S, NEW T, IsFiniteSet(S), NEW f \in [S -> T], \A y \in T : \E x \in S : f[x] = y
  PROVE  IsFiniteSet(T) /\ Cardinality(T) \in Nat /\ Cardinality(S) \in Nat /\ Cardinality(T) <= Cardinality(S)
<1>1. f \in Surjection(S, T)
  BY DEF Surjection
<1> QED
  BY <1>1, FS_Surjection, FS_CardinalityType

Upwards(nums) ==
  {p \in (DOMAIN nums) \X (DOMAIN nums) :
     nums[p[1]] < nums[p[2]] \/ (nums[p[1]] = nums[p[2]] /\ p[1] < p[2])}

\* The median lies between the bounds of the numbers, and at most half of them are below.
LEMMA MedianOf ==
  ASSUME NEW nums \in Seq(Int), nums # <<>>, NEW a \in Int, NEW b \in Int,
         \A k \in DOMAIN nums : a <= nums[k] /\ nums[k] <= b
  PROVE  /\ Median(nums) \in Int /\ a <= Median(nums) /\ Median(nums) <= b
         /\ Cardinality({k \in DOMAIN nums : nums[k] < Median(nums)}) <= Len(nums) \div 2
<1> DEFINE L == Len(nums)
           D == DOMAIN nums
           O == Upwards(nums)
           sorted == Arranged(nums, D, O)
           at(n) == Nth(D, O, n)
           mid == L \div 2
<1>1. L \in Nat /\ L # 0 /\ D = 1 .. L /\ \A k \in D : k \in Int /\ nums[k] \in Int
  OBVIOUS
<1>2. \A i, j \in D : <<i, j>> \in O <=> (nums[i] < nums[j] \/ (nums[i] = nums[j] /\ i < j))
  BY DEF Upwards
<1>3. Orders(D, O)
  <2>1. \A k \in D : k \in Int /\ nums[k] \in Int
    BY <1>1
  <2> HIDE DEF O, D, L
  <2>2. \A i \in D : <<i, i>> \notin O
    BY <1>2, <2>1
  <2>3. ASSUME NEW i \in D, NEW j \in D PROVE i = j \/ <<i, j>> \in O \/ <<j, i>> \in O
    <3>1. i \in Int /\ j \in Int /\ nums[i] \in Int /\ nums[j] \in Int
      BY <2>1
    <3>2. \/ i = j
          \/ nums[i] < nums[j] \/ (nums[i] = nums[j] /\ i < j)
          \/ nums[j] < nums[i] \/ (nums[j] = nums[i] /\ j < i)
      BY <3>1
    <3> QED
      BY <1>2, <3>2
  <2>4. ASSUME NEW i \in D, NEW j \in D, NEW k \in D, <<i, j>> \in O, <<j, k>> \in O PROVE <<i, k>> \in O
    <3>1. i \in Int /\ j \in Int /\ k \in Int /\ nums[i] \in Int /\ nums[j] \in Int /\ nums[k] \in Int
      BY <2>1
    <3>2. nums[i] < nums[j] \/ (nums[i] = nums[j] /\ i < j)
      BY <1>2, <2>4
    <3>3. nums[j] < nums[k] \/ (nums[j] = nums[k] /\ j < k)
      BY <1>2, <2>4
    <3>4. nums[i] < nums[k] \/ (nums[i] = nums[k] /\ i < k)
      BY <3>1, <3>2, <3>3
    <3> QED
      BY <1>2, <3>4
  <2> QED
    BY <2>2, <2>3, <2>4 DEF Orders
<1>4. Cardinality(D) = L
  BY <1>1, FS_Interval
<1> HIDE DEF L, D, O
<1>5. /\ sorted \in Seq(Int) /\ Len(sorted) = L
      /\ \A n \in 1 .. L : at(n) \in D /\ sorted[n] = nums[at(n)]
      /\ \A m, n \in 1 .. L : m < n => <<at(m), at(n)>> \in O
      /\ \A i \in D : \E n \in 1 .. L : at(n) = i
  BY <1>3, <1>4, ArrangedOf DEF D
<1> HIDE DEF sorted, at
<1>6. \A n \in 1 .. L : sorted[n] \in Int /\ a <= sorted[n] /\ sorted[n] <= b
  BY <1>1, <1>5 DEF D
<1>7. \A m, n \in 1 .. L : m < n => sorted[m] <= sorted[n]
  <2> SUFFICES ASSUME NEW m \in 1 .. L, NEW n \in 1 .. L, m < n PROVE sorted[m] <= sorted[n]
    OBVIOUS
  <2>1. at(m) \in D /\ at(n) \in D /\ sorted[m] = nums[at(m)] /\ sorted[n] = nums[at(n)] /\ <<at(m), at(n)>> \in O
    BY <1>5
  <2>2. nums[at(m)] < nums[at(n)] \/ nums[at(m)] = nums[at(n)]
    BY <1>2, <2>1
  <2> QED
    BY <1>6, <2>1, <2>2
<1>8. /\ mid \in Nat /\ mid + 1 \in Nat
      /\ mid + 1 \in 1 .. L
      /\ L % 2 # 1 => mid \in 1 .. L
  BY <1>1
<1>9. Median(nums) = IF L % 2 = 1 THEN sorted[mid + 1] ELSE (sorted[mid] + sorted[mid + 1]) \div 2
  BY <1>5 DEF Median, sorted, Upwards, O, D, L
<1> HIDE DEF mid
<1>10. /\ Median(nums) \in Int /\ a <= Median(nums) /\ Median(nums) <= b
       /\ Median(nums) <= sorted[mid + 1]
  <2>1. CASE L % 2 = 1
    BY <1>6, <1>8, <1>9, <2>1
  <2>2. CASE L % 2 # 1
    <3>1. sorted[mid] <= sorted[mid + 1]
      BY <1>7, <1>8, <2>2
    <3> QED
      BY <1>6, <1>8, <1>9, <2>2, <3>1
  <2> QED
    BY <2>1, <2>2
<1> DEFINE below == {k \in D : nums[k] < Median(nums)}
           f == [n \in {n \in 1 .. mid : at(n) \in below} |-> at(n)]
<1>11. ASSUME NEW k \in below PROVE \E n \in 1 .. mid : at(n) = k
  <2>1. PICK n \in 1 .. L : at(n) = k
    BY <1>5
  <2>2. sorted[n] < sorted[mid + 1]
    <3>1. nums[k] < Median(nums) /\ sorted[n] = nums[k]
      BY <1>5, <2>1
    <3> QED
      BY <1>6, <1>8, <1>10, <2>1, <3>1
  <2>3. ~(mid + 1 <= n)
    <3>1. \A x, y \in Int : x < y => ~(y <= x)
      OBVIOUS
    <3>2. mid + 1 = n \/ ~(mid + 1 < n)
      BY <1>6, <1>7, <1>8, <2>2, <3>1
    <3> QED
      BY <1>6, <1>8, <2>2, <3>1, <3>2
  <2> QED
    BY <1>8, <2>1, <2>3
<1>12. IsFiniteSet(1 .. mid) /\ Cardinality(1 .. mid) = mid
  <2>1. mid \in Nat
    BY <1>8
  <2> QED
    BY <2>1, FS_Interval
<1> DEFINE S == {n \in 1 .. mid : at(n) \in below}
<1>13. S \in SUBSET (1 .. mid) /\ f \in [S -> below] /\ \A y \in below : \E x \in S : f[x] = y
  <2> HIDE DEF below
  <2>1. f \in [S -> below]
    OBVIOUS
  <2>2. ASSUME NEW y \in below PROVE \E x \in S : f[x] = y
    <3>1. PICK n \in 1 .. mid : at(n) = y
      BY <1>11
    <3> QED
      BY <3>1
  <2> QED
    BY <2>1, <2>2
<1>14. IsFiniteSet(S) /\ Cardinality(S) <= mid /\ Cardinality(S) \in Nat
  <2> HIDE DEF S
  <2> QED
    BY <1>12, <1>13, FS_Subset, FS_CardinalityType
<1> HIDE DEF below, f, S
<1>15. Cardinality(below) <= mid
  <2>1. IsFiniteSet(S) /\ f \in [S -> below]
    BY <1>13, <1>14
  <2>2. Cardinality(below) \in Nat /\ Cardinality(below) <= Cardinality(S)
    BY <1>13, <2>1, Fewer
  <2> QED
    BY <1>8, <1>14, <2>2
<1> QED
  BY <1>10, <1>15 DEF below, mid, L, D

-----------------------------------------------------------------------------
(* The conditions of a filter on what a request may leave in a cell. *)

\* A request is made of scalars.
Pieces == about = "cell" /\ input \in Seq(Atoms)

LEMMA PiecesStay == CellSpec => []Pieces
<1>1. about = "cell" /\ input = <<>> => Pieces
  BY DEF Pieces
<1>2. Pieces /\ [AddAtom]_vars => Pieces'
  BY DEF Pieces, AddAtom, vars
<1> QED
  BY <1>1, <1>2, PTL DEF CellSpec

\* The shapes of scalars.
LEMMA ScalarShapes ==
  ASSUME NEW v \in Scalars
  PROVE  /\ Is(v, "null") <=> v = Null
         /\ Is(v, "text") => v.text \in Seq(Nat)
         /\ Is(v, "num") => v.num \in Printable
         /\ Is(v, "flag") => v.flag \in BOOLEAN
         /\ ~Is(v, "items") /\ ~Is(v, "start") /\ ~Is(v, "invalid") /\ ~Is(v, "url")
         /\ Is(v, "null") \/ Is(v, "text") \/ Is(v, "num") \/ Is(v, "flag")
         /\ ~(Is(v, "text") /\ Is(v, "num")) /\ ~(Is(v, "flag") /\ Is(v, "num")) /\ ~(Is(v, "text") /\ Is(v, "flag"))
<1>1. CASE v = Null
  BY <1>1 DEF Null, Is
<1>2. CASE v \in [text : Seq(Nat)]
  BY <1>2 DEF Is, Null
<1>3. CASE v \in [num : Printable]
  BY <1>3 DEF Is, Null
<1>4. CASE v \in [flag : BOOLEAN]
  BY <1>4 DEF Is, Null
<1> QED
  BY <1>1, <1>2, <1>3, <1>4 DEF Scalars

\* What a request may be: a list, a scalar, or a date's start or range of scalars.
LEMMA RequestShapes ==
  ASSUME Pieces, NEW v \in Requests(input)
  PROVE  \/ v = Items(input) /\ input \in Seq(Scalars)
         \/ v \in Scalars
         \/ \E a \in Scalars : v = [start |-> a]
         \/ \E a, b \in Scalars : v = DateRange(a, b)
<1>1. input \in Seq(Atoms) /\ Atoms \subseteq Scalars
  BY CellAssumption DEF Pieces
<1>2. input \in Seq(Scalars)
  BY <1>1
<1>3. /\ Len(input) = 1 => input[1] \in Scalars
      /\ Len(input) = 2 => input[1] \in Scalars /\ input[2] \in Scalars
  BY <1>2
<1> QED
  BY <1>2, <1>3 DEF Requests

\* Columns that a request may set.
LEMMA SettableTypes ==
  ASSUME NEW p \in Settable
  PROVE  /\ p.type \in TextTypes \cup SelectTypes \cup {"number", "multi_select", "person", "checkbox", "files", "date"}
         /\ Is(p.config, "place") => p.config.place \in Nat \ {0}
BY CellAssumption DEF Settable, PropertyTypes, DateTypes, ComputedTypes

\* No condition that the builder offers for a column is refused.
LEMMA OfferedNeverThrow ==
  ASSUME NEW p \in Settable, p.type # "files", NEW op \in OperatorsForType(p.type), NEW v, NEW operand
  PROVE  EvalCondition(p.type, op, v, operand, Moment) # "throws"
<1> DEFINE type == p.type
           verdict == EvalCondition(type, op, v, operand, Moment)
<1>1. CASE type \in TextTypes
  <2>1. verdict = EvalText(op, v, operand)
    BY <1>1 DEF EvalCondition, TextTypes, SelectTypes, DateTypes
  <2>2. op \in EmptinessOps \cup {"equals", "not_equals", "contains", "not_contains", "starts_with", "ends_with"}
    BY <1>1 DEF OperatorsForType, TextTypes, SelectTypes, DateTypes
  <2> QED
    BY <2>1, <2>2 DEF EvalText, Emptiness, EmptinessOps, Verdict
<1>2. CASE type = "number"
  <2>1. verdict = EvalNumber(op, v, operand)
    BY <1>2 DEF EvalCondition, TextTypes, SelectTypes, DateTypes
  <2>2. op \in EmptinessOps \cup Comparisons \cup {"equals", "not_equals"}
    BY <1>2 DEF OperatorsForType, TextTypes, SelectTypes, DateTypes
  <2> QED
    BY <2>1, <2>2 DEF EvalNumber, Emptiness, EmptinessOps, Comparisons, Verdict
<1>3. CASE type \in SelectTypes
  <2>1. verdict = EvalSelect(op, v, operand)
    BY <1>3 DEF EvalCondition, TextTypes, SelectTypes, DateTypes
  <2>2. op \in EmptinessOps \cup {"equals", "not_equals"}
    BY <1>3 DEF OperatorsForType, TextTypes, SelectTypes, DateTypes
  <2> QED
    BY <2>1, <2>2 DEF EvalSelect, Emptiness, EmptinessOps, Verdict
<1>4. CASE type \in {"multi_select", "person"}
  <2>1. verdict = EvalMultiMembership(op, v, operand)
    BY <1>4 DEF EvalCondition, TextTypes, SelectTypes, DateTypes
  <2>2. op \in EmptinessOps \cup {"contains", "not_contains"}
    BY <1>4 DEF OperatorsForType, TextTypes, SelectTypes, DateTypes
  <2> QED
    BY <2>1, <2>2 DEF EvalMultiMembership, EmptinessOps, Verdict
<1>5. CASE type = "checkbox"
  <2>1. verdict = EvalCheckbox(op, v, operand)
    BY <1>5 DEF EvalCondition, TextTypes, SelectTypes, DateTypes
  <2>2. op = "equals"
    BY <1>5 DEF OperatorsForType, TextTypes, SelectTypes, DateTypes
  <2> QED
    BY <2>1, <2>2 DEF EvalCheckbox, Verdict
<1>6. CASE type = "date"
  <2>1. verdict = EvalDate(op, v, operand, Moment)
    BY <1>6 DEF EvalCondition, TextTypes, SelectTypes, DateTypes
  <2>2. op \in EmptinessOps \cup {"equals", "before", "after", "on_or_before", "on_or_after"}
    BY <1>6 DEF OperatorsForType, TextTypes, SelectTypes, DateTypes
  <2> QED
    BY <2>1, <2>2 DEF EvalDate, Emptiness, EmptinessOps, Verdict
<1> QED
  BY <1>1, <1>2, <1>3, <1>4, <1>5, <1>6, SettableTypes

\* What is stored in a number's column is nothing or a number.
LEMMA StoredNumber ==
  ASSUME Pieces, NEW p \in Settable, p.type = "number", NEW v \in Requests(input), NEW stored \in Stored(p, v)
  PROVE  stored = Null \/ \E n \in Int : stored = Num(n)
<1>1. ASSUME NEW n \in Int
      PROVE  Rounded(n, p.config) \in Int
  <2>1. CASE ~Is(p.config, "place")
    BY <2>1 DEF Rounded
  <2>2. CASE Is(p.config, "place")
    <3>1. p.config.place \in Nat \ {0}
      BY <2>2, SettableTypes
    <3> DEFINE place == p.config.place
    <3>2. \A m \in Nat \ {0}, k \in Int : k \div m \in Int
      OBVIOUS
    <3>3. 2 * n + place \in Int /\ 2 * place \in Nat \ {0}
      BY <3>1
    <3>4. (2 * n + place) \div (2 * place) \in Int
      BY <3>2, <3>3
    <3>5. ((2 * n + place) \div (2 * place)) * place \in Int
      BY <3>1, <3>4
    <3> QED
      BY <2>2, <3>5 DEF Rounded
  <2> QED
    BY <2>1, <2>2
<1>2. CASE v = Null
  BY <1>2 DEF Stored, ValidateCellValue, ComputedTypes, TextTypes, SelectTypes
<1>3. CASE v # Null
  <2>1. stored = ValidateNumber(p.config, v) /\ stored # Invalid
    BY <1>3 DEF Stored, ValidateCellValue, ComputedTypes, TextTypes, SelectTypes
  <2>2. CASE Is(v, "num")
    <3>1. v \in Scalars
      BY <2>2, RequestShapes DEF Items, DateRange, Is
    <3>2. v.num \in Printable
      BY <2>2, <3>1, ScalarShapes
    <3>3. v.num \in Int
      BY <3>2 DEF Printable
    <3> QED
      BY <1>1, <2>1, <2>2, <3>3 DEF ValidateNumber
  <2>3. CASE ~Is(v, "num") /\ Is(v, "text")
    <3>1. IsNumberText(v.text)
      BY <2>1, <2>3 DEF ValidateNumber
    <3>2. NumberIn(v.text) \in Int
      BY <3>1 DEF NumberIn, IsNumberText, Printable
    <3> QED
      BY <1>1, <2>1, <2>3, <3>1, <3>2 DEF ValidateNumber
  <2> QED
    BY <2>1, <2>2, <2>3 DEF ValidateNumber
<1> QED
  BY <1>2, <1>3

\* An instant that a text names can be printed.
LEMMA Instants ==
  ASSUME NEW s
  PROVE  InstantIn(s) \in Int /\ (InstantIn(s) # NotADate => InstantIn(s) \in Printable)
BY DEF InstantIn, NotADate, Printable

LEMMA NormalInstants ==
  ASSUME NEW v \in Scalars, NormalizeIsoDate(v) # Invalid
  PROVE  InstantIn(NormalizeIsoDate(v).text) \in Printable
<1>1. CASE Is(v, "num")
  <2>1. v.num \in Printable
    BY <1>1, ScalarShapes
  <2>2. NormalizeIsoDate(v).text = <<IsoPrint + v.num>>
    BY <1>1 DEF NormalizeIsoDate, Iso, Text
  <2> QED
    BY <2>1, <2>2 DEF InstantIn, IsoPrint, Printable
<1>2. CASE ~Is(v, "num")
  <2>1. NormalizeIsoDate(v) = v /\ InstantIn(v.text) # NotADate
    BY <1>2 DEF NormalizeIsoDate
  <2> QED
    BY <2>1, Instants
<1> QED
  BY <1>1, <1>2

\* What is stored in a column of dates is nothing or begins with an instant.
Dated(stored) ==
  \E d : /\ stored = Date(d) \/ \E e : stored = DateRange(d, e)
         /\ InstantIn(d.text) \in Printable
LEMMA StoredDate ==
  ASSUME Pieces, NEW p \in Settable, p.type = "date", NEW v \in Requests(input), NEW stored \in Stored(p, v)
  PROVE  stored = Null \/ Dated(stored)
<1>1. v = Null => stored = Null
  BY DEF Stored, ValidateCellValue, ComputedTypes, TextTypes, SelectTypes
<1>2. v # Null => stored = ValidateDate(p.config, v) /\ stored # Invalid
  BY DEF Stored, ValidateCellValue, ComputedTypes, TextTypes, SelectTypes
<1>3. ASSUME v # Null, v \in Scalars PROVE Dated(stored)
  <2>1. ~Is(v, "start")
    BY <1>3, ScalarShapes
  <2>2. Is(v, "text") \/ Is(v, "num")
    BY <1>2, <1>3, <2>1 DEF ValidateDate
  <2>3. NormalizeIsoDate(v) # Invalid /\ stored = Date(NormalizeIsoDate(v))
    BY <1>2, <1>3, <2>2 DEF ValidateDate
  <2> QED
    BY <1>3, <2>3, NormalInstants DEF Dated
<1>4. ASSUME NEW a \in Scalars, v = [start |-> a] PROVE stored = Null \/ Dated(stored)
  <2>1. v # Null /\ ~Is(v, "text") /\ ~Is(v, "num") /\ Is(v, "start") /\ ~Is(v, "end") /\ v.start = a
    BY <1>4 DEF Is, Null
  <2>2. CASE a # Null
    <3>1. NormalizeIsoDate(a) # Invalid /\ stored = Date(NormalizeIsoDate(a))
      BY <1>2, <2>1, <2>2 DEF ValidateDate
    <3> QED
      BY <3>1, NormalInstants DEF Dated
  <2>3. CASE a = Null
    BY <1>2, <2>1, <2>3 DEF ValidateDate
  <2> QED
    BY <2>2, <2>3
<1>5. ASSUME NEW a \in Scalars, NEW b \in Scalars, v = DateRange(a, b) PROVE stored = Null \/ Dated(stored)
  <2>1. v # Null /\ ~Is(v, "text") /\ ~Is(v, "num") /\ Is(v, "start") /\ v.start = a /\ v.end = b
    BY <1>5 DEF Is, Null, DateRange
  <2>2. CASE a # Null
    <3>1. /\ NormalizeIsoDate(a) # Invalid
          /\ stored = Date(NormalizeIsoDate(a)) \/ stored = DateRange(NormalizeIsoDate(a), NormalizeIsoDate(b))
      BY <1>2, <2>1, <2>2 DEF ValidateDate
    <3> QED
      BY <3>1, NormalInstants DEF Dated
  <2>3. CASE a = Null
    BY <1>2, <2>1, <2>3 DEF ValidateDate
  <2> QED
    BY <2>2, <2>3
<1>6. CASE v = Items(input)
  <2>1. v # Null /\ ~Is(v, "text") /\ ~Is(v, "num") /\ ~Is(v, "start")
    BY <1>6 DEF Is, Null, Items
  <2> QED
    BY <1>2, <2>1 DEF ValidateDate
<1> QED
  BY <1>1, <1>3, <1>4, <1>5, <1>6, RequestShapes

\* Operands are scalars and lists of one.
LEMMA OperandShapes ==
  ASSUME NEW x \in Operands
  PROVE  /\ OperandMs(x) \in Int
         /\ Numeric(x) => AsNumber(x) \in Int
<1>1. CASE x \in Atoms
  <2>1. x \in Scalars
    BY <1>1, CellAssumption
  <2>2. Is(x, "num") => x.num \in Printable
    BY <2>1, ScalarShapes
  <2>3. Is(x, "num") => x.num \in Int
    BY <2>2 DEF Printable
  <2>4. OperandMs(x) \in Int
    BY <2>3, Instants DEF OperandMs, DateMs, NotADate
  <2>5. IsNumberText(x.text) => NumberIn(x.text) \in Int
    BY DEF IsNumberText, NumberIn, Printable
  <2> QED
    BY <2>3, <2>4, <2>5 DEF AsNumber, Unit
<1>2. CASE \E v \in Atoms : x = Items(<<v>>)
  <2>1. ~Is(x, "num") /\ ~Is(x, "text") /\ ~Is(x, "start") /\ ~Is(x, "flag")
    BY <1>2 DEF Is, Items
  <2> QED
    BY <2>1 DEF OperandMs, DateMs, NotADate, AsNumber
<1> QED
  BY <1>1, <1>2 DEF Operands

\* A number is below a bound or not, and so on.
LEMMA NumbersSplit ==
  ASSUME Pieces, NEW p \in Settable, p.type = "number", NEW v \in Requests(input), NEW stored \in Stored(p, v),
         NEW operand \in Operands, Numeric(operand)
  PROVE  /\ Opposite(p, stored, operand, "equals", "not_equals")
         /\ ~IsEmpty(stored) =>
              /\ Opposite(p, stored, operand, "less_than", "greater_than_or_equal")
              /\ Opposite(p, stored, operand, "greater_than", "less_than_or_equal")
<1>1. \A op : EvalCondition(p.type, op, stored, operand, Moment) = EvalNumber(op, stored, operand)
  BY DEF EvalCondition, TextTypes, SelectTypes, DateTypes
<1>2. CASE stored = Null
  <2>1. IsEmpty(stored) /\ ~Is(stored, "num")
    BY <1>2 DEF IsEmpty, Is, Null
  <2> QED
    BY <1>1, <2>1 DEF Opposite, Says, EvalNumber, EmptinessOps, Verdict
<1>3. ASSUME NEW n \in Int, stored = Num(n)
      PROVE  /\ Opposite(p, stored, operand, "equals", "not_equals")
             /\ Opposite(p, stored, operand, "less_than", "greater_than_or_equal")
             /\ Opposite(p, stored, operand, "greater_than", "less_than_or_equal")
  <2>1. Is(stored, "num") /\ stored.num = n
    BY <1>3 DEF Is, Num
  <2>2. AsNumber(operand) \in Int
    BY OperandShapes
  <2> DEFINE target == AsNumber(operand)
  <2>3. /\ EvalNumber("equals", stored, operand) = Verdict(n = target)
        /\ EvalNumber("not_equals", stored, operand) = Verdict(n # target)
        /\ EvalNumber("less_than", stored, operand) = Verdict(n < target)
        /\ EvalNumber("greater_than_or_equal", stored, operand) = Verdict(n >= target)
        /\ EvalNumber("greater_than", stored, operand) = Verdict(n > target)
        /\ EvalNumber("less_than_or_equal", stored, operand) = Verdict(n <= target)
    BY <2>1 DEF EvalNumber, EmptinessOps
  <2> QED
    BY <1>1, <2>2, <2>3 DEF Opposite, Says, Verdict
<1> QED
  BY <1>2, <1>3, StoredNumber

\* The relative ranges: every instant is past, of today or future.
LEMMA DatesSplit ==
  ASSUME Pieces, NEW p \in Settable, p.type = "date", NEW v \in Requests(input), NEW stored \in Stored(p, v),
         ~IsEmpty(stored)
  PROVE  /\ \A operand \in Operands : OperandMs(operand) # NotADate =>
              /\ Opposite(p, stored, operand, "before", "on_or_after")
              /\ Opposite(p, stored, operand, "after", "on_or_before")
         /\ Cardinality({op \in {"is_past", "is_today", "is_future"} : Says(p, op, stored, Null)}) = 1
         /\ Says(p, "is_yesterday", stored, Null) => Says(p, "is_past", stored, Null)
         /\ Says(p, "is_tomorrow", stored, Null) => Says(p, "is_future", stored, Null)
         /\ Says(p, "is_today", stored, Null) => Says(p, "is_this_week", stored, Null)
<1>1. \A op, operand : EvalCondition(p.type, op, stored, operand, Moment) = EvalDate(op, stored, operand, Moment)
  BY DEF EvalCondition, TextTypes, SelectTypes, DateTypes
<1>2. Dated(stored)
  BY StoredDate DEF IsEmpty, Is, Null
<1> DEFINE t == DateMs(stored)
<1>3. t \in Printable
  BY <1>2 DEF Dated, DateMs, Date, DateRange, Is
<1>4. t \in Int /\ t # NotADate /\ -Forever <= t /\ t < Forever
  BY <1>3 DEF Printable, NotADate, Forever
<1> HIDE DEF t
<1>5. ASSUME NEW operand \in Operands, OperandMs(operand) # NotADate
      PROVE  /\ Opposite(p, stored, operand, "before", "on_or_after")
             /\ Opposite(p, stored, operand, "after", "on_or_before")
  <2> DEFINE target == OperandMs(operand)
  <2>1. target \in Int
    BY OperandShapes
  <2>2. \A op \in {"before", "after", "on_or_before", "on_or_after"} : RelativeRange(op, Moment) = <<>>
    BY DEF RelativeRange
  <2>3. /\ EvalDate("before", stored, operand, Moment) = Verdict(t < target)
        /\ EvalDate("after", stored, operand, Moment) = Verdict(t > target)
        /\ EvalDate("on_or_before", stored, operand, Moment) = Verdict(t <= target)
        /\ EvalDate("on_or_after", stored, operand, Moment) = Verdict(t >= target)
    BY <1>4, <1>5, <2>2 DEF EvalDate, EmptinessOps, t
  <2> HIDE DEF target
  <2> QED
    BY <1>1, <1>4, <2>1, <2>3 DEF Opposite, Says, Verdict
<1> DEFINE today == StartOfDay(Moment)
           Within(from, to) == from <= t /\ t < to
<1>6. /\ today \in Int
      /\ StartOfWeek(Moment) \in Int /\ StartOfWeek(Moment) <= today /\ today + 2 <= StartOfWeek(Moment) + 14
  <2>1. Moment \in Int /\ today = (Moment \div 2) * 2
    BY CellAssumption DEF StartOfDay, DayLength
  <2>2. Moment \div 2 \in Int
    BY <2>1
  <2>3. ((Moment \div 2) + 3) % 7 \in 0 .. 6
    BY <2>2
  <2>4. StartOfWeek(Moment) = today - (((Moment \div 2) + 3) % 7) * 2
    BY DEF StartOfWeek, DayLength
  <2> QED
    BY <2>1, <2>2, <2>3, <2>4
<1>7. /\ RelativeRange("is_today", Moment) = <<today, today + 2>>
      /\ RelativeRange("is_yesterday", Moment) = <<today - 2, today>>
      /\ RelativeRange("is_tomorrow", Moment) = <<today + 2, today + 4>>
      /\ RelativeRange("is_this_week", Moment) = <<StartOfWeek(Moment), StartOfWeek(Moment) + 14>>
      /\ RelativeRange("is_past", Moment) = <<-Forever, today>>
      /\ RelativeRange("is_future", Moment) = <<today + 2, Forever>>
  BY DEF RelativeRange, DayLength
<1> HIDE DEF today
<1>8. ASSUME NEW op, NEW from, NEW to, RelativeRange(op, Moment) = <<from, to>>, op \notin EmptinessOps
      PROVE  Says(p, op, stored, Null) <=> Within(from, to)
  <2>1. EvalDate(op, stored, Null, Moment) = Verdict(Within(from, to))
    BY <1>4, <1>8 DEF EvalDate, t
  <2> QED
    BY <1>1, <2>1 DEF Says, Verdict
<1>9. /\ Says(p, "is_today", stored, Null) <=> Within(today, today + 2)
      /\ Says(p, "is_yesterday", stored, Null) <=> Within(today - 2, today)
      /\ Says(p, "is_tomorrow", stored, Null) <=> Within(today + 2, today + 4)
      /\ Says(p, "is_this_week", stored, Null) <=> Within(StartOfWeek(Moment), StartOfWeek(Moment) + 14)
      /\ Says(p, "is_past", stored, Null) <=> Within(-Forever, today)
      /\ Says(p, "is_future", stored, Null) <=> Within(today + 2, Forever)
  <2> HIDE DEF Within
  <2>1. \A op, from, to :
          RelativeRange(op, Moment) = <<from, to>> /\ op \notin EmptinessOps
            => (Says(p, op, stored, Null) <=> Within(from, to))
    BY <1>8
  <2>2. {"is_today", "is_yesterday", "is_tomorrow", "is_this_week", "is_past", "is_future"} \cap EmptinessOps = {}
    BY DEF EmptinessOps
  <2> QED
    BY <1>7, <2>1, <2>2
<1> DEFINE S == {op \in {"is_past", "is_today", "is_future"} : Says(p, op, stored, Null)}
<1>10. Cardinality(S) = 1
  <2>1. \/ S = {"is_past"} \/ S = {"is_today"} \/ S = {"is_future"}
    <3>1. /\ Says(p, "is_past", stored, Null) <=> t < today
          /\ Says(p, "is_today", stored, Null) <=> (today <= t /\ t < today + 2)
          /\ Says(p, "is_future", stored, Null) <=> today + 2 <= t
      BY <1>4, <1>6, <1>9
    <3>2. CASE t < today
      BY <1>4, <1>6, <3>1, <3>2
    <3>3. CASE today <= t /\ t < today + 2
      BY <1>4, <1>6, <3>1, <3>3
    <3>4. CASE today + 2 <= t
      BY <1>4, <1>6, <3>1, <3>4
    <3> QED
      BY <1>4, <1>6, <3>2, <3>3, <3>4
  <2> QED
    BY <2>1, FS_Singleton
<1>11. /\ Says(p, "is_yesterday", stored, Null) => Says(p, "is_past", stored, Null)
       /\ Says(p, "is_tomorrow", stored, Null) => Says(p, "is_future", stored, Null)
       /\ Says(p, "is_today", stored, Null) => Says(p, "is_this_week", stored, Null)
  BY <1>4, <1>6, <1>9
<1> QED
  BY <1>5, <1>10, <1>11

\* The conditions on texts, choices, lists and ticks that negate each other.
LEMMA PlainSplit ==
  ASSUME NEW p \in Settable, NEW stored, NEW operand
  PROVE  /\ p.type \notin {"files", "checkbox"} => Opposite(p, stored, Null, "is_empty", "is_not_empty")
         /\ p.type = "checkbox" => Opposite(p, stored, Null, "checked", "unchecked")
         /\ p.type \in TextTypes \cup SelectTypes => Opposite(p, stored, operand, "equals", "not_equals")
         /\ p.type \in TextTypes \cup {"multi_select", "person"}
              => Opposite(p, stored, operand, "contains", "not_contains")
<1> DEFINE E(op, x) == EvalCondition(p.type, op, stored, x, Moment)
<1>0. \A v, s, t : IsEmpty(v) \in BOOLEAN /\ Includes(s, t) \in BOOLEAN
  BY DEF IsEmpty, Includes
<1>1. CASE p.type \in TextTypes
  <2>1. \A op, x : E(op, x) = EvalText(op, stored, x)
    BY <1>1 DEF EvalCondition, TextTypes, SelectTypes, DateTypes
  <2> QED
    BY <1>1, <1>0, <2>1 DEF Opposite, Says, EvalText, Emptiness, EmptinessOps, Verdict, TextTypes, SelectTypes
<1>2. CASE p.type = "number"
  <2>1. \A op, x : E(op, x) = EvalNumber(op, stored, x)
    BY <1>2 DEF EvalCondition, TextTypes, SelectTypes, DateTypes
  <2> QED
    BY <1>2, <1>0, <2>1 DEF Opposite, Says, EvalNumber, Emptiness, EmptinessOps, Verdict, TextTypes, SelectTypes
<1>3. CASE p.type \in SelectTypes
  <2>1. \A op, x : E(op, x) = EvalSelect(op, stored, x)
    BY <1>3 DEF EvalCondition, TextTypes, SelectTypes, DateTypes
  <2> QED
    BY <1>3, <1>0, <2>1 DEF Opposite, Says, EvalSelect, Emptiness, EmptinessOps, Verdict, TextTypes, SelectTypes
<1>4. CASE p.type \in {"multi_select", "person"}
  <2>1. \A op, x : E(op, x) = EvalMultiMembership(op, stored, x)
    BY <1>4 DEF EvalCondition, TextTypes, SelectTypes, DateTypes
  <2> QED
    BY <1>4, <2>1 DEF Opposite, Says, EvalMultiMembership, Verdict, TextTypes, SelectTypes
<1>5. CASE p.type = "checkbox"
  <2>1. \A op, x : E(op, x) = EvalCheckbox(op, stored, x)
    BY <1>5 DEF EvalCondition, TextTypes, SelectTypes, DateTypes
  <2> QED
    BY <1>5, <2>1 DEF Opposite, Says, EvalCheckbox, Verdict, TextTypes, SelectTypes
<1>6. CASE p.type = "date"
  <2>1. \A op, x : E(op, x) = EvalDate(op, stored, x, Moment)
    BY <1>6 DEF EvalCondition, TextTypes, SelectTypes, DateTypes
  <2> QED
    BY <1>6, <1>0, <2>1 DEF Opposite, Says, EvalDate, Emptiness, EmptinessOps, Verdict, TextTypes, SelectTypes
<1>7. CASE p.type = "files"
  BY <1>7 DEF TextTypes, SelectTypes
<1> QED
  BY <1>1, <1>2, <1>3, <1>4, <1>5, <1>6, <1>7, SettableTypes

LEMMA CellsSplit == Pieces => OppositesSplit
<1> SUFFICES ASSUME Pieces, NEW p \in Settable, NEW v \in Requests(input), NEW stored \in Stored(p, v)
    PROVE
      /\ p.type # "files" =>
           \A operand \in Operands, op \in OperatorsForType(p.type) :
             EvalCondition(p.type, op, stored, operand, Moment) # "throws"
      /\ p.type \notin {"files", "checkbox"} => Opposite(p, stored, Null, "is_empty", "is_not_empty")
      /\ p.type = "checkbox" => Opposite(p, stored, Null, "checked", "unchecked")
      /\ \A operand \in Operands :
           /\ p.type \in TextTypes \cup SelectTypes => Opposite(p, stored, operand, "equals", "not_equals")
           /\ p.type \in TextTypes \cup {"multi_select", "person"}
                => Opposite(p, stored, operand, "contains", "not_contains")
           /\ p.type = "number" /\ Numeric(operand) => Opposite(p, stored, operand, "equals", "not_equals")
           /\ p.type = "number" /\ Numeric(operand) /\ ~IsEmpty(stored) =>
                /\ Opposite(p, stored, operand, "less_than", "greater_than_or_equal")
                /\ Opposite(p, stored, operand, "greater_than", "less_than_or_equal")
           /\ p.type = "date" /\ OperandMs(operand) # NotADate /\ ~IsEmpty(stored) =>
                /\ Opposite(p, stored, operand, "before", "on_or_after")
                /\ Opposite(p, stored, operand, "after", "on_or_before")
      /\ p.type = "date" /\ ~IsEmpty(stored) =>
           /\ Cardinality({op \in {"is_past", "is_today", "is_future"} : Says(p, op, stored, Null)}) = 1
           /\ Says(p, "is_yesterday", stored, Null) => Says(p, "is_past", stored, Null)
           /\ Says(p, "is_tomorrow", stored, Null) => Says(p, "is_future", stored, Null)
           /\ Says(p, "is_today", stored, Null) => Says(p, "is_this_week", stored, Null)
  BY DEF OppositesSplit
<1>1. /\ p.type # "files" =>
           \A operand \in Operands, op \in OperatorsForType(p.type) :
             EvalCondition(p.type, op, stored, operand, Moment) # "throws"
  BY OfferedNeverThrow
<1> QED
  BY <1>1, PlainSplit, NumbersSplit, DatesSplit, Zenon

\* Filters that negate each other never keep or drop the same row, no condition the
\* builder offers is refused, and every date is past, of today or future, whatever was
\* put into a cell and at any moment (OppositesSplit).
THEOREM OppositesAlwaysSplit == CellSpec => []OppositesSplit
BY PiecesStay, CellsSplit, PTL

-----------------------------------------------------------------------------
(* What is stored can be stored again. *)

\* What a request leaves in a column, by the column's type.
LEMMA Validates ==
  ASSUME NEW p \in Settable, NEW v
  PROVE  LET left == ValidateCellValue(p.type, p.config, v)
         IN  /\ v = Null => left = IF p.type = "checkbox" THEN Flag(FALSE) ELSE Null
             /\ v # Null =>
                  /\ p.type \in TextTypes => left = IF ~Is(v, "text") THEN Invalid ELSE IF v.text = <<>> THEN Null ELSE v
                  /\ p.type = "number" => left = ValidateNumber(p.config, v)
                  /\ p.type = "checkbox" => left = IF Is(v, "flag") THEN v ELSE Invalid
                  /\ p.type \in SelectTypes => left = ValidateSelect(p.config, v)
                  /\ p.type \in {"multi_select", "person"} => left = ValidateList(p.type, p.config, v)
                  /\ p.type = "date" => left = ValidateDate(p.config, v)
                  /\ p.type = "files" => left = ValidateFiles(v)
<1>1. p.type \notin ComputedTypes \cup {"relation"}
  BY DEF Settable
<1>2. v = Null => ValidateCellValue(p.type, p.config, v) = IF p.type = "checkbox" THEN Flag(FALSE) ELSE Null
  BY <1>1 DEF ValidateCellValue
<1> QED
  BY <1>1, <1>2 DEF ValidateCellValue, TextTypes, SelectTypes

\* A stored value is what storing it again leaves, is empty only as null, and is in
\* some columns of a board, in each once.
Normal(p, stored) ==
  LET keys == KeysFor(p.type, stored)
  IN  /\ ValidateCellValue(p.type, p.config, stored) = stored
      /\ p.type # "checkbox" => (IsEmpty(stored) <=> stored = Null)
      /\ keys # <<>> /\ IsInjective(keys)
      /\ p.type \in SelectTypes \cup {"multi_select"} => ToSet(keys) \subseteq Choosable(p)

LEMMA OneKey == ASSUME NEW x PROVE <<x>> # <<>> /\ IsInjective(<<x>>) /\ ToSet(<<x>>) = {x}
BY DEF IsInjective, ToSet

LEMMA NullNormal ==
  ASSUME NEW p \in Settable, p.type # "checkbox"
  PROVE  Normal(p, Null)
<1>1. ValidateCellValue(p.type, p.config, Null) = Null
  BY Validates
<1>2. IsEmpty(Null)
  BY DEF IsEmpty, Is, Null
<1>3. KeysFor(p.type, Null) = <<EmptyKey>>
  BY <1>2 DEF KeysFor
<1> QED
  BY <1>1, <1>2, <1>3, OneKey DEF Normal, Choosable

\* A list in a request is a list of scalars, its texts and numbers are scalars.
LEMMA RequestParts ==
  ASSUME Pieces, NEW v \in Requests(input)
  PROVE  /\ Is(v, "items") => v = Items(v.items) /\ v.items \in Seq(Scalars)
         /\ Is(v, "text") \/ Is(v, "num") \/ Is(v, "flag") => v \in Scalars
<1>1. CASE v = Items(input) /\ input \in Seq(Scalars)
  BY <1>1 DEF Items, Is
<1>2. CASE v \in Scalars
  BY <1>2, ScalarShapes
<1>3. CASE \E a \in Scalars : v = [start |-> a]
  BY <1>3 DEF Is
<1>4. CASE \E a, b \in Scalars : v = DateRange(a, b)
  BY <1>4 DEF Is, DateRange
<1> QED
  BY <1>1, <1>2, <1>3, <1>4, RequestShapes

LEMMA TextsNormal ==
  ASSUME NEW p \in Settable, NEW v \in Scalars, Is(v, "text"), v.text # <<>>,
         \/ p.type \in TextTypes
         \/ p.type \in SelectTypes /\ v \in OptionIds(p.config)
  PROVE  Normal(p, v)
<1>1. v # Null /\ ~Is(v, "null") /\ ~Is(v, "items")
  BY ScalarShapes DEF Is, Null
<1>2. ~IsEmpty(v)
  BY <1>1 DEF IsEmpty
<1>3. KeysFor(p.type, v) = <<v>>
  BY <1>1, <1>2 DEF KeysFor, TextTypes, SelectTypes
<1>4. ValidateCellValue(p.type, p.config, v) = v
  BY <1>1, Validates DEF ValidateSelect
<1>5. p.type \in SelectTypes \cup {"multi_select"} => v \in Choosable(p)
  BY DEF TextTypes, SelectTypes, Choosable
<1> QED
  BY <1>1, <1>2, <1>3, <1>4, <1>5, OneKey DEF Normal

LEMMA ChoicesNormal ==
  ASSUME Pieces, NEW p \in Settable, p.type \in TextTypes \cup SelectTypes,
         NEW v \in Requests(input), NEW stored \in Stored(p, v)
  PROVE  Normal(p, stored)
<1>1. stored = ValidateCellValue(p.type, p.config, v) /\ stored # Invalid
  BY DEF Stored
<1>2. p.type # "checkbox"
  BY DEF TextTypes, SelectTypes
<1>3. CASE stored = Null
  BY <1>2, <1>3, NullNormal
<1>4. CASE stored # Null
  <2>1. v # Null
    BY <1>1, <1>2, <1>4, Validates
  <2>2. /\ stored = v /\ Is(v, "text") /\ v.text # <<>>
        /\ p.type \in TextTypes \/ (p.type \in SelectTypes /\ v \in OptionIds(p.config))
    BY <1>1, <1>4, <2>1, Validates DEF ValidateSelect
  <2>3. v \in Scalars
    BY <2>2, RequestParts
  <2> QED
    BY <2>2, <2>3, TextsNormal
<1> QED
  BY <1>3, <1>4

LEMMA Members == ASSUME NEW T, NEW s \in Seq(T) PROVE ToSet(s) \subseteq T
<1>1. \A i \in DOMAIN s : s[i] \in T
  OBVIOUS
<1> QED
  BY <1>1 DEF ToSet

\* A card dropped into a column of a board of choices.
LEMMA CardsLand ==
  ASSUME NEW p \in Settable, p.type \in SelectTypes, NEW key \in Choosable(p)
  PROVE  KeysFor(p.type, ValidateCellValue(p.type, p.config, MoveCardValue(key))) = <<key>>
<1>1. p.type # "checkbox"
  BY DEF SelectTypes
<1>2. CASE key = EmptyKey
  <2>1. ValidateCellValue(p.type, p.config, MoveCardValue(key)) = Null
    BY <1>1, <1>2, Validates DEF MoveCardValue
  <2>2. IsEmpty(Null)
    BY DEF IsEmpty, Is, Null
  <2> QED
    BY <1>1, <1>2, <2>1, <2>2 DEF KeysFor
<1>3. CASE key # EmptyKey
  <2>1. key \in OptionIds(p.config)
    BY <1>3 DEF Choosable
  <2>2. Is(p.config, "options") /\ key \in ToSet(p.config.options)
    BY <2>1 DEF OptionIds
  <2>3. p.config.options \in Seq([text : Seq(Nat)])
    BY <2>2, CellAssumption DEF Settable
  <2>4. key \in [text : Seq(Nat)]
    BY <2>2, <2>3, Members
  <2>5. Is(key, "text") /\ key.text # <<>> /\ key \in Scalars /\ key # Null
    BY <1>3, <2>4 DEF Is, EmptyKey, Text, Scalars, Null
  <2>6. MoveCardValue(key) = key
    BY <1>3 DEF MoveCardValue
  <2>7. ValidateCellValue(p.type, p.config, key) = key
    BY <2>1, <2>5, Validates DEF ValidateSelect
  <2>8. ~IsEmpty(key) /\ ~Is(key, "items")
    BY <2>5, ScalarShapes DEF IsEmpty
  <2> QED
    BY <1>1, <2>5, <2>6, <2>7, <2>8 DEF KeysFor
<1> QED
  BY <1>2, <1>3

\* Rounding to a place what is rounded to it already.
LEMMA Multiples ==
  ASSUME NEW b \in Nat \ {0}, NEW k \in Int
  PROVE  (2 * (k * b) + b) \div (2 * b) = k
<1> DEFINE a == 2 * (k * b) + b
           q == a \div (2 * b)
           kb == k * b
<1>1. kb \in Int /\ a \in Int /\ 2 * b \in Nat \ {0} /\ a = 2 * kb + b
  OBVIOUS
<1>2. q \in Int /\ (2 * b) * q <= a /\ a < (2 * b) * q + 2 * b
  BY <1>1
<1>3. ASSUME NEW m \in Int, m >= 1 PROVE b * m >= b
  BY <1>3
<1>4. ASSUME q >= k + 1 PROVE FALSE
  <2>1. b * (q - k) >= b /\ b * (q - k) = b * q - kb
    BY <1>2, <1>3, <1>4
  <2>2. b * q \in Int /\ (2 * b) * q = 2 * (b * q)
    BY <1>2
  <2> HIDE DEF a, q, kb
  <2> QED
    BY <1>1, <1>2, <2>1, <2>2
<1>5. ASSUME q <= k - 1 PROVE FALSE
  <2>1. b * (k - q) >= b /\ b * (k - q) = kb - b * q
    BY <1>2, <1>3, <1>5
  <2>2. b * q \in Int /\ (2 * b) * q = 2 * (b * q)
    BY <1>2
  <2> HIDE DEF a, q, kb
  <2> QED
    BY <1>1, <1>2, <2>1, <2>2
<1> QED
  BY <1>2, <1>4, <1>5

LEMMA RoundedOnce ==
  ASSUME NEW p \in Settable, NEW n \in Int
  PROVE  Rounded(Rounded(n, p.config), p.config) = Rounded(n, p.config)
<1>1. CASE ~Is(p.config, "place")
  BY <1>1 DEF Rounded
<1>2. CASE Is(p.config, "place")
  <2> DEFINE place == p.config.place
             k == (2 * n + place) \div (2 * place)
  <2>1. place \in Nat \ {0}
    BY <1>2, SettableTypes
  <2>2. k \in Int
    <3>1. \A m \in Nat \ {0}, j \in Int : j \div m \in Int
      OBVIOUS
    <3>2. 2 * n + place \in Int /\ 2 * place \in Nat \ {0}
      BY <2>1
    <3> QED
      BY <3>1, <3>2
  <2>3. Rounded(n, p.config) = k * place
    BY <1>2 DEF Rounded
  <2>4. Rounded(k * place, p.config) = ((2 * (k * place) + place) \div (2 * place)) * place
    BY <1>2 DEF Rounded
  <2> HIDE DEF k, place
  <2> QED
    BY <2>1, <2>2, <2>3, <2>4, Multiples
<1> QED
  BY <1>1, <1>2

\* What is stored in a number's column is rounded.
LEMMA NumbersNormal ==
  ASSUME Pieces, NEW p \in Settable, p.type = "number", NEW v \in Requests(input), NEW stored \in Stored(p, v)
  PROVE  Normal(p, stored)
<1>1. stored = ValidateCellValue(p.type, p.config, v) /\ stored # Invalid
  BY DEF Stored
<1>2. CASE stored = Null
  BY <1>2, NullNormal
<1>3. CASE stored # Null
  <2>1. v # Null /\ stored = ValidateNumber(p.config, v)
    BY <1>1, <1>3, Validates
  <2>2. \E n \in Int : stored = Num(Rounded(n, p.config))
    <3>1. CASE Is(v, "num")
      <4>1. v.num \in Printable
        BY <3>1, RequestParts, ScalarShapes
      <4>2. v.num \in Int
        BY <4>1 DEF Printable
      <4> QED
        BY <2>1, <3>1, <4>2 DEF ValidateNumber
    <3>2. CASE ~Is(v, "num")
      <4>1. IsNumberText(v.text)
        BY <1>1, <2>1, <3>2 DEF ValidateNumber
      <4>2. NumberIn(v.text) \in Int
        BY <4>1 DEF NumberIn, IsNumberText, Printable
      <4> QED
        BY <1>1, <2>1, <3>2, <4>2 DEF ValidateNumber
    <3> QED
      BY <3>1, <3>2
  <2>3. PICK n \in Int : stored = Num(Rounded(n, p.config))
    BY <2>2
  <2>4. Is(stored, "num") /\ ~Is(stored, "text") /\ ~Is(stored, "items") /\ ~Is(stored, "null")
    BY <2>3 DEF Is, Num
  <2>5. ValidateNumber(p.config, stored) = stored
    BY <2>3, <2>4, RoundedOnce DEF ValidateNumber, Num
  <2>6. ValidateCellValue(p.type, p.config, stored) = stored
    BY <1>3, <2>5, Validates
  <2>7. ~IsEmpty(stored)
    BY <2>4 DEF IsEmpty
  <2>8. KeysFor(p.type, stored) = <<EmptyKey>>
    BY <2>4, <2>7 DEF KeysFor
  <2> QED
    BY <1>3, <2>6, <2>7, <2>8, OneKey DEF Normal, SelectTypes
<1> QED
  BY <1>2, <1>3

\* What is stored in a checkbox is a flag.
LEMMA FlagsNormal ==
  ASSUME NEW p \in Settable, p.type = "checkbox", NEW v, NEW stored \in Stored(p, v)
  PROVE  Normal(p, stored)
<1>1. stored = ValidateCellValue(p.type, p.config, v) /\ stored # Invalid
  BY DEF Stored
<1>2. Is(stored, "flag") /\ stored # Null
  BY <1>1, Validates DEF Is, Flag, Null
<1>3. ValidateCellValue(p.type, p.config, stored) = stored
  BY <1>2, Validates
<1>4. KeysFor(p.type, stored) = <<Flag(stored = Flag(TRUE))>>
  BY DEF KeysFor
<1> QED
  BY <1>3, <1>4, OneKey DEF Normal, SelectTypes

\* A normal date is a text, and normal already.
LEMMA NormalOnce ==
  ASSUME NEW v \in Scalars, NormalizeIsoDate(v) # Invalid
  PROVE  LET d == NormalizeIsoDate(v)
         IN  Is(d, "text") /\ ~Is(d, "num") /\ NormalizeIsoDate(d) = d /\ d # Null
<1>1. CASE Is(v, "num")
  <2>1. NormalizeIsoDate(v) = [text |-> <<IsoPrint + v.num>>]
    BY <1>1 DEF NormalizeIsoDate, Iso, Text
  <2>2. InstantIn(NormalizeIsoDate(v).text) # NotADate
    BY NormalInstants DEF Printable, NotADate
  <2>3. Is(NormalizeIsoDate(v), "text") /\ ~Is(NormalizeIsoDate(v), "num") /\ NormalizeIsoDate(v) # Null
    BY <2>1 DEF Is, Null
  <2> QED
    BY <2>2, <2>3 DEF NormalizeIsoDate
<1>2. CASE ~Is(v, "num")
  <2>1. NormalizeIsoDate(v) = v /\ Is(v, "text")
    BY <1>2 DEF NormalizeIsoDate
  <2>2. v # Null
    BY <2>1 DEF Is, Null
  <2> QED
    BY <1>2, <2>1, <2>2
<1> QED
  BY <1>1, <1>2

\* A stored date, whatever it ends with.
LEMMA DatedKeys ==
  ASSUME NEW p \in Settable, p.type = "date", NEW stored,
         ValidateDate(p.config, stored) = stored,
         Is(stored, "start"), ~Is(stored, "text"), ~Is(stored, "items"), ~Is(stored, "null")
  PROVE  Normal(p, stored)
<1>1. stored # Null
  BY DEF Is, Null
<1>2. ValidateCellValue(p.type, p.config, stored) = stored
  BY <1>1, Validates
<1>3. ~IsEmpty(stored)
  BY DEF IsEmpty
<1>4. KeysFor(p.type, stored) = <<EmptyKey>>
  BY <1>3 DEF KeysFor
<1> QED
  BY <1>1, <1>2, <1>3, <1>4, OneKey DEF Normal, SelectTypes

LEMMA StartsNormal ==
  ASSUME NEW p \in Settable, p.type = "date", NEW v \in Scalars, NormalizeIsoDate(v) # Invalid
  PROVE  Normal(p, Date(NormalizeIsoDate(v)))
<1> DEFINE d == NormalizeIsoDate(v)
<1>1. Is(d, "text") /\ ~Is(d, "num") /\ NormalizeIsoDate(d) = d /\ d # Null /\ d # Invalid
  BY NormalOnce
<1> HIDE DEF d
<1>2. /\ Is(Date(d), "start") /\ ~Is(Date(d), "text") /\ ~Is(Date(d), "num") /\ ~Is(Date(d), "items")
      /\ ~Is(Date(d), "null") /\ ~Is(Date(d), "end") /\ Date(d).start = d
  BY DEF Date, Is
<1>3. ValidateDate(p.config, Date(d)) = Date(d)
  BY <1>1, <1>2 DEF ValidateDate
<1> QED
  BY <1>2, <1>3, DatedKeys DEF d

LEMMA RangesNormal ==
  ASSUME NEW p \in Settable, p.type = "date", NEW v \in Scalars, NEW w \in Scalars,
         NormalizeIsoDate(v) # Invalid, NormalizeIsoDate(w) # Invalid,
         ~(DateMs(NormalizeIsoDate(w)) < DateMs(NormalizeIsoDate(v))), ~Is(p.config, "oneDay")
  PROVE  Normal(p, DateRange(NormalizeIsoDate(v), NormalizeIsoDate(w)))
<1> DEFINE d == NormalizeIsoDate(v)
           e == NormalizeIsoDate(w)
           r == DateRange(d, e)
<1>1. NormalizeIsoDate(d) = d /\ d # Null /\ d # Invalid
  BY NormalOnce
<1>2. NormalizeIsoDate(e) = e /\ e # Null /\ e # Invalid /\ ~(DateMs(e) < DateMs(d))
  BY NormalOnce
<1> HIDE DEF d, e
<1>3. /\ Is(r, "start") /\ ~Is(r, "text") /\ ~Is(r, "num") /\ ~Is(r, "items") /\ ~Is(r, "null")
      /\ Is(r, "end") /\ r.start = d /\ r.end = e
  BY DEF DateRange, Is
<1> HIDE DEF r
<1>4. ValidateDate(p.config, r) = DateRange(d, e)
  BY <1>1, <1>2, <1>3 DEF ValidateDate
<1> QED
  BY <1>3, <1>4, DatedKeys DEF d, e, r

LEMMA DatesNormal ==
  ASSUME Pieces, NEW p \in Settable, p.type = "date", NEW v \in Requests(input), NEW stored \in Stored(p, v)
  PROVE  Normal(p, stored)
<1>1. stored = ValidateCellValue(p.type, p.config, v) /\ stored # Invalid
  BY DEF Stored
<1>2. CASE stored = Null
  BY <1>2, NullNormal
<1>3. CASE stored # Null
  <2>1. v # Null /\ stored = ValidateDate(p.config, v)
    BY <1>1, <1>3, Validates
  <2>2. ASSUME v \in Scalars PROVE Normal(p, stored)
    <3>1. ~Is(v, "start")
      BY <2>2, ScalarShapes
    <3>2. NormalizeIsoDate(v) # Invalid /\ stored = Date(NormalizeIsoDate(v))
      BY <1>1, <2>1, <3>1 DEF ValidateDate
    <3> QED
      BY <2>2, <3>2, StartsNormal
  <2>3. ASSUME NEW a \in Scalars, v = [start |-> a] PROVE Normal(p, stored)
    <3>1. ~Is(v, "text") /\ ~Is(v, "num") /\ Is(v, "start") /\ ~Is(v, "end") /\ v.start = a
      BY <2>3 DEF Is
    <3>2. NormalizeIsoDate(a) # Invalid /\ stored = Date(NormalizeIsoDate(a))
      BY <1>1, <1>3, <2>1, <3>1 DEF ValidateDate
    <3> QED
      BY <3>2, StartsNormal
  <2>4. ASSUME NEW a \in Scalars, NEW b \in Scalars, v = DateRange(a, b) PROVE Normal(p, stored)
    <3>1. ~Is(v, "text") /\ ~Is(v, "num") /\ Is(v, "start") /\ Is(v, "end") /\ v.start = a /\ v.end = b
      BY <2>4 DEF Is, DateRange
    <3>2. NormalizeIsoDate(a) # Invalid
      BY <1>1, <1>3, <2>1, <3>1 DEF ValidateDate
    <3>3. CASE b = Null
      <4>1. stored = Date(NormalizeIsoDate(a))
        BY <1>1, <1>3, <2>1, <3>1, <3>2, <3>3 DEF ValidateDate
      <4> QED
        BY <3>2, <4>1, StartsNormal
    <3>4. CASE b # Null
      <4>1. /\ NormalizeIsoDate(b) # Invalid /\ ~Is(p.config, "oneDay")
            /\ ~(DateMs(NormalizeIsoDate(b)) < DateMs(NormalizeIsoDate(a)))
            /\ stored = DateRange(NormalizeIsoDate(a), NormalizeIsoDate(b))
        BY <1>1, <1>3, <2>1, <3>1, <3>2, <3>4 DEF ValidateDate
      <4> QED
        BY <3>2, <4>1, RangesNormal
    <3> QED
      BY <3>3, <3>4
  <2>5. v # Items(input)
    <3>1. v = Items(input) => ~Is(v, "text") /\ ~Is(v, "num") /\ ~Is(v, "start")
      BY DEF Is, Items
    <3> QED
      BY <1>1, <2>1, <3>1 DEF ValidateDate
  <2> QED
    BY <2>2, <2>3, <2>4, <2>5, RequestShapes
<1> QED
  BY <1>2, <1>3

\* What is stored in a column of lists: known members, each once.
LEMMA ListsNormal ==
  ASSUME Pieces, NEW p \in Settable, p.type \in {"multi_select", "person"},
         NEW v \in Requests(input), NEW stored \in Stored(p, v)
  PROVE  Normal(p, stored)
<1> DEFINE T == {e \in Scalars : ListMember(p.type, p.config, e)}
<1>1. stored = ValidateCellValue(p.type, p.config, v) /\ stored # Invalid
  BY DEF Stored
<1>2. CASE stored = Null
  BY <1>2, NullNormal
<1>3. CASE stored # Null
  <2>1. v # Null /\ stored = ValidateList(p.type, p.config, v)
    BY <1>1, <1>3, Validates
  <2>2. /\ Is(v, "items") /\ v.items # <<>> /\ \A e \in ToSet(v.items) : ListMember(p.type, p.config, e)
        /\ stored = Items(Dedupe(v.items))
    BY <1>1, <1>3, <2>1 DEF ValidateList
  <2>3. v.items \in Seq(T)
    <3>1. v.items \in Seq(Scalars)
      BY <2>2, RequestParts
    <3>2. \A i \in DOMAIN v.items : v.items[i] \in Scalars /\ v.items[i] \in ToSet(v.items)
      BY <3>1 DEF ToSet
    <3>3. \A i \in DOMAIN v.items : v.items[i] \in T
      BY <2>2, <3>2
    <3> HIDE DEF T
    <3> QED
      BY <3>1, <3>3
  <2> DEFINE d == Dedupe(v.items)
  <2>4. d \in Seq(T) /\ IsInjective(d) /\ d # <<>> /\ Dedupe(d) = d
    <3>1. d \in Seq(T) /\ IsInjective(d) /\ d # <<>>
      BY <2>2, <2>3, DedupeOf
    <3> QED
      BY <3>1, DedupeOf
  <2>5. ToSet(d) \subseteq T
    BY <2>4, Members
  <2>6. stored = Items(d)
    BY <2>2
  <2> HIDE DEF d
  <2>7. Is(stored, "items") /\ stored.items = d /\ ~Is(stored, "null") /\ ~Is(stored, "text")
    BY <2>6 DEF Is, Items
  <2>8. ValidateList(p.type, p.config, stored) = stored
    BY <2>4, <2>5, <2>6, <2>7 DEF ValidateList
  <2>9. ValidateCellValue(p.type, p.config, stored) = stored
    BY <1>3, <2>8, Validates
  <2>10. ~IsEmpty(stored)
    BY <2>4, <2>7 DEF IsEmpty
  <2>11. TextItems(stored) = d
    <3>1. \A i \in DOMAIN d : d[i] \in ToSet(d)
      BY DEF ToSet
    <3>2. \A i \in DOMAIN d : Is(d[i], "text")
      BY <2>5, <3>1 DEF ListMember
    <3>3. {i \in DOMAIN d : Is(d[i], "text")} = DOMAIN d
      BY <3>2
    <3> QED
      BY <2>4, <2>7, <3>3, PickedAll DEF TextItems
  <2>12. KeysFor(p.type, stored) = d
    BY <2>7, <2>10, <2>11 DEF KeysFor
  <2>13. p.type \in SelectTypes \cup {"multi_select"} => ToSet(d) \subseteq Choosable(p)
    <3>1. ASSUME p.type = "multi_select" PROVE \A e \in T : e \in OptionIds(p.config)
      BY <3>1 DEF ListMember
    <3> QED
      BY <2>5, <3>1 DEF SelectTypes, Choosable
  <2> QED
    BY <1>3, <2>4, <2>9, <2>10, <2>12, <2>13 DEF Normal
<1> QED
  BY <1>2, <1>3

\* What is stored in a column of files: files with an address.
LEMMA FilesNormal ==
  ASSUME Pieces, NEW p \in Settable, p.type = "files", NEW v \in Requests(input), NEW stored \in Stored(p, v)
  PROVE  Normal(p, stored)
<1>1. stored = ValidateCellValue(p.type, p.config, v) /\ stored # Invalid
  BY DEF Stored
<1>2. CASE stored = Null
  BY <1>2, NullNormal
<1>3. CASE stored # Null
  <2> DEFINE files == [i \in DOMAIN v.items |-> FileOf(v.items[i])]
             again == [i \in DOMAIN files |-> FileOf(files[i])]
  <2>1. v # Null /\ stored = ValidateFiles(v)
    BY <1>1, <1>3, Validates
  <2>2. /\ Is(v, "items") /\ files # <<>> /\ stored = Items(files)
        /\ \A f \in ToSet(files) : Is(f, "url") /\ f.url # <<>>
    BY <1>1, <1>3, <2>1 DEF ValidateFiles
  <2>3. v.items \in Seq(Scalars)
    BY <2>2, RequestParts
  <2>4. ASSUME NEW i \in DOMAIN v.items PROVE FileOf(files[i]) = files[i]
    <3>1. v.items[i] \in Scalars /\ files[i] = FileOf(v.items[i]) /\ files[i] \in ToSet(files)
      BY <2>3 DEF ToSet
    <3>2. Is(v.items[i], "text")
      BY <2>2, <3>1, ScalarShapes DEF FileOf
    <3>3. files[i] = File(v.items[i].text)
      BY <3>1, <3>2 DEF FileOf
    <3>4. ~Is(files[i], "text")
      BY <3>3 DEF Is, File
    <3> QED
      BY <3>4 DEF FileOf
  <2>5. again = files
    BY <2>4
  <2> HIDE DEF files
  <2>6. Is(stored, "items") /\ stored.items = files /\ ~Is(stored, "null") /\ ~Is(stored, "text") /\ stored # Null
    BY <2>2 DEF Is, Items, Null
  <2>7. ValidateFiles(stored) = stored
    BY <2>2, <2>5, <2>6 DEF ValidateFiles
  <2>8. ValidateCellValue(p.type, p.config, stored) = stored
    BY <2>6, <2>7, Validates
  <2>9. ~IsEmpty(stored)
    BY <2>2, <2>6 DEF IsEmpty
  <2>10. KeysFor(p.type, stored) = <<EmptyKey>>
    BY <2>6, <2>9 DEF KeysFor
  <2> QED
    BY <2>6, <2>8, <2>9, <2>10, OneKey DEF Normal, SelectTypes
<1> QED
  BY <1>2, <1>3

LEMMA CellsNormal == Pieces => CellsNormalize
<1> SUFFICES ASSUME Pieces, NEW p \in Settable, NEW v \in Requests(input), NEW stored \in Stored(p, v)
             PROVE  /\ Normal(p, stored)
                    /\ p.type \in SelectTypes =>
                         \A key \in Choosable(p) :
                           KeysFor(p.type, ValidateCellValue(p.type, p.config, MoveCardValue(key))) = <<key>>
  BY DEF CellsNormalize, Normal
<1>1. Normal(p, stored)
  BY ChoicesNormal, NumbersNormal, FlagsNormal, ListsNormal, DatesNormal, FilesNormal, SettableTypes
<1> QED
  BY <1>1, CardsLand

\* What a cell holds can be stored again, is empty only as null and is once in each of
\* some known columns of a board, where a card dropped lands, whatever was asked to be
\* stored and however the columns are configured (CellsNormalize).
THEOREM CellsAreNormal == CellSpec => []CellsNormalize
BY PiecesStay, CellsNormal, PTL
-----------------------------------------------------------------------------
(* Rollups of numbers, flags, texts and gaps. *)

\* What each rollup of a column that is no date's comes to.
LEMMA RollupParts ==
  ASSUME NEW values, NEW type, type \notin DateTypes
  PROVE  LET of(aggregation) == ComputeRollup(aggregation, values, type)
             filled == Picked(values, {i \in DOMAIN values : ~IsEmpty(values[i])})
             checked == Cardinality({i \in DOMAIN values : values[i] = Flag(TRUE)})
             nums == NumbersOf(values)
         IN  /\ of("count") = Num(Len(values) * Unit)
             /\ of("count_values") = Num(Sum([n \in DOMAIN filled |-> Len(Counted(filled[n]))]) * Unit)
             /\ of("count_unique") = Num(Cardinality(UNION {ToSet(Counted(v)) : v \in ToSet(filled)}) * Unit)
             /\ of("count_empty") = Num((Len(values) - Len(filled)) * Unit)
             /\ of("count_not_empty") = Num(Len(filled) * Unit)
             /\ of("avg") = OrNull(nums, Num(Sum(nums) \div Len(nums)))
             /\ of("median") = OrNull(nums, Num(Median(nums)))
             /\ of("min") = OrNull(nums, Num(Least(nums)))
             /\ of("max") = OrNull(nums, Num(Greatest(nums)))
             /\ of("range") = OrNull(nums, Num(Greatest(nums) - Least(nums)))
             /\ of("percent_checked") = Share(checked, Len(values))
             /\ of("percent_unchecked") = Share(Len(values) - checked, Len(values))
             /\ of("percent_empty") = Share(Len(values) - Len(filled), Len(values))
             /\ of("percent_not_empty") = Share(Len(filled), Len(values))
BY DEF ComputeRollup

\* The numbers of a list of scalars, each from a place of its own.
LEMMA NumbersFrom ==
  ASSUME NEW values \in Seq(Scalars)
  PROVE  LET places == {i \in DOMAIN values : Is(values[i], "num")}
             nums == NumbersOf(values)
         IN  /\ nums \in Seq(Int)
             /\ \A k \in DOMAIN nums : Place(places, k) \in places /\ nums[k] = values[Place(places, k)].num
             /\ \A i \in places : \E k \in DOMAIN nums : Place(places, k) = i
<1> DEFINE places == {i \in DOMAIN values : Is(values[i], "num")}
           numeric == Picked(values, places)
           nums == [k \in DOMAIN numeric |-> numeric[k].num]
<1>1. NumbersOf(values) = nums
  BY DEF NumbersOf
<1>2. places \in SUBSET (DOMAIN values) /\ \A i \in places : values[i] \in Scalars /\ Is(values[i], "num")
  OBVIOUS
<1>3. \A i \in places : values[i].num \in Int
  <2>1. Printable \subseteq Int
    BY DEF Printable
  <2> QED
    BY <1>2, <2>1, ScalarShapes
<1> HIDE DEF places
<1>4. /\ numeric \in Seq(Scalars)
      /\ \A k \in 1 .. Len(numeric) : Place(places, k) \in places /\ numeric[k] = values[Place(places, k)]
      /\ \A i \in places : \E k \in 1 .. Len(numeric) : Place(places, k) = i
  BY <1>2, PickedOf
<1> HIDE DEF numeric
<1>5. DOMAIN numeric = 1 .. Len(numeric) /\ Len(numeric) \in Nat
  BY <1>4
<1>6. \A k \in DOMAIN numeric : numeric[k].num \in Int
  BY <1>3, <1>4, <1>5
<1>7. DOMAIN nums = DOMAIN numeric /\ nums \in Seq(Int)
  BY <1>5, <1>6
<1>8. \A k \in DOMAIN nums : Place(places, k) \in places /\ nums[k] = values[Place(places, k)].num
  BY <1>4, <1>5, <1>7
<1> QED
  BY <1>1, <1>4, <1>5, <1>7, <1>8 DEF places

\* The least, the greatest, the mean and the middle of numbers.
LEMMA Bounds ==
  ASSUME NEW nums \in Seq(Int), nums # <<>>
  PROVE  /\ Least(nums) \in ToSet(nums) /\ Greatest(nums) \in ToSet(nums)
         /\ Least(nums) \in Int /\ Greatest(nums) \in Int
         /\ Sum(nums) \div Len(nums) \in Least(nums) .. Greatest(nums)
         /\ Median(nums) \in Least(nums) .. Greatest(nums)
         /\ Cardinality({k \in DOMAIN nums : nums[k] < Median(nums)}) <= Len(nums) \div 2
<1> DEFINE S == ToSet(nums)
           L == Len(nums)
<1>1. L \in Nat \ {0} /\ DOMAIN nums = 1 .. L
  OBVIOUS
<1>2. S \in SUBSET Int
  BY Members
<1>3. S # {} /\ \A k \in DOMAIN nums : nums[k] \in S
  BY <1>1 DEF ToSet
<1>4. IsFiniteSet(S)
  <2>1. IsFiniteSet(DOMAIN nums)
    BY <1>1, FS_Interval
  <2>2. nums \in [DOMAIN nums -> S] /\ \A y \in S : \E k \in DOMAIN nums : nums[k] = y
    BY <1>1, <1>3 DEF ToSet
  <2> HIDE DEF S
  <2> QED
    BY <2>1, <2>2, Fewer
<1> HIDE DEF S
<1>5. /\ Least(nums) \in S /\ Greatest(nums) \in S
      /\ \A x \in S : Least(nums) <= x /\ x <= Greatest(nums)
  BY <1>2, <1>3, <1>4, Extremes DEF Least, Greatest, S
<1>6. Least(nums) \in Int /\ Greatest(nums) \in Int
  BY <1>2, <1>5
<1>7. \A k \in DOMAIN nums : Least(nums) <= nums[k] /\ nums[k] <= Greatest(nums)
  BY <1>3, <1>5
<1>8. Sum(nums) \in Int /\ L * Least(nums) <= Sum(nums) /\ Sum(nums) <= L * Greatest(nums)
  BY <1>6, <1>7, SumBetween
<1>9. Sum(nums) \div L \in Least(nums) .. Greatest(nums)
  BY <1>1, <1>6, <1>8, Quotients
<1>10. /\ Median(nums) \in Least(nums) .. Greatest(nums)
       /\ Cardinality({k \in DOMAIN nums : nums[k] < Median(nums)}) <= L \div 2
  BY <1>6, <1>7, MedianOf
<1> QED
  BY <1>5, <1>6, <1>9, <1>10 DEF S

\* Two shares that make up the whole.
LEMMA SharesAddUp ==
  ASSUME NEW whole \in Nat \ {0}, Unit % whole = 0, NEW part \in Int
  PROVE  Share(whole - part, whole).num + Share(part, whole).num = Unit
<1> DEFINE m == Unit \div whole
<1>1. m \in Int /\ Unit = whole * m
  BY DEF Unit
<1> HIDE DEF m
<1>2. ASSUME NEW x \in Int PROVE (x * Unit) \div whole = x * m
  <2>1. x * Unit = whole * (x * m) /\ x * m \in Int
    BY <1>1
  <2> QED
    BY <2>1, Quotients
<1>3. Share(part, whole).num = part * m /\ Share(whole - part, whole).num = (whole - part) * m
  BY <1>2 DEF Share, Num
<1>4. (whole - part) * m + part * m = whole * m
  BY <1>1
<1> QED
  BY <1>1, <1>3, <1>4

\* Values counted one by one: as many as are filled, different ones no more than that.
LEMMA CountsOf ==
  ASSUME NEW values \in Seq(Scalars)
  PROVE  LET filled == Picked(values, {i \in DOMAIN values : ~IsEmpty(values[i])})
         IN  /\ Len(filled) \in Nat /\ Sum([n \in DOMAIN filled |-> Len(Counted(filled[n]))]) = Len(filled)
             /\ Cardinality(UNION {ToSet(Counted(v)) : v \in ToSet(filled)}) \in Nat
             /\ Cardinality(UNION {ToSet(Counted(v)) : v \in ToSet(filled)}) <= Len(filled)
<1> DEFINE places == {i \in DOMAIN values : ~IsEmpty(values[i])}
           filled == Picked(values, places)
           ones == [n \in DOMAIN filled |-> Len(Counted(filled[n]))]
           F == ToSet(filled)
           L == Len(filled)
           some == UNION {ToSet(Counted(v)) : v \in F}
<1>1. places \in SUBSET (DOMAIN values)
  OBVIOUS
<1> HIDE DEF places
<1>2. filled \in Seq(Scalars)
  BY <1>1, PickedOf
<1> HIDE DEF filled
<1>3. L \in Nat /\ DOMAIN filled = 1 .. L /\ \A n \in 1 .. L : filled[n] \in Scalars
  BY <1>2
<1>4. ASSUME NEW v \in Scalars PROVE Counted(v) = <<v>> /\ Len(Counted(v)) = 1 /\ ToSet(Counted(v)) = {v}
  <2>1. Counted(v) = <<v>>
    BY ScalarShapes DEF Counted
  <2> QED
    BY <2>1 DEF ToSet
<1>5. ones \in Seq(Int) /\ Len(ones) = L /\ \A n \in DOMAIN ones : 1 <= ones[n] /\ ones[n] <= 1
  <2>1. \A n \in 1 .. L : Len(Counted(filled[n])) = 1
    BY <1>3, <1>4
  <2>2. ones = [n \in 1 .. L |-> 1]
    BY <1>3, <2>1
  <2> HIDE DEF ones
  <2> QED
    BY <1>3, <2>2
<1> HIDE DEF ones
<1>6. Sum(ones) = L
  <2>1. Sum(ones) \in Int /\ L * 1 <= Sum(ones) /\ Sum(ones) <= L * 1
    BY <1>5, SumBetween
  <2> QED
    BY <1>3, <2>1
<1>7. F \subseteq Scalars /\ \A y \in F : \E n \in 1 .. L : filled[n] = y
  BY <1>2, <1>3, Members DEF ToSet
<1>8. \A n \in 1 .. L : filled[n] \in F
  BY <1>3 DEF ToSet
<1>9. some = F
  <2> HIDE DEF F
  <2>1. \A v \in F : ToSet(Counted(v)) = {v}
    BY <1>4, <1>7
  <2> QED
    BY <2>1
<1>10. Cardinality(F) \in Nat /\ Cardinality(F) <= L
  <2>1. IsFiniteSet(1 .. L) /\ Cardinality(1 .. L) = L
    <3>1. L \in Nat
      BY <1>3
    <3> HIDE DEF L
    <3> QED
      BY <3>1, FS_Interval
  <2> DEFINE f == [n \in 1 .. L |-> filled[n]]
  <2>2. f \in [1 .. L -> F] /\ \A y \in F : \E n \in 1 .. L : f[n] = y
    BY <1>7, <1>8
  <2> HIDE DEF f, F
  <2> QED
    BY <2>1, <2>2, Fewer
<1> HIDE DEF F, L, some
<1>11. L \in Nat /\ Sum(ones) = L /\ Cardinality(some) \in Nat /\ Cardinality(some) <= L
  BY <1>3, <1>6, <1>9, <1>10
<1> QED
  BY <1>11 DEF L, some, F, ones, filled, places

\* As many places of a list are below a number as of its numbers are.
LEMMA BelowEither ==
  ASSUME NEW values \in Seq(Scalars), NEW m \in Int
  PROVE  LET nums == NumbersOf(values)
             some == {i \in DOMAIN values : Is(values[i], "num") /\ values[i].num < m}
             below == {k \in DOMAIN nums : nums[k] < m}
         IN  Cardinality(some) \in Nat /\ Cardinality(below) \in Nat /\ Cardinality(some) <= Cardinality(below)
<1> DEFINE nums == NumbersOf(values)
           places == {i \in DOMAIN values : Is(values[i], "num")}
           S == {k \in DOMAIN nums : nums[k] < m}
           T == {i \in DOMAIN values : Is(values[i], "num") /\ values[i].num < m}
           f == [k \in S |-> Place(places, k)]
<1>1. /\ nums \in Seq(Int)
      /\ \A k \in DOMAIN nums : Place(places, k) \in places /\ nums[k] = values[Place(places, k)].num
      /\ \A i \in places : \E k \in DOMAIN nums : Place(places, k) = i
  BY NumbersFrom
<1>2. IsFiniteSet(S)
  <2>1. IsFiniteSet(DOMAIN nums)
    BY <1>1, FS_Interval
  <2>2. S \in SUBSET (DOMAIN nums)
    OBVIOUS
  <2> HIDE DEF S, nums
  <2> QED
    BY <2>1, <2>2, FS_Subset
<1>3. T = {i \in places : values[i].num < m}
  OBVIOUS
<1> HIDE DEF places, nums
<1>4. f \in [S -> T]
  BY <1>1, <1>3
<1>5. ASSUME NEW i \in T PROVE \E k \in S : f[k] = i
  <2>1. i \in places /\ values[i].num < m
    BY <1>3
  <2>2. PICK k \in DOMAIN nums : Place(places, k) = i
    BY <1>1, <2>1
  <2>3. k \in S
    BY <1>1, <2>1, <2>2
  <2> QED
    BY <2>2, <2>3
<1> HIDE DEF S, T, f
<1>6. Cardinality(T) \in Nat /\ Cardinality(S) \in Nat /\ Cardinality(T) <= Cardinality(S)
  BY <1>2, <1>4, <1>5, Fewer
<1> QED
  BY <1>6 DEF T, S, nums

LEMMA Agree == Pieces => RollupsAgree
<1> SUFFICES ASSUME Pieces PROVE RollupsAgree
  OBVIOUS
<1> DEFINE of(aggregation) == ComputeRollup(aggregation, input, "number")
           nums == NumbersOf(input)
           filled == Picked(input, {i \in DOMAIN input : ~IsEmpty(input[i])})
           checked == Cardinality({i \in DOMAIN input : input[i] = Flag(TRUE)})
           total == Len(input)
           unique == Cardinality(UNION {ToSet(Counted(v)) : v \in ToSet(filled)})
<1>1. input \in Seq(Scalars)
  BY CellAssumption DEF Pieces
<1>2. \A x : Num(x).num = x
  BY DEF Num
<1>3. total \in Nat /\ (input # <<>> => total # 0)
  BY <1>1
<1>4. "number" \notin DateTypes
  BY DEF DateTypes
<1>5. /\ of("count") = Num(total * Unit)
      /\ of("count_values") = Num(Sum([n \in DOMAIN filled |-> Len(Counted(filled[n]))]) * Unit)
      /\ of("count_unique") = Num(unique * Unit)
      /\ of("count_empty") = Num((total - Len(filled)) * Unit)
      /\ of("count_not_empty") = Num(Len(filled) * Unit)
      /\ of("avg") = OrNull(nums, Num(Sum(nums) \div Len(nums)))
      /\ of("median") = OrNull(nums, Num(Median(nums)))
      /\ of("min") = OrNull(nums, Num(Least(nums)))
      /\ of("max") = OrNull(nums, Num(Greatest(nums)))
      /\ of("range") = OrNull(nums, Num(Greatest(nums) - Least(nums)))
      /\ of("percent_checked") = Share(checked, total)
      /\ of("percent_unchecked") = Share(total - checked, total)
      /\ of("percent_empty") = Share(total - Len(filled), total)
      /\ of("percent_not_empty") = Share(Len(filled), total)
  BY <1>4, RollupParts
<1>6. /\ Len(filled) \in Nat /\ Sum([n \in DOMAIN filled |-> Len(Counted(filled[n]))]) = Len(filled)
      /\ unique \in Nat /\ unique <= Len(filled)
  BY <1>1, CountsOf
<1>7. checked \in Nat
  <2>1. IsFiniteSet(DOMAIN input)
    BY <1>1, FS_Interval
  <2> DEFINE C == {i \in DOMAIN input : input[i] = Flag(TRUE)}
  <2>2. C \in SUBSET (DOMAIN input)
    OBVIOUS
  <2> HIDE DEF C
  <2>3. Cardinality(C) \in Nat
    BY <2>1, <2>2, FS_Subset, FS_CardinalityType
  <2> QED
    BY <2>3 DEF C
<1>8. /\ nums \in Seq(Int)
      /\ \A y \in ToSet(nums) : y \in {v.num : v \in {v \in ToSet(input) : Is(v, "num")}}
  <2> DEFINE places == {i \in DOMAIN input : Is(input[i], "num")}
  <2>1. /\ nums \in Seq(Int)
        /\ \A k \in DOMAIN nums : Place(places, k) \in places /\ nums[k] = input[Place(places, k)].num
    BY <1>1, NumbersFrom
  <2>2. \A i \in places : input[i] \in {v \in ToSet(input) : Is(v, "num")}
    BY DEF ToSet
  <2> HIDE DEF places, nums
  <2> QED
    BY <2>1, <2>2 DEF ToSet
<1> HIDE DEF of, nums, filled, checked, total, unique
<1>9. /\ of("count_empty").num + of("count_not_empty").num = of("count").num
      /\ of("count_unique").num <= of("count_values").num
  BY <1>2, <1>3, <1>5, <1>6 DEF Unit
<1>10. input # <<>> /\ Unit % total = 0 =>
         /\ of("percent_empty").num + of("percent_not_empty").num = Unit
         /\ of("percent_checked").num + of("percent_unchecked").num = Unit
  <2> SUFFICES ASSUME input # <<>>, Unit % total = 0
               PROVE  /\ of("percent_empty").num + of("percent_not_empty").num = Unit
                      /\ of("percent_checked").num + of("percent_unchecked").num = Unit
    OBVIOUS
  <2>1. total \in Nat \ {0}
    BY <1>3
  <2>2. of("percent_empty").num + of("percent_not_empty").num = Unit
    BY <1>5, <1>6, <2>1, SharesAddUp
  <2>3. of("percent_unchecked").num + of("percent_checked").num = Unit
    BY <1>5, <1>7, <2>1, SharesAddUp
  <2>4. of("percent_unchecked").num \in Int /\ of("percent_checked").num \in Int
    BY <1>2, <1>5, <1>7, <2>1 DEF Share, Unit
  <2> QED
    BY <2>2, <2>3, <2>4
<1>11. CASE nums = <<>>
  <2>1. \A a \in {"min", "max", "avg", "median", "range"} : of(a) = Null
    BY <1>5, <1>11 DEF OrNull
  <2>2. {of(a) : a \in {"min", "max", "avg", "median", "range"}} = {Null}
    BY <2>1
  <2> QED
    BY <1>9, <1>10, <1>11, <2>2 DEF RollupsAgree, of, nums, total
<1>12. CASE nums # <<>>
  <2>1. /\ of("avg").num = Sum(nums) \div Len(nums) /\ of("median").num = Median(nums)
        /\ of("min").num = Least(nums) /\ of("max").num = Greatest(nums)
        /\ of("range").num = Greatest(nums) - Least(nums)
    BY <1>2, <1>5, <1>12 DEF OrNull
  <2>2. /\ Least(nums) \in ToSet(nums) /\ Greatest(nums) \in ToSet(nums)
        /\ Sum(nums) \div Len(nums) \in Least(nums) .. Greatest(nums)
        /\ Median(nums) \in Least(nums) .. Greatest(nums) /\ Least(nums) \in Int
        /\ Cardinality({k \in DOMAIN nums : nums[k] < Median(nums)}) <= Len(nums) \div 2
    BY <1>8, <1>12, Bounds
  <2> DEFINE median == Median(nums)
  <2>6. median \in Int /\ Len(nums) \in Nat
    BY <1>8, <2>2
  <2>3. Cardinality({i \in DOMAIN input : Is(input[i], "num") /\ input[i].num < Median(nums)})
          <= Len(nums) \div 2
    <3> HIDE DEF median
    <3> DEFINE some == {i \in DOMAIN input : Is(input[i], "num") /\ input[i].num < median}
               below == {k \in DOMAIN nums : nums[k] < median}
    <3>1. Cardinality(some) \in Nat /\ Cardinality(below) \in Nat /\ Cardinality(some) <= Cardinality(below)
      BY <1>1, <2>6, BelowEither DEF nums
    <3>2. Cardinality(below) <= Len(nums) \div 2
      BY <2>2 DEF median
    <3> HIDE DEF some, below
    <3>3. Cardinality(some) <= Len(nums) \div 2
      BY <2>6, <3>1, <3>2
    <3> QED
      BY <3>3 DEF some, median
  <2>4. /\ {of("avg").num, of("median").num} \subseteq of("min").num .. of("max").num
        /\ of("range").num = of("max").num - of("min").num
        /\ {of("min").num, of("max").num} \subseteq {v.num : v \in {v \in ToSet(input) : Is(v, "num")}}
    BY <1>8, <2>1, <2>2
  <2>5. Cardinality({i \in DOMAIN input : Is(input[i], "num") /\ input[i].num < of("median").num})
          <= Len(nums) \div 2
    BY <2>1, <2>3
  <2> QED
    BY <1>9, <1>10, <1>12, <2>4, <2>5 DEF RollupsAgree, of, nums, total
<1> QED
  BY <1>11, <1>12

\* The rollups of a column agree with each other, whatever cells of however many linked
\* rows they are over: the mean and the median lie between the least and the greatest,
\* at most half the numbers are below the median, counts and shares add up (RollupsAgree).
THEOREM RollupsAlwaysAgree == CellSpec => []RollupsAgree
BY PiecesStay, Agree, PTL

-----------------------------------------------------------------------------
(* Texts in order. *)

\* Texts compare by the first character that differs, then by length.
Apart(a, b) == {i \in (DOMAIN a) \cap (DOMAIN b) : a[i] # b[i]}

\* Up to the first place where they differ two texts are the same.
LEMMA FirstApart ==
  ASSUME NEW a \in Seq(Int), NEW b \in Seq(Int), Apart(a, b) # {}
  PROVE  LET m == Min(Apart(a, b))
         IN  /\ m \in 1 .. Len(a) /\ m \in 1 .. Len(b) /\ a[m] # b[m]
             /\ \A i \in 1 .. m - 1 : a[i] = b[i]
<1> DEFINE S == Apart(a, b)
           m == Min(S)
<1>1. DOMAIN a = 1 .. Len(a) /\ DOMAIN b = 1 .. Len(b) /\ Len(a) \in Nat /\ Len(b) \in Nat
  OBVIOUS
<1>2. S \in SUBSET (1 .. Len(a)) /\ S \in SUBSET Int
  BY <1>1 DEF Apart
<1> HIDE DEF S
<1>3. IsFiniteSet(S)
  <2>1. IsFiniteSet(1 .. Len(a))
    BY <1>1, FS_Interval
  <2> QED
    BY <1>2, <2>1, FS_Subset
<1>4. m \in S /\ \A i \in S : m <= i
  BY <1>2, <1>3, Extremes DEF S
<1> HIDE DEF m
<1>5. m \in 1 .. Len(a) /\ m \in 1 .. Len(b) /\ a[m] # b[m]
  BY <1>1, <1>4 DEF S, Apart
<1>6. ASSUME NEW i \in 1 .. m - 1 PROVE a[i] = b[i]
  <2>1. i \in 1 .. Len(a) /\ i \in 1 .. Len(b) /\ ~(m <= i)
    BY <1>1, <1>5
  <2>2. i \notin S
    BY <1>4, <2>1
  <2> QED
    BY <1>1, <2>1, <2>2 DEF S, Apart
<1> QED
  BY <1>5, <1>6 DEF m, S

\* The sign of the comparison of two texts.
LEMMA LexicalSign ==
  ASSUME NEW a \in Seq(Int), NEW b \in Seq(Int)
  PROVE  /\ Lexical(a, b) \in Int
         /\ Lexical(a, b) < 0 <=> TextBefore(a, b)
         /\ Lexical(a, b) = 0 <=> a = b
<1> DEFINE S == Apart(a, b)
           m == Min(S)
<1>1. DOMAIN a = 1 .. Len(a) /\ DOMAIN b = 1 .. Len(b) /\ Len(a) \in Nat /\ Len(b) \in Nat
  OBVIOUS
<1>2. Lexical(a, b) = IF S = {} THEN Len(a) - Len(b) ELSE a[m] - b[m]
  BY DEF Lexical, Apart
<1>3. S # {} => m \in 1 .. Len(a) /\ m \in 1 .. Len(b) /\ a[m] # b[m] /\ \A i \in 1 .. m - 1 : a[i] = b[i]
  BY FirstApart
<1>4. ASSUME S = {}, NEW i \in 1 .. Len(a), i <= Len(b) PROVE a[i] = b[i]
  <2>1. i \notin S
    BY <1>4
  <2>2. i \in DOMAIN a /\ i \in DOMAIN b
    BY <1>1, <1>4
  <2> QED
    BY <2>1, <2>2 DEF Apart
<1> HIDE DEF S, m
<1>5. \A i \in 1 .. Len(a) : a[i] \in Int
  OBVIOUS
<1>6. \A i \in 1 .. Len(b) : b[i] \in Int
  OBVIOUS
<1>7. CASE S = {}
  <2>1. ASSUME Len(a) < Len(b) PROVE TextBefore(a, b)
    <3>1. Len(a) \in 0 .. Len(a) /\ Len(a) <= Len(b) /\ \A i \in 1 .. Len(a) : a[i] = b[i]
      BY <1>1, <1>4, <1>7, <2>1
    <3> QED
      BY <1>1, <2>1, <3>1 DEF TextBefore
  <2>2. ASSUME TextBefore(a, b) PROVE Len(a) < Len(b)
    <3>1. PICK n \in 0 .. Len(a) : n < Len(b) /\ (n < Len(a) => a[n + 1] < b[n + 1])
      BY <2>2 DEF TextBefore
    <3>2. ASSUME n < Len(a) PROVE FALSE
      <4>1. n + 1 \in 1 .. Len(a) /\ n + 1 <= Len(b) /\ n + 1 \in 1 .. Len(b)
        BY <1>1, <3>1, <3>2
      <4>2. a[n + 1] = b[n + 1] /\ a[n + 1] \in Int
        BY <1>4, <1>5, <1>7, <4>1
      <4> QED
        BY <3>1, <3>2, <4>2
    <3> QED
      BY <1>1, <3>1, <3>2
  <2>3. Len(a) = Len(b) => a = b
    <3> SUFFICES ASSUME Len(a) = Len(b) PROVE a = b
      OBVIOUS
    <3>1. a = [i \in 1 .. Len(a) |-> a[i]] /\ b = [i \in 1 .. Len(b) |-> b[i]]
      OBVIOUS
    <3>2. \A i \in 1 .. Len(a) : a[i] = b[i]
      BY <1>1, <1>4, <1>7
    <3> QED
      BY <3>1, <3>2
  <2>4. Lexical(a, b) = Len(a) - Len(b) /\ (a = b => Len(a) = Len(b))
    BY <1>2, <1>7
  <2>5. /\ Lexical(a, b) \in Int
        /\ Lexical(a, b) < 0 <=> Len(a) < Len(b)
        /\ Lexical(a, b) = 0 <=> Len(a) = Len(b)
    <3> DEFINE la == Len(a)
               lb == Len(b)
    <3>1. la \in Int /\ lb \in Int
      BY <1>1
    <3>2. Lexical(a, b) = la - lb
      BY <2>4
    <3> HIDE DEF la, lb
    <3>3. Lexical(a, b) \in Int /\ (Lexical(a, b) < 0 <=> la < lb) /\ (Lexical(a, b) = 0 <=> la = lb)
      BY <3>1, <3>2
    <3> QED
      BY <3>3 DEF la, lb
  <2> QED
    BY <2>1, <2>2, <2>3, <2>4, <2>5
<1>8. CASE S # {}
  <2>1. a[m] \in Int /\ b[m] \in Int /\ a[m] # b[m] /\ a # b
    BY <1>3, <1>5, <1>6, <1>8
  <2>2. ASSUME a[m] < b[m] PROVE TextBefore(a, b)
    <3> DEFINE n == m - 1
    <3>1. n \in 0 .. Len(a) /\ n <= Len(b) /\ n < Len(b) /\ n + 1 = m /\ \A i \in 1 .. n : a[i] = b[i]
      BY <1>1, <1>3, <1>8
    <3> HIDE DEF n
    <3> QED
      BY <2>2, <3>1 DEF TextBefore
  <2>3. ASSUME TextBefore(a, b) PROVE a[m] < b[m]
    <3>1. PICK n \in 0 .. Len(a) : /\ n <= Len(b) /\ \A i \in 1 .. n : a[i] = b[i]
                                   /\ n < Len(b) /\ (n < Len(a) => a[n + 1] < b[n + 1])
      BY <2>3 DEF TextBefore
    <3>2. n < m
      <4>1. ~(m \in 1 .. n)
        BY <2>1, <3>1
      <4> QED
        BY <1>1, <1>3, <1>8, <3>1, <4>1
    <3>3. n < Len(a) /\ n + 1 \in 1 .. Len(a) /\ n + 1 \in 1 .. Len(b)
      BY <1>1, <1>3, <1>8, <3>1, <3>2
    <3>4. a[n + 1] < b[n + 1] /\ a[n + 1] \in Int /\ b[n + 1] \in Int
      BY <1>5, <1>6, <3>1, <3>3
    <3>5. ~(n + 1 \in 1 .. m - 1)
      BY <1>3, <1>8, <3>4
    <3>6. n + 1 = m
      BY <1>1, <1>3, <1>8, <3>1, <3>2, <3>5
    <3> QED
      BY <3>4, <3>6
  <2> QED
    BY <1>2, <1>8, <2>1, <2>2, <2>3
<1> QED
  BY <1>7, <1>8

\* Texts come one before the other in one line.
LEMMA TextsInOrder ==
  ASSUME NEW a \in Seq(Int), NEW b \in Seq(Int), NEW c \in Seq(Int), TextBefore(a, b), TextBefore(b, c)
  PROVE  TextBefore(a, c)
<1>1. Len(a) \in Nat /\ Len(b) \in Nat /\ Len(c) \in Nat
  OBVIOUS
<1>2. PICK n \in 0 .. Len(a) : /\ n <= Len(b) /\ \A i \in 1 .. n : a[i] = b[i]
                               /\ n < Len(b) /\ (n < Len(a) => a[n + 1] < b[n + 1])
  BY DEF TextBefore
<1>3. PICK k \in 0 .. Len(b) : /\ k <= Len(c) /\ \A i \in 1 .. k : b[i] = c[i]
                               /\ k < Len(c) /\ (k < Len(b) => b[k + 1] < c[k + 1])
  BY DEF TextBefore
<1>4. CASE n < k
  <2>1. n \in 0 .. Len(a) /\ n <= Len(c) /\ n < Len(c) /\ n + 1 \in 1 .. k
    BY <1>1, <1>2, <1>3, <1>4
  <2>2. \A i \in 1 .. n : i \in 1 .. k
    BY <1>2, <1>3, <1>4
  <2>3. \A i \in 1 .. n : a[i] = c[i]
    BY <1>2, <1>3, <2>2
  <2>4. n < Len(a) => a[n + 1] < c[n + 1]
    BY <1>2, <1>3, <2>1
  <2> QED
    BY <2>1, <2>3, <2>4 DEF TextBefore
<1>5. CASE k < n
  <2>1. k \in 0 .. Len(a) /\ k < Len(b) /\ k + 1 \in 1 .. n
    BY <1>1, <1>2, <1>3, <1>5
  <2>2. \A i \in 1 .. k : i \in 1 .. n
    BY <1>2, <1>3, <1>5
  <2>3. \A i \in 1 .. k : a[i] = c[i]
    BY <1>2, <1>3, <2>2
  <2>4. a[k + 1] < c[k + 1]
    BY <1>2, <1>3, <2>1
  <2> QED
    BY <1>3, <2>1, <2>3, <2>4 DEF TextBefore
<1>6. CASE k = n
  <2>1. \A i \in 1 .. n : a[i] = c[i]
    BY <1>2, <1>3, <1>6
  <2>2. ASSUME n < Len(a) PROVE a[n + 1] < c[n + 1]
    <3>1. n + 1 \in 1 .. Len(a) /\ n + 1 \in 1 .. Len(b) /\ n + 1 \in 1 .. Len(c)
      BY <1>1, <1>2, <1>3, <1>6, <2>2
    <3>2. a[n + 1] \in Int /\ b[n + 1] \in Int /\ c[n + 1] \in Int
      BY <3>1
    <3> QED
      BY <1>2, <1>3, <1>6, <2>2, <3>2
  <2> QED
    BY <1>2, <1>3, <1>6, <2>1, <2>2 DEF TextBefore
<1> QED
  BY <1>1, <1>2, <1>3, <1>4, <1>5, <1>6

\* The comparison seen from the other text.
LEMMA LexicalTurned ==
  ASSUME NEW a \in Seq(Int), NEW b \in Seq(Int)
  PROVE  Lexical(b, a) = -Lexical(a, b)
<1> DEFINE S == Apart(a, b)
           m == Min(S)
<1>1. DOMAIN a = 1 .. Len(a) /\ DOMAIN b = 1 .. Len(b)
  OBVIOUS
<1>2. Apart(b, a) = S
  BY DEF Apart
<1>3. Lexical(a, b) = (IF S = {} THEN Len(a) - Len(b) ELSE a[m] - b[m])
  BY DEF Lexical, Apart
<1>4. Lexical(b, a) = (IF Apart(b, a) = {} THEN Len(b) - Len(a) ELSE b[Min(Apart(b, a))] - a[Min(Apart(b, a))])
  BY DEF Lexical, Apart
<1>5. Lexical(b, a) = (IF S = {} THEN Len(b) - Len(a) ELSE b[m] - a[m])
  BY <1>2, <1>4
<1>6. S # {} => m \in 1 .. Len(a) /\ m \in 1 .. Len(b)
  BY FirstApart
<1> HIDE DEF S, m
<1>7. CASE S = {}
  <2>1. Len(a) \in Int /\ Len(b) \in Int
    OBVIOUS
  <2>2. Lexical(a, b) = Len(a) - Len(b) /\ Lexical(b, a) = Len(b) - Len(a)
    BY <1>3, <1>5, <1>7
  <2> QED
    BY <2>1, <2>2
<1>8. CASE S # {}
  <2>1. a[m] \in Int /\ b[m] \in Int
    BY <1>6, <1>8
  <2>2. Lexical(a, b) = a[m] - b[m] /\ Lexical(b, a) = b[m] - a[m]
    BY <1>3, <1>5, <1>8
  <2> QED
    BY <2>1, <2>2
<1> QED
  BY <1>7, <1>8

\* Of two texts neither comes first when they are the same; otherwise one does.
LEMMA TextsCompared ==
  ASSUME NEW a \in Seq(Int), NEW b \in Seq(Int)
  PROVE  /\ Lexical(a, b) \in Int
         /\ Lexical(a, b) < 0 <=> TextBefore(a, b)
         /\ Lexical(a, b) > 0 <=> TextBefore(b, a)
         /\ a = b \/ TextBefore(a, b) \/ TextBefore(b, a)
         /\ ~TextBefore(a, a)
<1>1. /\ Lexical(a, b) \in Int
      /\ Lexical(a, b) < 0 <=> TextBefore(a, b)
      /\ Lexical(a, b) = 0 <=> a = b
  BY LexicalSign
<1>2. Lexical(b, a) < 0 <=> TextBefore(b, a)
  BY LexicalSign
<1>3. Lexical(b, a) = -Lexical(a, b)
  BY LexicalTurned
<1>4. Lexical(a, a) = 0 /\ (Lexical(a, a) < 0 <=> TextBefore(a, a))
  BY LexicalSign
<1>5. Lexical(a, b) > 0 <=> Lexical(b, a) < 0
  <2> DEFINE x == Lexical(a, b)
             y == Lexical(b, a)
  <2>1. x \in Int /\ y = -x
    BY <1>1, <1>3
  <2> HIDE DEF x, y
  <2>2. x > 0 <=> y < 0
    BY <2>1
  <2> QED
    BY <2>2 DEF x, y
<1>6. ~TextBefore(a, a)
  BY <1>4
<1>7. Lexical(a, b) < 0 \/ Lexical(a, b) = 0 \/ Lexical(a, b) > 0
  BY <1>1
<1> QED
  BY <1>1, <1>2, <1>5, <1>6, <1>7

\* A text without capitals is a text.
LEMMA LowersText ==
  ASSUME NEW s \in Seq(Int) PROVE LowerCase(s) \in Seq(Int)
<1>1. DOMAIN s = 1 .. Len(s) /\ Len(s) \in Nat /\ \A i \in 1 .. Len(s) : s[i] \in Int
  OBVIOUS
<1>2. LowerCase(s) = [i \in 1 .. Len(s) |-> IF s[i] \in 27..52 THEN s[i] - 26 ELSE s[i]]
  BY <1>1 DEF LowerCase
<1>3. \A i \in 1 .. Len(s) : (IF s[i] \in 27..52 THEN s[i] - 26 ELSE s[i]) \in Int
  BY <1>1
<1>4. LowerCase(s) \in [1 .. Len(s) -> Int]
  BY <1>2, <1>3
<1> QED
  BY <1>1, <1>4

-----------------------------------------------------------------------------
(* Comparisons. *)

\* The sign of a comparison says which of two goes first, the same way round from either
\* side, and does not go in circles.
Coherent(X, c) ==
  /\ \A x, y \in X : c[<<x, y>>] \in Int
  /\ \A x, y \in X : c[<<x, y>>] > 0 <=> c[<<y, x>>] < 0
  /\ \A x, y, z \in X : c[<<x, y>>] <= 0 /\ c[<<y, z>>] <= 0 => c[<<x, z>>] <= 0

Chained(c, x, y, z) ==
  /\ c[<<x, y>>] = 0 <=> c[<<y, x>>] = 0
  /\ c[<<x, x>>] = 0
  /\ c[<<x, y>>] = 0 /\ c[<<y, z>>] = 0 => c[<<x, z>>] = 0
  /\ c[<<x, y>>] < 0 /\ c[<<y, z>>] <= 0 => c[<<x, z>>] < 0
  /\ c[<<x, y>>] <= 0 /\ c[<<y, z>>] < 0 => c[<<x, z>>] < 0

\* What follows from a comparison being coherent, of any three.
LEMMA Chains ==
  ASSUME NEW X, NEW c, Coherent(X, c), NEW x \in X, NEW y \in X, NEW z \in X
  PROVE  Chained(c, x, y, z)
<1> DEFINE xx == c[<<x, x>>]
           xy == c[<<x, y>>]
           yx == c[<<y, x>>]
           yz == c[<<y, z>>]
           zy == c[<<z, y>>]
           xz == c[<<x, z>>]
           zx == c[<<z, x>>]
<1>1. xx \in Int /\ xy \in Int /\ yx \in Int /\ yz \in Int /\ zy \in Int /\ xz \in Int /\ zx \in Int
  BY DEF Coherent
<1>2. /\ xy > 0 <=> yx < 0
      /\ yx > 0 <=> xy < 0
      /\ yz > 0 <=> zy < 0
      /\ zy > 0 <=> yz < 0
      /\ xz > 0 <=> zx < 0
      /\ zx > 0 <=> xz < 0
      /\ xx > 0 <=> xx < 0
  BY DEF Coherent
<1>3. /\ xy <= 0 /\ yz <= 0 => xz <= 0
      /\ zx <= 0 /\ xy <= 0 => zy <= 0
      /\ yz <= 0 /\ zx <= 0 => yx <= 0
      /\ zy <= 0 /\ yx <= 0 => zx <= 0
  BY DEF Coherent
<1> HIDE DEF xx, xy, yx, yz, zy, xz, zx
<1>4. /\ xy = 0 <=> yx = 0
      /\ xx = 0
      /\ xy = 0 /\ yz = 0 => xz = 0
      /\ xy < 0 /\ yz <= 0 => xz < 0
      /\ xy <= 0 /\ yz < 0 => xz < 0
  BY <1>1, <1>2, <1>3
<1> QED
  BY <1>4 DEF Chained, xx, xy, yx, yz, zy, xz, zx

\* The options of a column are texts.
Options(p) == Is(p.config, "options") => p.config.options \in Seq([text : Seq(Nat)])

\* An option has a place among the options.
LEMMA PositionOf ==
  ASSUME NEW p, Options(p), NEW v \in OptionIds(p.config)
  PROVE  Position(p.config.options, v) \in Int
<1>1. Is(p.config, "options") /\ v \in ToSet(p.config.options)
  BY DEF OptionIds
<1>2. DOMAIN p.config.options \in SUBSET Int
  BY <1>1 DEF Options
<1>3. \E i \in DOMAIN p.config.options : p.config.options[i] = v
  BY <1>1 DEF ToSet
<1>4. Position(p.config.options, v) \in DOMAIN p.config.options
  BY <1>3 DEF Position
<1> QED
  BY <1>2, <1>4

\* The differences of three numbers.
LEMMA Differences ==
  ASSUME NEW a \in Int, NEW b \in Int, NEW c \in Int
  PROVE  /\ a - b \in Int /\ (a - b < 0 <=> a < b) /\ (a - b > 0 <=> b < a)
         /\ ~(b < a) /\ ~(c < b) => ~(c < a)
  OBVIOUS

\* How the typed comparison of filled cells is the order of the column.
Compared(p, v, w, u) ==
  /\ CompareTyped(p, v, w) \in Int
  /\ CompareTyped(p, v, w) < 0 <=> Below(p, v, w)
  /\ CompareTyped(p, v, w) > 0 <=> Below(p, w, v)
  /\ ~Below(p, w, v) /\ ~Below(p, u, w) => ~Below(p, u, v)

\* Numbers, flags, dates, choices and texts: each column compares by its own order.
LEMMA TypedCompared ==
  ASSUME NEW p, Options(p), NEW v, NEW w, NEW u, Comparable(p, v), Comparable(p, w), Comparable(p, u)
  PROVE  Compared(p, v, w, u)
<1>1. CASE p.type = "number"
  <2>1. v.num \in Int /\ w.num \in Int /\ u.num \in Int /\ Is(v, "num") /\ Is(w, "num")
    BY <1>1 DEF Comparable
  <2>2. CompareTyped(p, v, w) = v.num - w.num
    BY <1>1, <2>1 DEF CompareTyped
  <2>3. /\ Below(p, v, w) <=> v.num < w.num
        /\ Below(p, w, v) <=> w.num < v.num
        /\ Below(p, u, w) <=> u.num < w.num
        /\ Below(p, u, v) <=> u.num < v.num
    BY <1>1 DEF Below
  <2> QED
    BY <2>1, <2>2, <2>3, Differences DEF Compared
<1>2. CASE p.type = "checkbox"
  <2> DEFINE b(e) == IF e = Flag(TRUE) THEN 1 ELSE 0
  <2>1. b(v) \in Int /\ b(w) \in Int /\ b(u) \in Int
    OBVIOUS
  <2>2. CompareTyped(p, v, w) = b(v) - b(w)
    BY <1>2 DEF CompareTyped, Bit
  <2>3. \A d, e : d # Flag(TRUE) /\ e = Flag(TRUE) <=> b(d) < b(e)
    <3> SUFFICES ASSUME NEW d, NEW e PROVE d # Flag(TRUE) /\ e = Flag(TRUE) <=> b(d) < b(e)
      OBVIOUS
    <3>1. (d = Flag(TRUE) => b(d) = 1) /\ (d # Flag(TRUE) => b(d) = 0)
      OBVIOUS
    <3>2. (e = Flag(TRUE) => b(e) = 1) /\ (e # Flag(TRUE) => b(e) = 0)
      OBVIOUS
    <3> DEFINE t == Flag(TRUE)
    <3>3. (d = t => b(d) = 1) /\ (d # t => b(d) = 0) /\ (e = t => b(e) = 1) /\ (e # t => b(e) = 0)
      BY <3>1, <3>2
    <3> HIDE DEF b, t
    <3>4. d # t /\ e = t <=> b(d) < b(e)
      BY <3>3
    <3> QED
      BY <3>4 DEF t
  <2> HIDE DEF b
  <2>4. /\ Below(p, v, w) <=> b(v) < b(w)
        /\ Below(p, w, v) <=> b(w) < b(v)
        /\ Below(p, u, w) <=> b(u) < b(w)
        /\ Below(p, u, v) <=> b(u) < b(v)
    BY <1>2, <2>3 DEF Below
  <2> QED
    BY <2>1, <2>2, <2>4, Differences DEF Compared
<1>3. CASE p.type \in DateTypes
  <2>1. /\ DateMs(v) \in Int /\ DateMs(w) \in Int /\ DateMs(u) \in Int
        /\ NotADate \notin {DateMs(v), DateMs(w)}
    BY <1>3 DEF Comparable
  <2>2. p.type # "number" /\ p.type # "checkbox"
    BY <1>3 DEF DateTypes
  <2>3. CompareTyped(p, v, w) = DateMs(v) - DateMs(w)
    BY <1>3, <2>1, <2>2 DEF CompareTyped
  <2>4. /\ Below(p, v, w) <=> DateMs(v) < DateMs(w)
        /\ Below(p, w, v) <=> DateMs(w) < DateMs(v)
        /\ Below(p, u, w) <=> DateMs(u) < DateMs(w)
        /\ Below(p, u, v) <=> DateMs(u) < DateMs(v)
    BY <1>3, <2>2 DEF Below
  <2> QED
    BY <2>1, <2>3, <2>4, Differences DEF Compared
<1>4. CASE p.type \in SelectTypes
  <2> DEFINE place(e) == Position(p.config.options, e)
  <2>1. v \in OptionIds(p.config) /\ w \in OptionIds(p.config) /\ u \in OptionIds(p.config)
    BY <1>4 DEF Comparable
  <2>2. place(v) \in Int /\ place(w) \in Int /\ place(u) \in Int
    BY <2>1, PositionOf
  <2>3. p.type # "number" /\ p.type # "checkbox" /\ p.type \notin DateTypes
    BY <1>4 DEF SelectTypes, DateTypes
  <2>4. {v, w} \subseteq OptionIds(p.config)
    BY <2>1
  <2>5. CompareTyped(p, v, w) = place(v) - place(w)
    BY <1>4, <2>3, <2>4 DEF CompareTyped
  <2>6. /\ Below(p, v, w) <=> place(v) < place(w)
        /\ Below(p, w, v) <=> place(w) < place(v)
        /\ Below(p, u, w) <=> place(u) < place(w)
        /\ Below(p, u, v) <=> place(u) < place(v)
    BY <1>4, <2>3 DEF Below
  <2> HIDE DEF place
  <2> QED
    BY <2>2, <2>5, <2>6, Differences DEF Compared
<1>5. CASE p.type \notin {"number", "checkbox"} \cup DateTypes \cup SelectTypes
  <2>1. SortText(v) \in Seq(Int) /\ SortText(w) \in Seq(Int) /\ SortText(u) \in Seq(Int)
    BY <1>5 DEF Comparable
  <2>2. Folded(v) \in Seq(Int) /\ Folded(w) \in Seq(Int) /\ Folded(u) \in Seq(Int)
    BY <2>1, LowersText DEF Folded
  <2>3. p.type # "number" /\ p.type # "checkbox" /\ p.type \notin DateTypes /\ p.type \notin SelectTypes
    BY <1>5
  <2>4. CompareTyped(p, v, w) = Lexical(Folded(v), Folded(w))
    BY <2>3 DEF CompareTyped, Collate, Folded
  <2>5. /\ Below(p, v, w) <=> TextBefore(Folded(v), Folded(w))
        /\ Below(p, w, v) <=> TextBefore(Folded(w), Folded(v))
        /\ Below(p, u, w) <=> TextBefore(Folded(u), Folded(w))
        /\ Below(p, u, v) <=> TextBefore(Folded(u), Folded(v))
    BY <2>3 DEF Below
  <2>6. ASSUME NEW a \in Seq(Int), NEW b \in Seq(Int), NEW c \in Seq(Int),
               TextBefore(c, a), ~TextBefore(b, a)
        PROVE  TextBefore(c, b)
    <3>1. a = b \/ TextBefore(a, b)
      BY <2>6, TextsCompared
    <3> QED
      BY <2>6, <3>1, TextsInOrder
  <2>7. /\ Lexical(Folded(v), Folded(w)) \in Int
        /\ Lexical(Folded(v), Folded(w)) < 0 <=> TextBefore(Folded(v), Folded(w))
        /\ Lexical(Folded(v), Folded(w)) > 0 <=> TextBefore(Folded(w), Folded(v))
    BY <2>2, TextsCompared
  <2>8. ~TextBefore(Folded(w), Folded(v)) /\ ~TextBefore(Folded(u), Folded(w)) => ~TextBefore(Folded(u), Folded(v))
    BY <2>2, <2>6
  <2> QED
    BY <2>4, <2>5, <2>7, <2>8 DEF Compared
<1> QED
  BY <1>1, <1>2, <1>3, <1>4, <1>5

\* The sign of one key, the empties last in both directions.
LEMMA KeyCompared ==
  ASSUME NEW p, Options(p), NEW sort, sort.direction \in {"asc", "desc"}, NEW v, NEW w,
         IsEmpty(v) \/ Comparable(p, v), IsEmpty(w) \/ Comparable(p, w)
  PROVE  /\ CompareKey(sort, p, v, w) \in Int
         /\ CompareKey(sort, p, v, w) < 0 <=> AheadOn(p, sort.direction, v, w)
         /\ CompareKey(sort, p, v, w) > 0 <=> AheadOn(p, sort.direction, w, v)
         /\ CompareKey(sort, p, v, w) = 0 <=> TiedOn(p, v, w)
<1>1. CASE IsEmpty(v) /\ IsEmpty(w)
  <2>1. CompareKey(sort, p, v, w) = 0
    BY <1>1 DEF CompareKey
  <2> QED
    BY <1>1, <2>1 DEF AheadOn, TiedOn
<1>2. CASE IsEmpty(v) /\ ~IsEmpty(w)
  <2>1. CompareKey(sort, p, v, w) = 1
    BY <1>2 DEF CompareKey
  <2> QED
    BY <1>2, <2>1 DEF AheadOn, TiedOn
<1>3. CASE ~IsEmpty(v) /\ IsEmpty(w)
  <2>1. CompareKey(sort, p, v, w) = -1
    BY <1>3 DEF CompareKey
  <2> QED
    BY <1>3, <2>1 DEF AheadOn, TiedOn
<1>4. CASE ~IsEmpty(v) /\ ~IsEmpty(w)
  <2> DEFINE t == CompareTyped(p, v, w)
             k == CompareKey(sort, p, v, w)
  <2>1. Compared(p, v, w, w)
    BY <1>4, TypedCompared
  <2>2. t \in Int /\ (t < 0 <=> Below(p, v, w)) /\ (t > 0 <=> Below(p, w, v))
    BY <2>1 DEF Compared
  <2>3. TiedOn(p, v, w) <=> ~Below(p, v, w) /\ ~Below(p, w, v)
    BY <1>4 DEF TiedOn, AheadOn
  <2>4. CASE sort.direction = "asc"
    <3>1. /\ AheadOn(p, sort.direction, v, w) <=> Below(p, v, w)
          /\ AheadOn(p, sort.direction, w, v) <=> Below(p, w, v)
      BY <1>4, <2>4 DEF AheadOn
    <3>2. k = t
      BY <1>4, <2>4 DEF CompareKey
    <3> HIDE DEF t, k
    <3>3. k \in Int /\ (k < 0 <=> t < 0) /\ (k > 0 <=> t > 0) /\ (k = 0 <=> ~(t < 0) /\ ~(t > 0))
      BY <2>2, <3>2
    <3> QED
      BY <2>2, <2>3, <3>1, <3>3 DEF k
  <2>5. CASE sort.direction = "desc"
    <3>1. /\ AheadOn(p, sort.direction, v, w) <=> Below(p, w, v)
          /\ AheadOn(p, sort.direction, w, v) <=> Below(p, v, w)
      BY <1>4, <2>5 DEF AheadOn
    <3>2. k = -t
      BY <1>4, <2>5 DEF CompareKey
    <3> HIDE DEF t, k
    <3>3. k \in Int /\ (k < 0 <=> t > 0) /\ (k > 0 <=> t < 0) /\ (k = 0 <=> ~(t < 0) /\ ~(t > 0))
      BY <2>2, <3>2
    <3> QED
      BY <2>2, <2>3, <3>1, <3>3 DEF k
  <2> QED
    BY <2>4, <2>5
<1> QED
  BY <1>1, <1>2, <1>3, <1>4

\* One key does not go in circles, empties and all.
LEMMA KeyChains ==
  ASSUME NEW p, Options(p), NEW direction \in {"asc", "desc"}, NEW v, NEW w, NEW u,
         IsEmpty(v) \/ Comparable(p, v), IsEmpty(w) \/ Comparable(p, w), IsEmpty(u) \/ Comparable(p, u),
         ~AheadOn(p, direction, w, v), ~AheadOn(p, direction, u, w)
  PROVE  ~AheadOn(p, direction, u, v)
<1>1. CASE IsEmpty(u)
  BY <1>1 DEF AheadOn
<1>2. CASE ~IsEmpty(u)
  <2>1. ~IsEmpty(w)
    BY <1>2 DEF AheadOn
  <2>2. ~IsEmpty(v)
    BY <2>1 DEF AheadOn
  <2>3. Compared(p, v, w, u) /\ Compared(p, u, w, v)
    BY <1>2, <2>1, <2>2, TypedCompared
  <2>4. CASE direction = "asc"
    <3>1. ~Below(p, w, v) /\ ~Below(p, u, w)
      BY <1>2, <2>1, <2>2, <2>4 DEF AheadOn
    <3> QED
      BY <1>2, <2>2, <2>3, <2>4, <3>1 DEF AheadOn, Compared
  <2>5. CASE direction = "desc"
    <3>1. ~Below(p, v, w) /\ ~Below(p, w, u)
      BY <1>2, <2>1, <2>2, <2>5 DEF AheadOn
    <3> QED
      BY <1>2, <2>2, <2>3, <2>5, <3>1 DEF AheadOn, Compared
  <2> QED
    BY <2>4, <2>5
<1> QED
  BY <1>1, <1>2

\* One key compares the rows of X, by the cell each has.
KeySigns(X, sort, p, cell) == [q \in X \X X |-> CompareKey(sort, p, cell[q[1]], cell[q[2]])]

\* One key, as a comparison of rows.
LEMMA KeyIsCoherent ==
  ASSUME NEW p, Options(p), NEW sort, sort.direction \in {"asc", "desc"}, NEW X, NEW cell,
         \A x \in X : IsEmpty(cell[x]) \/ Comparable(p, cell[x])
  PROVE  Coherent(X, KeySigns(X, sort, p, cell))
<1> DEFINE c == KeySigns(X, sort, p, cell)
<1>1. \A x, y \in X : c[<<x, y>>] = CompareKey(sort, p, cell[x], cell[y])
  BY DEF KeySigns
<1>2. ASSUME NEW x \in X, NEW y \in X
      PROVE  /\ c[<<x, y>>] \in Int
             /\ c[<<x, y>>] < 0 <=> AheadOn(p, sort.direction, cell[x], cell[y])
             /\ c[<<x, y>>] > 0 <=> AheadOn(p, sort.direction, cell[y], cell[x])
  <2>1. c[<<x, y>>] = CompareKey(sort, p, cell[x], cell[y])
    BY <1>1
  <2> HIDE DEF c
  <2>2. IsEmpty(cell[x]) \/ Comparable(p, cell[x])
    OBVIOUS
  <2>3. IsEmpty(cell[y]) \/ Comparable(p, cell[y])
    OBVIOUS
  <2> QED
    BY <2>1, <2>2, <2>3, KeyCompared
<1> HIDE DEF c
<1>3. \A x, y \in X : c[<<x, y>>] <= 0 <=> ~AheadOn(p, sort.direction, cell[y], cell[x])
  <2> TAKE x, y \in X
  <2>1. c[<<x, y>>] \in Int /\ (c[<<x, y>>] > 0 <=> AheadOn(p, sort.direction, cell[y], cell[x]))
    BY <1>2
  <2> QED
    BY <2>1
<1>4. ASSUME NEW x \in X, NEW y \in X, NEW z \in X, c[<<x, y>>] <= 0, c[<<y, z>>] <= 0
      PROVE  c[<<x, z>>] <= 0
  <2>1. ~AheadOn(p, sort.direction, cell[y], cell[x]) /\ ~AheadOn(p, sort.direction, cell[z], cell[y])
    BY <1>3, <1>4
  <2>2. ~AheadOn(p, sort.direction, cell[z], cell[x])
    BY <2>1, KeyChains
  <2> QED
    BY <1>3, <2>2
<1> QED
  BY <1>2, <1>4 DEF Coherent, c

\* Keys c[1], ..., c[m] compare a pair q: all tie, or the k-th is the first that does not.
Ties(c, m, q) == \A k \in 1 .. m : c[k][q] = 0
Leads(c, m, q, k) == k \in 1 .. m /\ c[k][q] # 0 /\ \A l \in 1 .. k - 1 : c[l][q] = 0
FirstSign(c, m, q) ==
  LET apart == {k \in 1 .. m : c[k][q] # 0} IN IF apart = {} THEN 0 ELSE c[Min(apart)][q]

\* What the keys in turn come to.
LEMMA FirstSignOf ==
  ASSUME NEW m \in Nat, NEW c, NEW q
  PROVE  \/ Ties(c, m, q) /\ FirstSign(c, m, q) = 0
         \/ \E k \in 1 .. m : Leads(c, m, q, k) /\ FirstSign(c, m, q) = c[k][q]
<1> DEFINE S == {k \in 1 .. m : c[k][q] # 0}
           n == Min(S)
<1>1. FirstSign(c, m, q) = (IF S = {} THEN 0 ELSE c[n][q])
  BY DEF FirstSign
<1>2. S \in SUBSET (1 .. m) /\ S \in SUBSET Int /\ \A k \in 1 .. m : k \in S <=> c[k][q] # 0
  OBVIOUS
<1> HIDE DEF S, n
<1>3. IsFiniteSet(S)
  <2>1. IsFiniteSet(1 .. m)
    BY FS_Interval
  <2> QED
    BY <1>2, <2>1, FS_Subset
<1>4. CASE S = {}
  BY <1>1, <1>2, <1>4 DEF Ties
<1>5. CASE S # {}
  <2>1. n \in S /\ \A k \in S : n <= k
    BY <1>2, <1>3, <1>5, Extremes DEF n
  <2>2. n \in 1 .. m /\ c[n][q] # 0
    BY <1>2, <2>1
  <2>3. ASSUME NEW l \in 1 .. n - 1 PROVE c[l][q] = 0
    <3>1. l \in 1 .. m /\ ~(n <= l)
      BY <2>2
    <3> QED
      BY <1>2, <2>1, <3>1
  <2> QED
    BY <1>1, <1>5, <2>2, <2>3 DEF Leads
<1> QED
  BY <1>4, <1>5

\* At most one key is the first not to tie.
LEMMA OneLeads ==
  ASSUME NEW m \in Nat, NEW c, NEW q, NEW k, NEW l, Leads(c, m, q, k)
  PROVE  /\ ~Ties(c, m, q)
         /\ Leads(c, m, q, l) => k = l
<1>1. k \in 1 .. m /\ c[k][q] # 0 /\ \A i \in 1 .. k - 1 : c[i][q] = 0
  BY DEF Leads
<1>2. ASSUME Leads(c, m, q, l) PROVE k = l
  <2>1. l \in 1 .. m /\ c[l][q] # 0 /\ \A i \in 1 .. l - 1 : c[i][q] = 0
    BY <1>2 DEF Leads
  <2>2. ~(k \in 1 .. l - 1) /\ ~(l \in 1 .. k - 1)
    BY <1>1, <2>1
  <2> QED
    BY <1>1, <2>1, <2>2
<1> QED
  BY <1>1, <1>2 DEF Ties

\* The first key that does not tie decides.
InTurn(X, c, m, d) ==
  /\ m \in Nat /\ \A k \in 1 .. m : Coherent(X, c[k])
  /\ \A x, y \in X : d[<<x, y>>] = FirstSign(c, m, <<x, y>>)

\* Keys in turn, each coherent, are coherent.
LEMMA TurnsAreCoherent ==
  ASSUME NEW m, NEW X, NEW c, NEW d, InTurn(X, c, m, d)
  PROVE  Coherent(X, d)
<1>0. /\ m \in Nat
      /\ \A k \in 1 .. m : Coherent(X, c[k])
      /\ \A x, y \in X : d[<<x, y>>] = FirstSign(c, m, <<x, y>>)
  BY DEF InTurn
<1> USE <1>0
<1>1. ASSUME NEW x \in X, NEW y \in X
      PROVE  \/ Ties(c, m, <<x, y>>) /\ d[<<x, y>>] = 0
             \/ \E k \in 1 .. m : Leads(c, m, <<x, y>>, k) /\ d[<<x, y>>] = c[k][<<x, y>>]
  <2>1. d[<<x, y>>] = FirstSign(c, m, <<x, y>>)
    OBVIOUS
  <2> QED
    BY <2>1, FirstSignOf
<1>2. ASSUME NEW x \in X, NEW y \in X PROVE d[<<x, y>>] \in Int
  <2>1. \A k \in 1 .. m : c[k][<<x, y>>] \in Int
    BY DEF Coherent
  <2> QED
    BY <1>1, <2>1
<1>3. ASSUME NEW x \in X, NEW y \in X, NEW k \in 1 .. m
      PROVE  /\ c[k][<<x, y>>] \in Int /\ c[k][<<y, x>>] \in Int
             /\ c[k][<<x, y>>] = 0 <=> c[k][<<y, x>>] = 0
             /\ c[k][<<x, y>>] > 0 <=> c[k][<<y, x>>] < 0
  <2>1. Coherent(X, c[k])
    OBVIOUS
  <2>2. c[k][<<x, y>>] = 0 <=> c[k][<<y, x>>] = 0
    <3> DEFINE e == c[k]
    <3>1. Coherent(X, e)
      BY <2>1
    <3> HIDE DEF e
    <3>2. Chained(e, x, y, y)
      BY <3>1, Chains
    <3> QED
      BY <3>2 DEF e, Chained
  <2> QED
    BY <2>1, <2>2 DEF Coherent
<1>4. ASSUME NEW x \in X, NEW y \in X PROVE Ties(c, m, <<x, y>>) => Ties(c, m, <<y, x>>)
  BY <1>3 DEF Ties
<1>5. ASSUME NEW x \in X, NEW y \in X, NEW k, Leads(c, m, <<x, y>>, k) PROVE Leads(c, m, <<y, x>>, k)
  <2>1. k \in 1 .. m /\ c[k][<<x, y>>] # 0 /\ \A l \in 1 .. k - 1 : c[l][<<x, y>>] = 0
    BY <1>5 DEF Leads
  <2>2. \A l \in 1 .. k - 1 : l \in 1 .. m
    BY <2>1
  <2>3. \A l \in 1 .. k - 1 : c[l][<<y, x>>] = 0
    BY <1>3, <2>1, <2>2
  <2> QED
    BY <1>3, <2>1, <2>3 DEF Leads
<1>6. ASSUME NEW x \in X, NEW y \in X PROVE d[<<x, y>>] > 0 <=> d[<<y, x>>] < 0
  <2>1. CASE Ties(c, m, <<x, y>>)
    <3>1. Ties(c, m, <<y, x>>)
      BY <1>4, <2>1
    <3>2. d[<<x, y>>] = 0
      BY <1>1, <2>1, OneLeads
    <3>3. d[<<y, x>>] = 0
      BY <1>1, <3>1, OneLeads
    <3> QED
      BY <3>2, <3>3
  <2>2. ASSUME NEW k \in 1 .. m, Leads(c, m, <<x, y>>, k), d[<<x, y>>] = c[k][<<x, y>>]
        PROVE  d[<<x, y>>] > 0 <=> d[<<y, x>>] < 0
    <3>1. Leads(c, m, <<y, x>>, k)
      BY <1>5, <2>2
    <3>2. d[<<y, x>>] = c[k][<<y, x>>]
      BY <1>1, <3>1, OneLeads
    <3> QED
      BY <1>3, <2>2, <3>2
  <2> QED
    BY <1>1, <2>1, <2>2
<1>7. ASSUME NEW x \in X, NEW y \in X, d[<<x, y>>] <= 0
      PROVE  Ties(c, m, <<x, y>>) \/ \E k \in 1 .. m : Leads(c, m, <<x, y>>, k) /\ c[k][<<x, y>>] < 0
  <2>1. ASSUME NEW k \in 1 .. m, Leads(c, m, <<x, y>>, k), d[<<x, y>>] = c[k][<<x, y>>]
        PROVE  c[k][<<x, y>>] < 0
    <3>1. c[k][<<x, y>>] # 0 /\ c[k][<<x, y>>] \in Int
      BY <1>3, <2>1 DEF Leads
    <3>2. c[k][<<x, y>>] <= 0
      BY <1>7, <2>1
    <3> QED
      BY <3>1, <3>2
  <2> QED
    BY <1>1, <2>1
<1>8. ASSUME NEW x \in X, NEW z \in X, NEW k \in 1 .. m, c[k][<<x, z>>] < 0,
             \A l \in 1 .. k - 1 : c[l][<<x, z>>] = 0
      PROVE  d[<<x, z>>] <= 0
  <2>1. c[k][<<x, z>>] \in Int
    BY <1>3
  <2>2. Leads(c, m, <<x, z>>, k)
    BY <1>8, <2>1 DEF Leads
  <2>3. d[<<x, z>>] = c[k][<<x, z>>]
    BY <1>1, <2>2, OneLeads
  <2> QED
    BY <1>8, <2>1, <2>3
<1>9. ASSUME NEW x \in X, NEW y \in X, NEW z \in X, d[<<x, y>>] <= 0, d[<<y, z>>] <= 0
      PROVE  d[<<x, z>>] <= 0
  <2>1. ASSUME NEW k \in 1 .. m
        PROVE  /\ c[k][<<x, y>>] = 0 /\ c[k][<<y, z>>] = 0 => c[k][<<x, z>>] = 0
               /\ c[k][<<x, y>>] < 0 /\ c[k][<<y, z>>] <= 0 => c[k][<<x, z>>] < 0
               /\ c[k][<<x, y>>] <= 0 /\ c[k][<<y, z>>] < 0 => c[k][<<x, z>>] < 0
    <3> DEFINE e == c[k]
    <3>1. Coherent(X, e)
      OBVIOUS
    <3> HIDE DEF e
    <3>2. Chained(e, x, y, z)
      BY <3>1, Chains
    <3> QED
      BY <3>2 DEF e, Chained
  <2>2. CASE Ties(c, m, <<x, y>>) /\ Ties(c, m, <<y, z>>)
    <3>1. Ties(c, m, <<x, z>>)
      BY <2>1, <2>2 DEF Ties
    <3>2. d[<<x, z>>] = 0
      BY <1>1, <3>1, OneLeads
    <3> QED
      BY <3>2
  <2>3. ASSUME NEW k \in 1 .. m, Leads(c, m, <<x, y>>, k), c[k][<<x, y>>] < 0, Ties(c, m, <<y, z>>)
        PROVE  d[<<x, z>>] <= 0
    <3>1. \A l \in 1 .. k - 1 : l \in 1 .. m
      OBVIOUS
    <3>2. c[k][<<y, z>>] <= 0 /\ \A l \in 1 .. k - 1 : c[l][<<x, y>>] = 0 /\ c[l][<<y, z>>] = 0
      BY <2>3, <3>1 DEF Leads, Ties
    <3> QED
      BY <1>8, <2>1, <2>3, <3>1, <3>2
  <2>4. ASSUME NEW k \in 1 .. m, Leads(c, m, <<y, z>>, k), c[k][<<y, z>>] < 0, Ties(c, m, <<x, y>>)
        PROVE  d[<<x, z>>] <= 0
    <3>1. \A l \in 1 .. k - 1 : l \in 1 .. m
      OBVIOUS
    <3>2. c[k][<<x, y>>] = 0 /\ \A l \in 1 .. m : c[l][<<x, y>>] = 0
      BY <2>4 DEF Ties
    <3>3. c[k][<<x, y>>] <= 0
      BY <3>2
    <3>4. \A l \in 1 .. k - 1 : c[l][<<x, y>>] = 0 /\ c[l][<<y, z>>] = 0
      BY <2>4, <3>1, <3>2 DEF Leads
    <3> QED
      BY <1>8, <2>1, <2>4, <3>1, <3>3, <3>4
  <2>5. ASSUME NEW k \in 1 .. m, Leads(c, m, <<x, y>>, k), c[k][<<x, y>>] < 0,
               NEW n \in 1 .. m, Leads(c, m, <<y, z>>, n), c[n][<<y, z>>] < 0
        PROVE  d[<<x, z>>] <= 0
    <3>1. /\ \A l \in 1 .. k - 1 : c[l][<<x, y>>] = 0
          /\ \A l \in 1 .. n - 1 : c[l][<<y, z>>] = 0
          /\ \A l \in 1 .. k - 1 : l \in 1 .. m
          /\ \A l \in 1 .. n - 1 : l \in 1 .. m
      <4>1. \A l \in 1 .. k - 1 : l \in 1 .. m
        OBVIOUS
      <4>2. \A l \in 1 .. n - 1 : l \in 1 .. m
        OBVIOUS
      <4> QED
        BY <2>5, <4>1, <4>2 DEF Leads
    <3>2. CASE k < n
      <4>1. k \in 1 .. n - 1 /\ \A l \in 1 .. k - 1 : l \in 1 .. n - 1
        BY <3>2
      <4>2. c[k][<<y, z>>] <= 0 /\ \A l \in 1 .. k - 1 : c[l][<<x, y>>] = 0 /\ c[l][<<y, z>>] = 0
        BY <3>1, <4>1
      <4> QED
        BY <1>8, <2>1, <2>5, <3>1, <4>2
    <3>3. CASE n < k
      <4>1. n \in 1 .. k - 1 /\ \A l \in 1 .. n - 1 : l \in 1 .. k - 1
        BY <3>3
      <4>3. c[n][<<x, y>>] <= 0
        <5>1. c[n][<<x, y>>] = 0
          BY <3>1, <4>1
        <5> QED
          BY <5>1
      <4>2. \A l \in 1 .. n - 1 : c[l][<<x, y>>] = 0 /\ c[l][<<y, z>>] = 0
        BY <3>1, <4>1
      <4> QED
        BY <1>8, <2>1, <2>5, <3>1, <4>2, <4>3
    <3>4. CASE k = n
      <4>1. c[k][<<y, z>>] \in Int /\ c[k][<<y, z>>] < 0
        BY <1>3, <2>5, <3>4
      <4>2. c[k][<<y, z>>] <= 0
        BY <4>1
      <4>3. \A l \in 1 .. k - 1 : c[l][<<x, y>>] = 0 /\ c[l][<<y, z>>] = 0
        BY <3>1, <3>4
      <4> QED
        BY <1>8, <2>1, <2>5, <3>1, <4>2, <4>3
    <3> QED
      BY <3>2, <3>3, <3>4
  <2> QED
    BY <1>7, <1>9, <2>2, <2>3, <2>4, <2>5
<1> QED
  BY <1>2, <1>6, <1>9 DEF Coherent

\* Rows of X whose cells the keys can compare.
SortableRows(sorts, property, values, X) ==
  /\ sorts \in Seq([property : SortIds, direction : {"asc", "desc"}])
  /\ \A id \in SortIds :
       /\ Options(property[id])
       /\ \A x \in X : IsEmpty(values[x][id]) \/ Comparable(property[id], values[x][id])
\* The comparison of the rows of X, and what it means of their cells.
RowSigns(sorts, property, values, X) ==
  [q \in X \X X |-> CompareRows(sorts, property, values[q[1]], values[q[2]])]
AheadBy(sorts, property, values, x, y, k) ==
  LET id == sorts[k].property IN AheadOn(property[id], sorts[k].direction, values[x][id], values[y][id])
TiedBy(sorts, property, values, x, y, k) ==
  LET id == sorts[k].property IN TiedOn(property[id], values[x][id], values[y][id])

\* Rows compare by the first key on which they do not tie.
LEMMA RowsCompared ==
  ASSUME NEW sorts, NEW property, NEW values, NEW X, SortableRows(sorts, property, values, X)
  PROVE  LET d == RowSigns(sorts, property, values, X)
         IN  /\ Coherent(X, d)
             /\ \A x, y \in X : d[<<x, y>>] < 0 =>
                  \E k \in DOMAIN sorts :
                    /\ AheadBy(sorts, property, values, x, y, k)
                    /\ \A l \in 1 .. k - 1 : TiedBy(sorts, property, values, x, y, l)
             /\ \A x, y \in X : d[<<x, y>>] = 0 =>
                  \A k \in DOMAIN sorts : TiedBy(sorts, property, values, x, y, k)
<1> DEFINE d == RowSigns(sorts, property, values, X)
           m == Len(sorts)
           id(k) == sorts[k].property
           c == [k \in 1 .. m |-> KeySigns(X, sorts[k], property[id(k)], [x \in X |-> values[x][id(k)]])]
<1>1. DOMAIN sorts = 1 .. m /\ m \in Nat
  BY DEF SortableRows
<1>2. \A k \in 1 .. m : id(k) \in SortIds /\ sorts[k].direction \in {"asc", "desc"}
  <2>1. \A k \in 1 .. m : sorts[k] \in [property : SortIds, direction : {"asc", "desc"}]
    <3> DEFINE R == [property : SortIds, direction : {"asc", "desc"}]
    <3>1. sorts \in Seq(R)
      BY DEF SortableRows
    <3> HIDE DEF R
    <3>2. \A k \in 1 .. m : sorts[k] \in R
      BY <3>1
    <3> QED
      BY <3>2 DEF R
  <2> QED
    BY <2>1
<1>3. ASSUME NEW k \in 1 .. m, NEW x \in X, NEW y \in X
      PROVE  /\ Options(property[id(k)])
             /\ IsEmpty(values[x][id(k)]) \/ Comparable(property[id(k)], values[x][id(k)])
             /\ IsEmpty(values[y][id(k)]) \/ Comparable(property[id(k)], values[y][id(k)])
  BY <1>2 DEF SortableRows
<1>4. ASSUME NEW k \in 1 .. m, NEW x \in X, NEW y \in X
      PROVE  c[k][<<x, y>>] = CompareKey(sorts[k], property[id(k)], values[x][id(k)], values[y][id(k)])
  BY DEF KeySigns
<1>5. ASSUME NEW k \in 1 .. m PROVE Coherent(X, c[k])
  <2> DEFINE cell == [x \in X |-> values[x][id(k)]]
  <2>1. c[k] = KeySigns(X, sorts[k], property[id(k)], cell)
    OBVIOUS
  <2>2. Options(property[id(k)])
    BY <1>2 DEF SortableRows
  <2>3. \A x \in X : IsEmpty(cell[x]) \/ Comparable(property[id(k)], cell[x])
    BY <1>3
  <2>4. sorts[k].direction \in {"asc", "desc"}
    BY <1>2
  <2> HIDE DEF cell, c, id
  <2> QED
    BY <2>1, <2>2, <2>3, <2>4, KeyIsCoherent
<1>6. ASSUME NEW k \in 1 .. m, NEW x \in X, NEW y \in X
      PROVE  /\ c[k][<<x, y>>] < 0 => AheadBy(sorts, property, values, x, y, k)
             /\ c[k][<<x, y>>] = 0 => TiedBy(sorts, property, values, x, y, k)
  <2> DEFINE v == values[x][id(k)]
             w == values[y][id(k)]
             p == property[id(k)]
  <2>1. c[k][<<x, y>>] = CompareKey(sorts[k], p, v, w)
    BY <1>4
  <2>2. Options(p) /\ (IsEmpty(v) \/ Comparable(p, v)) /\ (IsEmpty(w) \/ Comparable(p, w))
    BY <1>3
  <2>3. sorts[k].direction \in {"asc", "desc"}
    BY <1>2
  <2>4. AheadOn(p, sorts[k].direction, v, w) => AheadBy(sorts, property, values, x, y, k)
    BY DEF AheadBy
  <2>5. TiedOn(p, v, w) => TiedBy(sorts, property, values, x, y, k)
    BY DEF TiedBy
  <2> HIDE DEF p, v, w, c, id
  <2>6. /\ CompareKey(sorts[k], p, v, w) < 0 => AheadOn(p, sorts[k].direction, v, w)
        /\ CompareKey(sorts[k], p, v, w) = 0 => TiedOn(p, v, w)
    BY <2>2, <2>3, KeyCompared
  <2> QED
    BY <2>1, <2>4, <2>5, <2>6
<1>7. ASSUME NEW x \in X, NEW y \in X PROVE d[<<x, y>>] = FirstSign(c, m, <<x, y>>)
  <2> DEFINE sign(k) == CompareKey(sorts[k], property[id(k)], values[x][id(k)], values[y][id(k)])
             S == {k \in DOMAIN sorts : sign(k) # 0}
             T == {k \in 1 .. m : c[k][<<x, y>>] # 0}
  <2>1. d[<<x, y>>] = CompareRows(sorts, property, values[x], values[y])
    BY DEF RowSigns
  <2>2. CompareRows(sorts, property, values[x], values[y]) = (IF S = {} THEN 0 ELSE sign(Min(S)))
    BY DEF CompareRows
  <2>3. FirstSign(c, m, <<x, y>>) = (IF T = {} THEN 0 ELSE c[Min(T)][<<x, y>>])
    BY DEF FirstSign
  <2>4. \A k \in 1 .. m : sign(k) = c[k][<<x, y>>]
    BY <1>4
  <2> HIDE DEF c, sign, id
  <2>5. S = T
    BY <1>1, <2>4
  <2>6. ASSUME T # {} PROVE Min(T) \in 1 .. m
    <3>1. T \in SUBSET (1 .. m) /\ T \in SUBSET Int
      OBVIOUS
    <3> HIDE DEF T
    <3>2. IsFiniteSet(T)
      <4>1. IsFiniteSet(1 .. m)
        BY <1>1, FS_Interval
      <4> QED
        BY <3>1, <4>1, FS_Subset
    <3> QED
      BY <2>6, <3>1, <3>2, Extremes
  <2> HIDE DEF S, T
  <2> QED
    BY <2>1, <2>2, <2>3, <2>4, <2>5, <2>6
<1>8. Coherent(X, d)
  <2> HIDE DEF c, d, m
  <2>1. \A k \in 1 .. m : Coherent(X, c[k])
    BY <1>5
  <2>2. \A x, y \in X : d[<<x, y>>] = FirstSign(c, m, <<x, y>>)
    BY <1>7
  <2>3. m \in Nat
    BY <1>1
  <2>4. InTurn(X, c, m, d)
    BY <2>1, <2>2, <2>3 DEF InTurn
  <2> QED
    BY <2>4, TurnsAreCoherent
<1>9. ASSUME NEW x \in X, NEW y \in X
      PROVE  \/ Ties(c, m, <<x, y>>) /\ d[<<x, y>>] = 0
             \/ \E k \in 1 .. m : Leads(c, m, <<x, y>>, k) /\ d[<<x, y>>] = c[k][<<x, y>>]
  <2> HIDE DEF c, d, m
  <2> QED
    BY <1>1, <1>7, FirstSignOf
<1>10. ASSUME NEW x \in X, NEW y \in X, d[<<x, y>>] < 0
       PROVE  \E k \in DOMAIN sorts :
                /\ AheadBy(sorts, property, values, x, y, k)
                /\ \A l \in 1 .. k - 1 : TiedBy(sorts, property, values, x, y, l)
  <2> HIDE DEF c, d, id
  <2>1. PICK k \in 1 .. m : Leads(c, m, <<x, y>>, k) /\ d[<<x, y>>] = c[k][<<x, y>>]
    BY <1>9, <1>10
  <2>2. \A l \in 1 .. k - 1 : c[l][<<x, y>>] = 0
    BY <2>1 DEF Leads
  <2>3. \A l \in 1 .. k - 1 : l \in 1 .. m
    BY <1>1
  <2>4. \A l \in 1 .. k - 1 : TiedBy(sorts, property, values, x, y, l)
    BY <1>6, <2>2, <2>3
  <2>5. c[k][<<x, y>>] < 0
    BY <1>10, <2>1
  <2> QED
    BY <1>1, <1>6, <2>4, <2>5
<1>11. ASSUME NEW x \in X, NEW y \in X, d[<<x, y>>] = 0, NEW k \in DOMAIN sorts
       PROVE  TiedBy(sorts, property, values, x, y, k)
  <2> HIDE DEF c, d, id
  <2>1. Ties(c, m, <<x, y>>)
    <3>1. ASSUME NEW l \in 1 .. m, Leads(c, m, <<x, y>>, l), d[<<x, y>>] = c[l][<<x, y>>] PROVE FALSE
      BY <1>11, <3>1 DEF Leads
    <3> QED
      BY <1>9, <3>1
  <2>2. c[k][<<x, y>>] = 0
    BY <1>1, <2>1 DEF Ties
  <2> QED
    BY <1>1, <1>6, <2>2
<1> QED
  BY <1>8, <1>10, <1>11 DEF d

-----------------------------------------------------------------------------
(* Rows in order. *)

\* A set of the numbers up to n that has every number below one it has.
LEMMA UpTo ==
  ASSUME NEW n \in Nat, NEW S \in SUBSET (1 .. n), \A i \in S : \A j \in 1 .. i : j \in S
  PROVE  Cardinality(S) \in 0 .. n /\ S = 1 .. Cardinality(S)
<1>1. IsFiniteSet(S)
  <2>1. IsFiniteSet(1 .. n)
    BY FS_Interval
  <2> QED
    BY <2>1, FS_Subset
<1>2. S \in SUBSET Int
  OBVIOUS
<1>3. CASE S = {}
  <2>1. Cardinality(S) = 0
    BY <1>3, FS_EmptySet
  <2>2. 1 .. 0 = {}
    OBVIOUS
  <2> QED
    BY <1>3, <2>1, <2>2
<1>4. CASE S # {}
  <2> DEFINE m == Max(S)
  <2>1. m \in S /\ \A i \in S : i <= m
    BY <1>1, <1>2, <1>4, Extremes
  <2> HIDE DEF m
  <2>2. m \in 1 .. n
    BY <2>1
  <2>3. S \in SUBSET (1 .. m)
    BY <2>1
  <2>4. 1 .. m \in SUBSET S
    BY <2>1
  <2>5. S = 1 .. m
    BY <2>3, <2>4
  <2>6. Cardinality(1 .. m) = m
    BY <2>2, FS_Interval
  <2> QED
    BY <2>2, <2>5, <2>6
<1> QED
  BY <1>3, <1>4

\* i goes before j: ahead by the comparison d, or level with it and first.
Goes(d, i, j) == d[<<i, j>>] < 0 \/ (d[<<i, j>>] = 0 /\ i < j)

\* s has the numbers up to n, each where it goes.
InPlace(d, n, s) ==
  /\ s \in Seq(1 .. n) /\ Len(s) = n
  /\ \A j \in 1 .. n : \E a \in 1 .. n : s[a] = j
  /\ \A a, b \in 1 .. n : a < b => Goes(d, s[a], s[b])

\* e put behind those not ahead of it.
PutBehind(d, s, e) == InsertAt(s, Cardinality({i \in DOMAIN s : d[<<s[i], e>>] <= 0}) + 1, e)

\* t is s with e behind its first q members.
Behind(T, s, q, e, t) ==
  /\ t \in Seq(T) /\ Len(t) = Len(s) + 1
  /\ \A i \in 1 .. q : t[i] = s[i]
  /\ t[q + 1] = e
  /\ \A i \in q + 1 .. Len(s) : t[i + 1] = s[i]

\* What InsertAt inserts.
LEMMA Inserted ==
  ASSUME NEW T, NEW s \in Seq(T), NEW q \in 0 .. Len(s), NEW e \in T
  PROVE  Behind(T, s, q, e, InsertAt(s, q + 1, e))
<1> DEFINE head == SubSeq(s, 1, q)
           tail == SubSeq(s, q + 1, Len(s))
           L == Len(s)
<1>1. L \in Nat /\ q \in Nat /\ q <= L /\ (q + 1) - 1 = q
  OBVIOUS
<1>2. InsertAt(s, q + 1, e) = head \o <<e>> \o tail
  BY <1>1 DEF InsertAt
<1>3. head \in Seq(T) /\ Len(head) = q /\ \A i \in 1 .. q : head[i] = s[i]
  <2>1. head \in Seq(T) /\ Len(head) = q
    BY <1>1
  <2>2. \A i \in 1 .. q : head[i] = s[i]
    BY <1>1
  <2> QED
    BY <2>1, <2>2
<1>4. tail \in Seq(T) /\ Len(tail) = L - q /\ \A i \in 1 .. L - q : tail[i] = s[q + i]
  <2>1. tail \in Seq(T)
    BY <1>1
  <2>2. Len(tail) = L - q
    BY <1>1
  <2>3. \A i \in 1 .. L - q : tail[i] = s[q + i]
    BY <1>1
  <2> QED
    BY <2>1, <2>2, <2>3
<1> HIDE DEF head, tail, L
<1> DEFINE front == head \o <<e>>
<1>5. front \in Seq(T) /\ Len(front) = q + 1 /\ front[q + 1] = e /\ \A i \in 1 .. q : front[i] = s[i]
  BY <1>1, <1>3
<1>6. head \o <<e>> \o tail = front \o tail
  OBVIOUS
<1> HIDE DEF front
<1>7. front \o tail \in Seq(T) /\ Len(front \o tail) = L + 1
  <2>1. front \o tail \in Seq(T) /\ Len(front \o tail) = Len(front) + Len(tail)
    BY <1>4, <1>5, ConcatProperties
  <2> QED
    BY <1>1, <1>4, <1>5, <2>1
<1>8. \A i \in 1 .. q + 1 : (front \o tail)[i] = front[i]
  BY <1>1, <1>4, <1>5
<1>9. \A i \in 1 .. L - q : (front \o tail)[q + 1 + i] = tail[i]
  BY <1>1, <1>4, <1>5
<1>10. ASSUME NEW i \in q + 1 .. L PROVE (front \o tail)[i + 1] = s[i]
  <2> DEFINE k == i - q
  <2>1. k \in 1 .. L - q /\ q + 1 + k = i + 1 /\ q + k = i
    BY <1>1
  <2> HIDE DEF k
  <2>2. (front \o tail)[q + 1 + k] = tail[k] /\ tail[k] = s[q + k]
    BY <1>4, <1>9, <2>1
  <2> QED
    BY <2>1, <2>2
<1>11. \A i \in 1 .. q : i \in 1 .. q + 1
  BY <1>1
<1>12. q + 1 \in 1 .. q + 1
  BY <1>1
<1> QED
  BY <1>2, <1>5, <1>6, <1>7, <1>8, <1>10, <1>11, <1>12 DEF L, Behind

\* One row more, put where it goes.
LEMMA PutInPlace ==
  ASSUME NEW n \in Nat, NEW d, Coherent(1 .. n + 1, d), NEW s, InPlace(d, n, s)
  PROVE  InPlace(d, n + 1, PutBehind(d, s, n + 1))
<1> DEFINE e == n + 1
           B == {i \in DOMAIN s : d[<<s[i], e>>] <= 0}
           q == Cardinality(B)
           t == InsertAt(s, q + 1, e)
<1>1. /\ s \in Seq(1 .. n) /\ Len(s) = n /\ DOMAIN s = 1 .. n
      /\ \A i \in 1 .. n : s[i] \in 1 .. n
      /\ \A i \in 1 .. n : i \in 1 .. e
      /\ \A i \in 1 .. n : s[i] \in 1 .. e /\ s[i] < e
      /\ e \in 1 .. e
  <2>1. s \in Seq(1 .. n) /\ Len(s) = n
    BY DEF InPlace
  <2>2. DOMAIN s = 1 .. n
    BY <2>1
  <2>3. \A i \in 1 .. n : s[i] \in 1 .. n
    BY <2>1
  <2>4. \A i \in 1 .. n : s[i] \in 1 .. e /\ s[i] < e
    BY <2>3
  <2> QED
    BY <2>1, <2>2, <2>3, <2>4
<1>2. /\ \A j \in 1 .. n : \E a \in 1 .. n : s[a] = j
      /\ \A a, b \in 1 .. n : a < b => Goes(d, s[a], s[b])
  BY DEF InPlace
<1>3. B \in SUBSET (1 .. n) /\ \A i \in 1 .. n : i \in B <=> d[<<s[i], e>>] <= 0
  BY <1>1
<1>4. ASSUME NEW i \in B, NEW j \in 1 .. i PROVE j \in B
  <2>1. i \in 1 .. n /\ j \in 1 .. n /\ d[<<s[i], e>>] <= 0
    BY <1>3
  <2>2. CASE j < i
    <3>1. Goes(d, s[j], s[i])
      BY <1>2, <2>1, <2>2
    <3>2. d[<<s[j], s[i]>>] \in Int
      BY <1>1, <2>1 DEF Coherent
    <3>3. d[<<s[j], s[i]>>] <= 0
      BY <3>1, <3>2 DEF Goes
    <3>4. d[<<s[j], e>>] <= 0
      BY <1>1, <2>1, <3>3 DEF Coherent
    <3> QED
      BY <1>3, <2>1, <3>4
  <2>3. CASE j = i
    BY <2>3
  <2> QED
    BY <2>1, <2>2, <2>3
<1> HIDE DEF B
<1>5. q \in 0 .. n /\ B = 1 .. q
  BY <1>3, <1>4, UpTo
<1>6. PutBehind(d, s, e) = t
  BY DEF PutBehind, B
<1> HIDE DEF q
<1>7. s \in Seq(1 .. e)
  BY <1>1
<1>8. /\ t \in Seq(1 .. e) /\ Len(t) = n + 1
      /\ \A i \in 1 .. q : t[i] = s[i]
      /\ t[q + 1] = e
      /\ \A i \in q + 1 .. n : t[i + 1] = s[i]
  <2> HIDE DEF e, t
  <2>1. q \in 0 .. Len(s)
    BY <1>1, <1>5
  <2>2. e \in 1 .. e
    BY <1>1
  <2>3. Behind(1 .. e, s, q, e, t)
    BY <1>7, <2>1, <2>2, Inserted DEF t
  <2> QED
    BY <1>1, <2>3 DEF Behind
<1> HIDE DEF t
<1>9. ASSUME NEW j \in 1 .. e PROVE \E a \in 1 .. e : t[a] = j
  <2>1. CASE j = e
    <3>1. q + 1 \in 1 .. e
      BY <1>5
    <3> QED
      BY <1>8, <2>1, <3>1
  <2>2. CASE j # e
    <3>1. j \in 1 .. n
      BY <2>2
    <3>2. PICK a \in 1 .. n : s[a] = j
      BY <1>2, <3>1
    <3>3. CASE a <= q
      <4>1. a \in 1 .. q /\ a \in 1 .. e
        BY <1>5, <3>3
      <4> QED
        BY <1>8, <3>2, <4>1
    <3>4. CASE ~(a <= q)
      <4>1. a \in q + 1 .. n /\ a + 1 \in 1 .. e
        BY <1>5, <3>4
      <4> QED
        BY <1>8, <3>2, <4>1
    <3> QED
      BY <3>3, <3>4
  <2> QED
    BY <2>1, <2>2
<1>10. ASSUME NEW i \in 1 .. q PROVE i \in 1 .. n /\ Goes(d, s[i], e)
  <2>1. i \in 1 .. n
    BY <1>5
  <2>2. d[<<s[i], e>>] <= 0
    BY <1>3, <1>5, <2>1
  <2>3. d[<<s[i], e>>] \in Int
    BY <1>1, <2>1 DEF Coherent
  <2> QED
    BY <1>1, <2>1, <2>2, <2>3 DEF Goes
<1>11. ASSUME NEW i \in q + 1 .. n PROVE i \in 1 .. n /\ Goes(d, e, s[i])
  <2>1. i \in 1 .. n /\ i \notin 1 .. q
    BY <1>5
  <2>2. ~(d[<<s[i], e>>] <= 0)
    BY <1>3, <1>5, <2>1
  <2>3. d[<<s[i], e>>] \in Int /\ (d[<<s[i], e>>] > 0 <=> d[<<e, s[i]>>] < 0)
    BY <1>1, <2>1 DEF Coherent
  <2>4. d[<<e, s[i]>>] < 0
    BY <2>2, <2>3
  <2> QED
    BY <2>1, <2>4 DEF Goes
<1>12. ASSUME NEW a \in 1 .. e, NEW b \in 1 .. e, a < b PROVE Goes(d, t[a], t[b])
  <2>1. CASE b <= q
    <3>1. a \in 1 .. q /\ b \in 1 .. q /\ a \in 1 .. n /\ b \in 1 .. n
      BY <1>5, <1>12, <2>1
    <3> QED
      BY <1>2, <1>8, <1>12, <3>1
  <2>2. CASE b = q + 1
    <3>1. a \in 1 .. q
      BY <1>5, <1>12, <2>2
    <3> QED
      BY <1>8, <1>10, <2>2, <3>1
  <2>3. CASE b > q + 1
    <3> DEFINE j == b - 1
    <3>1. j \in q + 1 .. n /\ j \in 1 .. n /\ j + 1 = b
      BY <1>5, <1>12, <2>3
    <3>2. t[b] = s[j]
      BY <1>8, <3>1
    <3>3. CASE a <= q
      <4>1. a \in 1 .. q /\ a \in 1 .. n /\ a < j
        BY <1>5, <1>12, <2>3, <3>3
      <4> QED
        BY <1>2, <1>8, <3>1, <3>2, <4>1
    <3>4. CASE a = q + 1
      BY <1>8, <1>11, <3>1, <3>2, <3>4
    <3>5. CASE a > q + 1
      <4> DEFINE i == a - 1
      <4>1. i \in q + 1 .. n /\ i \in 1 .. n /\ i + 1 = a /\ i < j
        BY <1>5, <1>12, <3>1, <3>5
      <4>2. t[a] = s[i]
        BY <1>8, <4>1
      <4> HIDE DEF i, j
      <4> QED
        BY <1>2, <3>1, <3>2, <4>1, <4>2
    <3>6. a <= q \/ a = q + 1 \/ a > q + 1
      BY <1>5
    <3> QED
      BY <3>3, <3>4, <3>5, <3>6
  <2>4. b <= q \/ b = q + 1 \/ b > q + 1
    BY <1>5
  <2> QED
    BY <2>1, <2>2, <2>3, <2>4
<1> QED
  BY <1>6, <1>8, <1>9, <1>12 DEF InPlace

\* The rows whose numbers the sort arranges; each is put where the comparison wants it.
PutRow(sorts, property, values, s, e) ==
  InsertAt(s, Cardinality({i \in DOMAIN s : CompareRows(sorts, property, values[s[i]], values[e]) <= 0}) + 1, e)

\* Whatever the comparison, putting a row gives a list of rows.
LEMMA PutStays ==
  ASSUME NEW sorts, NEW property, NEW values, NEW T, NEW s \in Seq(T), NEW e \in T
  PROVE  PutRow(sorts, property, values, s, e) \in Seq(T)
<1> DEFINE B == {i \in DOMAIN s : CompareRows(sorts, property, values[s[i]], values[e]) <= 0}
           q == Cardinality(B)
<1>1. B \in SUBSET (1 .. Len(s)) /\ Len(s) \in Nat
  OBVIOUS
<1>2. PutRow(sorts, property, values, s, e) = InsertAt(s, q + 1, e)
  BY DEF PutRow
<1> HIDE DEF B
<1>3. q \in 0 .. Len(s)
  <2> DEFINE L == Len(s)
  <2>1. L \in Nat /\ B \in SUBSET (1 .. L)
    BY <1>1
  <2> HIDE DEF L
  <2>2. IsFiniteSet(1 .. L) /\ Cardinality(1 .. L) = L
    BY <2>1, FS_Interval
  <2>3. IsFiniteSet(B) /\ Cardinality(B) <= Cardinality(1 .. L)
    BY <2>1, <2>2, FS_Subset
  <2>4. Cardinality(B) \in Nat
    BY <2>3, FS_CardinalityType
  <2>5. q \in 0 .. L
    BY <2>1, <2>2, <2>3, <2>4
  <2> QED
    BY <2>5 DEF L
<1> HIDE DEF q
<1>4. Behind(T, s, q, e, InsertAt(s, q + 1, e))
  BY <1>3, Inserted
<1> QED
  BY <1>2, <1>4 DEF Behind

\* The rows one after the other, each put where it goes.
LEMMA RowsInPlace ==
  ASSUME NEW n \in Nat, NEW sorts, NEW property, NEW values,
         Coherent(1 .. n, RowSigns(sorts, property, values, 1 .. n))
  PROVE  InPlace(RowSigns(sorts, property, values, 1 .. n), n,
                 SortRows([i \in 1 .. n |-> i], sorts, property, values))
<1> DEFINE d == RowSigns(sorts, property, values, 1 .. n)
           rows == [i \in 1 .. n |-> i]
           S == Seq(1 .. n)
           step == [p \in S \X (1 .. n) |-> PutRow(sorts, property, values, p[1], p[2])]
           Sorting(f) ==
             [k \in 0 .. Len(rows) |-> IF k = 0 THEN <<>> ELSE PutRow(sorts, property, values, f[k - 1], rows[k])]
           sorted == CHOOSE f : f = Sorting(f)
<1>1. Len(rows) = n /\ \A k \in 1 .. n : rows[k] = k
  OBVIOUS
<1>2. SortRows(rows, sorts, property, values) = sorted[n]
  BY <1>1 DEF SortRows, PutRow
<1>3. step \in [S \X (1 .. n) -> S]
  <2>1. \A s \in S, e \in 1 .. n : PutRow(sorts, property, values, s, e) \in S
    BY PutStays
  <2> QED
    BY <2>1
<1>4. PICK f : Follows(n, S, <<>>, step, f)
  <2>1. <<>> \in S
    OBVIOUS
  <2> HIDE DEF step, S
  <2> QED
    BY <1>3, <2>1, Recursion
<1>5. f = Sorting(f)
  <2>1. f = [k \in 0 .. n |-> f[k]]
    BY <1>4 DEF Follows
  <2>2. ASSUME NEW k \in 0 .. n
        PROVE  f[k] = IF k = 0 THEN <<>> ELSE PutRow(sorts, property, values, f[k - 1], rows[k])
    <3>1. CASE k = 0
      BY <1>4, <3>1 DEF Follows
    <3>2. CASE k # 0
      <4>1. k \in 1 .. n /\ k - 1 \in 0 .. n
        BY <3>2
      <4>2. f[k - 1] \in S /\ f[k] = step[<<f[k - 1], k>>]
        BY <1>4, <4>1 DEF Follows
      <4> QED
        BY <1>1, <3>2, <4>1, <4>2
    <3> QED
      BY <3>1, <3>2
  <2> HIDE DEF rows
  <2> QED
    BY <1>1, <2>1, <2>2
<1>6. sorted = Sorting(sorted)
  <2> HIDE DEF Sorting
  <2> QED
    BY <1>5
<1> HIDE DEF sorted
<1>7. /\ sorted[0] = <<>>
      /\ \A k \in 1 .. n : sorted[k] = PutRow(sorts, property, values, sorted[k - 1], k)
  <2>1. \A k \in 0 .. n :
          sorted[k] = IF k = 0 THEN <<>> ELSE PutRow(sorts, property, values, sorted[k - 1], rows[k])
    BY <1>1, <1>6
  <2>2. 0 \in 0 .. n /\ \A k \in 1 .. n : k \in 0 .. n /\ k # 0
    OBVIOUS
  <2> QED
    BY <1>1, <2>1, <2>2
<1>8. InPlace(d, 0, sorted[0])
  BY <1>7 DEF InPlace
<1>9. ASSUME NEW k \in 1 .. n, InPlace(d, k - 1, sorted[k - 1]) PROVE InPlace(d, k, sorted[k])
  <2> DEFINE s == sorted[k - 1]
             m == k - 1
  <2>1. m \in Nat /\ m + 1 = k /\ 1 .. k \in SUBSET (1 .. n)
    OBVIOUS
  <2>2. Coherent(1 .. k, d)
    BY <2>1 DEF Coherent
  <2>3. DOMAIN s = 1 .. m /\ \A i \in 1 .. m : s[i] \in 1 .. m
    <3>1. s \in Seq(1 .. m) /\ Len(s) = m
      BY <1>9 DEF InPlace
    <3> HIDE DEF s, m
    <3>2. DOMAIN s = 1 .. m
      BY <3>1
    <3> QED
      BY <3>1, <3>2
  <2>4. \A i \in DOMAIN s : d[<<s[i], k>>] = CompareRows(sorts, property, values[s[i]], values[k])
    BY <2>1, <2>3 DEF RowSigns
  <2>5. sorted[k] = PutRow(sorts, property, values, s, k)
    BY <1>7
  <2> HIDE DEF d, s
  <2>6. {i \in DOMAIN s : CompareRows(sorts, property, values[s[i]], values[k]) <= 0}
          = {i \in DOMAIN s : d[<<s[i], k>>] <= 0}
    BY <2>4
  <2>7. sorted[k] = PutBehind(d, s, k)
    BY <2>5, <2>6 DEF PutRow, PutBehind
  <2>8. InPlace(d, m, s)
    BY <1>9 DEF s
  <2> HIDE DEF m
  <2>9. InPlace(d, m + 1, PutBehind(d, s, m + 1))
    BY <2>1, <2>2, <2>8, PutInPlace
  <2> QED
    BY <2>1, <2>7, <2>9
<1>10. \A k \in 0 .. n : InPlace(d, k, sorted[k])
  <2> DEFINE wrong == {k \in 0 .. n : ~InPlace(d, k, sorted[k])}
  <2> HIDE DEF d
  <2> SUFFICES ASSUME wrong # {} PROVE FALSE
    OBVIOUS
  <2>1. PICK k \in wrong : \A j \in wrong : k <= j
    BY LeastNumber
  <2>2. k \in 0 .. n /\ ~InPlace(d, k, sorted[k])
    BY <2>1
  <2>3. k # 0
    BY <1>8, <2>2
  <2>4. k \in 1 .. n /\ k - 1 \in 0 .. n /\ ~(k <= k - 1)
    BY <2>2, <2>3
  <2>5. InPlace(d, k - 1, sorted[k - 1])
    BY <2>1, <2>4
  <2> QED
    BY <1>9, <2>2, <2>4, <2>5
<1>11. n \in 0 .. n
  OBVIOUS
<1> QED
  BY <1>2, <1>10, <1>11

\* The row pages there may be.
RowPages ==
  UNION {{RowPage(n, f, parent, archived) : f \in Fillings, parent \in 0 .. n, archived \in BOOLEAN} :
           n \in 0 .. MaxRows}
TableOfPages == about = "rows" /\ input \in Seq(RowPages)

\* Only such pages are added.
LEMMA PagesStay == RowSpec => []TableOfPages
<1>1. about = "rows" /\ input = <<>> => TableOfPages
  BY DEF TableOfPages
<1>2. TableOfPages /\ [AddRow]_vars => TableOfPages'
  <2> SUFFICES ASSUME TableOfPages, [AddRow]_vars PROVE TableOfPages'
    OBVIOUS
  <2>1. CASE AddRow
    <3>1. PICK f \in Fillings, parent \in 0 .. Len(input), archived \in BOOLEAN :
            input' = Append(input, RowPage(Len(input), f, parent, archived))
      BY <2>1 DEF AddRow
    <3>2. Len(input) \in Nat /\ Len(input) < MaxRows /\ about' = about
      BY <2>1 DEF AddRow, TableOfPages
    <3>3. Len(input) \in 0 .. MaxRows
      BY <3>2, RowAssumption
    <3>4. RowPage(Len(input), f, parent, archived) \in RowPages
      BY <3>3 DEF RowPages
    <3> QED
      BY <3>1, <3>2, <3>4 DEF TableOfPages
  <2>2. CASE UNCHANGED vars
    BY <2>2 DEF vars, TableOfPages
  <2> QED
    BY <2>1, <2>2
<1> QED
  BY <1>1, <1>2, PTL DEF RowSpec

\* What is sorted by is a column.
LEMMA ColumnsKnown ==
  ASSUME NEW id \in SortIds PROVE Column(id) \in ToSet(Schema) /\ Options(Column(id))
<1>1. \E p \in ToSet(Schema) : p.id = id
  BY RowAssumption
<1>2. Column(id) \in ToSet(Schema)
  BY <1>1 DEF Column
<1> QED
  BY <1>2, CellAssumption DEF Options

\* The cells of such a page compare.
LEMMA PagesCompare ==
  ASSUME NEW row \in RowPages, NEW id \in SortIds
  PROVE  IsEmpty(Cell(row, id)) \/ Comparable(Column(id), Cell(row, id))
<1>1. PICK n \in 0 .. MaxRows : row \in {RowPage(n, f, parent, archived) :
                                          f \in Fillings, parent \in 0 .. n, archived \in BOOLEAN}
  BY DEF RowPages
<1>2. PICK f \in Fillings, parent \in 0 .. n, archived \in BOOLEAN : row = RowPage(n, f, parent, archived)
  BY <1>1
<1> QED
  BY <1>2, RowAssumption

\* A table of such pages is sorted.
LEMMA SortedTable == TableOfPages => SortedAndStable
<1> SUFFICES ASSUME TableOfPages, NEW sorts \in Sortings
             PROVE  LET property == [id \in SortIds |-> Column(id)]
                        values == [i \in DOMAIN input |-> [id \in SortIds |-> Cell(input[i], id)]]
                        rows == SortRows([i \in DOMAIN input |-> i], sorts, property, values)
                    IN  /\ Len(rows) = Len(input) /\ ToSet(rows) = DOMAIN input
                        /\ \A a, b \in DOMAIN rows :
                             a < b => InOrder(sorts, input[rows[a]], input[rows[b]], rows[a] < rows[b])
  BY DEF SortedAndStable, Sorted
<1> DEFINE property == [id \in SortIds |-> Column(id)]
           n == Len(input)
           X == 1 .. n
           values == [i \in DOMAIN input |-> [id \in SortIds |-> Cell(input[i], id)]]
           d == RowSigns(sorts, property, values, X)
           rows == SortRows([i \in DOMAIN input |-> i], sorts, property, values)
<1>1. n \in Nat /\ DOMAIN input = X /\ \A x \in X : input[x] \in RowPages
  BY DEF TableOfPages
<1>2. sorts \in Seq([property : SortIds, direction : {"asc", "desc"}])
  BY RowAssumption
<1>3. /\ \A id \in SortIds : property[id] = Column(id)
      /\ \A x \in X, id \in SortIds : values[x][id] = Cell(input[x], id)
  BY <1>1
<1> HIDE DEF property, values
<1>4. SortableRows(sorts, property, values, X)
  <2>1. ASSUME NEW id \in SortIds PROVE Options(property[id])
    BY <1>3, ColumnsKnown
  <2>2. ASSUME NEW id \in SortIds, NEW x \in X
        PROVE  IsEmpty(values[x][id]) \/ Comparable(property[id], values[x][id])
    <3>1. IsEmpty(Cell(input[x], id)) \/ Comparable(Column(id), Cell(input[x], id))
      BY <1>1, PagesCompare
    <3> QED
      BY <1>3, <3>1
  <2> HIDE DEF X
  <2> QED
    BY <1>2, <2>1, <2>2 DEF SortableRows
<1>5. /\ Coherent(X, d)
      /\ \A x, y \in X : d[<<x, y>>] < 0 =>
           \E k \in DOMAIN sorts :
             /\ AheadBy(sorts, property, values, x, y, k)
             /\ \A l \in 1 .. k - 1 : TiedBy(sorts, property, values, x, y, l)
      /\ \A x, y \in X : d[<<x, y>>] = 0 =>
           \A k \in DOMAIN sorts : TiedBy(sorts, property, values, x, y, k)
  <2> HIDE DEF X
  <2> QED
    BY <1>4, RowsCompared
<1>6. InPlace(d, n, rows)
  <2>1. rows = SortRows([i \in X |-> i], sorts, property, values)
    BY <1>1
  <2>2. Coherent(1 .. n, RowSigns(sorts, property, values, 1 .. n))
    BY <1>5
  <2> HIDE DEF n, rows
  <2>3. InPlace(RowSigns(sorts, property, values, 1 .. n), n,
                SortRows([i \in 1 .. n |-> i], sorts, property, values))
    BY <1>1, <2>2, RowsInPlace
  <2> QED
    BY <2>1, <2>3
<1> HIDE DEF rows, d
<1>7. /\ rows \in Seq(X) /\ Len(rows) = n
      /\ \A j \in X : \E a \in X : rows[a] = j
      /\ \A a, b \in X : a < b => Goes(d, rows[a], rows[b])
  BY <1>6 DEF InPlace
<1>8. DOMAIN rows = X /\ \A a \in X : rows[a] \in X
  <2> HIDE DEF X
  <2>1. DOMAIN rows = 1 .. Len(rows)
    BY <1>7
  <2>2. DOMAIN rows = X
    BY <1>7, <2>1 DEF X
  <2> QED
    BY <1>7, <2>2
<1>9. ToSet(rows) = X
  BY <1>7, <1>8 DEF ToSet
<1>10. \A k \in DOMAIN sorts : sorts[k].property \in SortIds
  <2> DEFINE R == [property : SortIds, direction : {"asc", "desc"}]
  <2>1. \A k \in DOMAIN sorts : sorts[k] \in R
    <3>1. sorts \in Seq(R)
      BY <1>2
    <3> HIDE DEF R
    <3> QED
      BY <3>1
  <2> QED
    BY <2>1
<1>11. \A x, y \in X, k \in DOMAIN sorts :
         LET id == sorts[k].property
         IN  /\ AheadBy(sorts, property, values, x, y, k)
                  <=> AheadOn(Column(id), sorts[k].direction, Cell(input[x], id), Cell(input[y], id))
             /\ TiedBy(sorts, property, values, x, y, k)
                  <=> TiedOn(Column(id), Cell(input[x], id), Cell(input[y], id))
  <2> HIDE DEF X
  <2> QED
    BY <1>3, <1>10 DEF AheadBy, TiedBy
<1>12. ASSUME NEW x \in X, NEW y \in X, Goes(d, x, y)
       PROVE  InOrder(sorts, input[x], input[y], x < y)
  <2>1. CASE d[<<x, y>>] < 0
    <3>1. PICK k \in DOMAIN sorts :
            /\ AheadBy(sorts, property, values, x, y, k)
            /\ \A l \in 1 .. k - 1 : TiedBy(sorts, property, values, x, y, l)
      BY <1>5, <2>1
    <3>2. \A l \in 1 .. k - 1 : l \in DOMAIN sorts
      <4>1. DOMAIN sorts = 1 .. Len(sorts) /\ Len(sorts) \in Nat
        BY <1>2
      <4> QED
        BY <4>1
    <3> HIDE DEF X
    <3> QED
      BY <1>11, <3>1, <3>2 DEF InOrder, Precedes, KeysOfRow
  <2>2. CASE d[<<x, y>>] = 0 /\ x < y
    <3>1. \A k \in DOMAIN sorts : TiedBy(sorts, property, values, x, y, k)
      BY <1>5, <2>2
    <3> QED
      BY <1>11, <2>2, <3>1 DEF InOrder, Precedes, KeysOfRow
  <2> QED
    BY <1>12, <2>1, <2>2 DEF Goes
<1>13. \A a, b \in DOMAIN rows : a < b => InOrder(sorts, input[rows[a]], input[rows[b]], rows[a] < rows[b])
  BY <1>7, <1>8, <1>12
<1> QED
  BY <1>1, <1>7, <1>9, <1>13 DEF rows, property, values

\* A sorted view has each of its rows once, in the order of its keys, the empties last and
\* the rows that tie as they came, for any columns, any keys and any rows whose cells the
\* columns can compare (SortedAndStable; sort.ts sortRows).
THEOREM RowsSort == RowSpec => []SortedAndStable
<1>1. TableOfPages => SortedAndStable
  BY SortedTable
<1> QED
  BY <1>1, PagesStay, PTL

-----------------------------------------------------------------------------
(* Cells that rows are sorted by. *)

\* Texts joined with commas are a text.
LEMMA JoinedOf ==
  ASSUME NEW texts \in Seq(Seq(Int)) PROVE Joined(texts) \in Seq(Int)
<1> DEFINE L == Len(texts)
           S == Seq(Int)
           next(s, k) == IF k = 1 THEN texts[1] ELSE s \o <<Comma>> \o texts[k]
           step == [p \in S \X (1 .. L) |-> next(p[1], p[2])]
           Joining(f) ==
             [n \in 0 .. L |->
                IF n = 0 THEN <<>> ELSE IF n = 1 THEN texts[1] ELSE f[n - 1] \o <<Comma>> \o texts[n]]
           joined == CHOOSE f : f = Joining(f)
<1>1. L \in Nat /\ \A k \in 1 .. L : texts[k] \in S
  OBVIOUS
<1>2. Joined(texts) = joined[L]
  BY DEF Joined
<1> HIDE DEF L
<1>3. \A s \in S, k \in 1 .. L : next(s, k) \in S
  <2> TAKE s \in S, k \in 1 .. L
  <2>1. texts[k] \in S
    BY <1>1
  <2>2. 1 \in 1 .. L => texts[1] \in S
    BY <1>1
  <2>3. <<Comma>> \in S
    BY DEF Comma
  <2>4. s \o <<Comma>> \in S
    BY <2>3
  <2>5. s \o <<Comma>> \o texts[k] \in S
    BY <2>1, <2>4
  <2> QED
    BY <1>1, <2>2, <2>5
<1>4. step \in [S \X (1 .. L) -> S]
  <2> HIDE DEF next, S
  <2> QED
    BY <1>3
<1>5. PICK f : Follows(L, S, <<>>, step, f)
  <2>1. <<>> \in S
    OBVIOUS
  <2> HIDE DEF step, S
  <2> QED
    BY <1>1, <1>4, <2>1, Recursion
<1>6. f = Joining(f)
  <2>1. f = [k \in 0 .. L |-> f[k]] /\ f[0] = <<>>
    BY <1>5 DEF Follows
  <2>2. ASSUME NEW k \in 0 .. L, k # 0 PROVE f[k] = next(f[k - 1], k)
    <3>1. k \in 1 .. L /\ k - 1 \in 0 .. L
      BY <1>1, <2>2
    <3>2. f[k - 1] \in S /\ f[k] = step[<<f[k - 1], k>>]
      BY <1>5, <3>1 DEF Follows
    <3> HIDE DEF next, S
    <3> QED
      BY <3>1, <3>2
  <2>3. \A k \in 0 .. L :
          f[k] = IF k = 0 THEN <<>> ELSE IF k = 1 THEN texts[1] ELSE f[k - 1] \o <<Comma>> \o texts[k]
    BY <2>1, <2>2
  <2> QED
    BY <2>1, <2>3
<1>7. joined = Joining(joined)
  <2> HIDE DEF Joining
  <2> QED
    BY <1>6
<1> HIDE DEF joined
<1>8. \A k \in 0 .. L : joined[k] = IF k = 0 THEN <<>> ELSE next(joined[k - 1], k)
  BY <1>7
<1>9. \A k \in 0 .. L : joined[k] \in S
  <2> DEFINE wrong == {k \in 0 .. L : joined[k] \notin S}
  <2> SUFFICES ASSUME wrong # {} PROVE FALSE
    OBVIOUS
  <2>1. PICK k \in wrong : \A j \in wrong : k <= j
    BY <1>1, LeastNumber
  <2>2. k \in 0 .. L /\ joined[k] \notin S
    BY <2>1
  <2>3. k # 0
    <3>1. <<>> \in S
      OBVIOUS
    <3> HIDE DEF S, next
    <3> QED
      BY <1>8, <2>2, <3>1
  <2>4. k \in 1 .. L /\ k - 1 \in 0 .. L /\ ~(k <= k - 1)
    BY <1>1, <2>2, <2>3
  <2> HIDE DEF S, next
  <2>5. joined[k - 1] \in S
    BY <2>1, <2>4
  <2>6. joined[k] = next(joined[k - 1], k)
    BY <1>8, <2>2, <2>3
  <2> QED
    BY <1>3, <2>2, <2>4, <2>5, <2>6
<1>10. L \in 0 .. L
  BY <1>1
<1> QED
  BY <1>2, <1>9, <1>10

\* What a request stores in a column, rows can be sorted by.
StoredCompares ==
  about = "cell" =>
    \A p \in Settable : \A v \in Requests(input) : \A stored \in Stored(p, v) :
      IsEmpty(stored) \/ Comparable(p, stored)

\* A list is sorted by a text.
LEMMA ListsCompare ==
  ASSUME NEW v, Is(v, "items"), ~Is(v, "flag"), NEW n \in Nat, DOMAIN v.items = 1 .. n,
         \A i \in 1 .. n : Is(v.items[i], "text") => v.items[i].text \in Seq(Nat)
  PROVE  SortText(v) \in Seq(Int)
<1> DEFINE texts == [i \in DOMAIN v.items |-> IF Is(v.items[i], "text") THEN v.items[i].text ELSE <<>>]
<1>1. SortText(v) = Joined(texts)
  BY DEF SortText
<1>2. Seq(Nat) \subseteq Seq(Int) /\ <<>> \in Seq(Int)
  OBVIOUS
<1>3. \A i \in 1 .. n : (IF Is(v.items[i], "text") THEN v.items[i].text ELSE <<>>) \in Seq(Int)
  BY <1>2
<1>4. texts \in [1 .. n -> Seq(Int)]
  <2> DEFINE S == Seq(Int)
  <2> HIDE DEF S
  <2>1. \A i \in 1 .. n : (IF Is(v.items[i], "text") THEN v.items[i].text ELSE <<>>) \in S
    BY <1>3 DEF S
  <2>2. texts \in [1 .. n -> S]
    BY <2>1
  <2> QED
    BY <2>2 DEF S
<1>5. texts \in Seq(Seq(Int))
  <2> HIDE DEF texts
  <2> QED
    BY <1>4
<1> QED
  BY <1>1, <1>5, JoinedOf

\* One type of column after the other.
LEMMA WhatIsStoredCompares == Pieces => StoredCompares
<1> SUFFICES ASSUME Pieces, NEW p \in Settable, NEW v \in Requests(input), NEW stored \in Stored(p, v),
                    stored # Null
             PROVE  Comparable(p, stored)
  BY DEF StoredCompares, IsEmpty, Null, Is
<1>1. stored = ValidateCellValue(p.type, p.config, v) /\ stored # Invalid
  BY DEF Stored
<1>2. p.type # "checkbox" => v # Null
  BY <1>1, Validates
<1>3. CASE p.type \in TextTypes
  <2>1. stored = v /\ Is(v, "text")
    BY <1>1, <1>2, <1>3, Validates DEF TextTypes
  <2>2. /\ v \in Scalars /\ v.text \in Seq(Nat)
        /\ ~Is(v, "flag") /\ ~Is(v, "items") /\ ~Is(v, "start") /\ ~Is(v, "null")
    <3>1. v \in Scalars
      BY <2>1, RequestParts
    <3> QED
      BY <2>1, <3>1, ScalarShapes DEF Is, Null
  <2>3. SortText(stored) = v.text
    BY <2>1, <2>2 DEF SortText, AsText, Printed
  <2>4. SortText(stored) \in Seq(Int)
    BY <2>2, <2>3
  <2> QED
    BY <1>3, <2>4 DEF Comparable, TextTypes, DateTypes, SelectTypes
<1>4. CASE p.type = "number"
  <2>1. PICK n \in Int : stored = Num(n)
    BY <1>4, StoredNumber
  <2>2. Is(stored, "num") /\ stored.num \in Int
    BY <2>1 DEF Num, Is
  <2> QED
    BY <1>4, <2>2 DEF Comparable, DateTypes, SelectTypes
<1>5. CASE p.type = "checkbox"
  BY <1>5 DEF Comparable, DateTypes, SelectTypes
<1>6. CASE p.type \in SelectTypes
  <2>1. stored = ValidateSelect(p.config, v)
    BY <1>1, <1>2, <1>6, Validates DEF SelectTypes
  <2>2. stored \in OptionIds(p.config)
    BY <1>1, <2>1 DEF ValidateSelect
  <2> QED
    BY <1>6, <2>2 DEF Comparable, DateTypes, SelectTypes
<1>7. CASE p.type = "date"
  <2>1. Dated(stored)
    BY <1>7, StoredDate
  <2>2. PICK d : /\ stored = Date(d) \/ \E e : stored = DateRange(d, e)
                 /\ InstantIn(d.text) \in Printable
    BY <2>1 DEF Dated
  <2>3. DateMs(stored) = InstantIn(d.text)
    BY <2>2 DEF DateMs, Date, DateRange, Is
  <2>4. DateMs(stored) \in Int \ {NotADate}
    BY <2>2, <2>3 DEF Printable, NotADate
  <2> QED
    BY <1>7, <2>4 DEF Comparable, DateTypes, SelectTypes
<1>8. CASE p.type \in {"multi_select", "person"}
  <2>1. /\ stored = ValidateList(p.type, p.config, v) /\ Is(v, "items")
        /\ stored = Items(Dedupe(v.items)) /\ v.items # <<>>
    BY <1>1, <1>2, <1>8, Validates DEF ValidateList
  <2>2. v.items \in Seq(Scalars)
    BY <2>1, RequestParts
  <2> DEFINE d == Dedupe(v.items)
             n == Len(d)
  <2>3. d \in Seq(Scalars)
    BY <2>1, <2>2, DedupeOf
  <2> HIDE DEF d
  <2>4. n \in Nat /\ DOMAIN d = 1 .. n /\ \A i \in 1 .. n : d[i] \in Scalars
    BY <2>3
  <2> HIDE DEF n
  <2>5. Is(stored, "items") /\ stored.items = d /\ ~Is(stored, "flag")
    BY <2>1 DEF d, Is, Items
  <2>6. \A i \in 1 .. n : Is(stored.items[i], "text") => stored.items[i].text \in Seq(Nat)
    BY <2>4, <2>5, ScalarShapes
  <2>7. SortText(stored) \in Seq(Int)
    BY <2>4, <2>5, <2>6, ListsCompare
  <2> QED
    BY <1>8, <2>7 DEF Comparable, DateTypes, SelectTypes
<1>9. CASE p.type = "files"
  <2> DEFINE files == [i \in DOMAIN v.items |-> FileOf(v.items[i])]
  <2>1. stored = ValidateFiles(v)
    BY <1>1, <1>2, <1>9, Validates
  <2>2. Is(v, "items") /\ stored = Items(files)
    BY <1>1, <2>1 DEF ValidateFiles
  <2>3. v.items \in Seq(Scalars)
    BY <2>2, RequestParts
  <2> DEFINE n == Len(v.items)
  <2>4. n \in Nat /\ DOMAIN v.items = 1 .. n /\ \A i \in 1 .. n : v.items[i] \in Scalars
    BY <2>3
  <2> HIDE DEF n
  <2>5. DOMAIN files = 1 .. n /\ \A i \in 1 .. n : files[i] = FileOf(v.items[i])
    BY <2>4
  <2>6. \A i \in 1 .. n : ~Is(files[i], "text")
    <3> TAKE i \in 1 .. n
    <3>1. files[i] = IF Is(v.items[i], "text") THEN File(v.items[i].text) ELSE v.items[i]
      BY <2>5 DEF FileOf
    <3> QED
      BY <3>1 DEF Is, File
  <2> HIDE DEF files
  <2>7. Is(stored, "items") /\ stored.items = files /\ ~Is(stored, "flag")
    BY <2>2 DEF Is, Items
  <2>8. SortText(stored) \in Seq(Int)
    BY <2>4, <2>5, <2>6, <2>7, ListsCompare
  <2> QED
    BY <1>9, <2>8 DEF Comparable, DateTypes, SelectTypes
<1> QED
  BY <1>3, <1>4, <1>5, <1>6, <1>7, <1>8, <1>9, SettableTypes

\* Whatever a request stores in a column, the column can compare: a number is a number, a
\* date names an instant, a choice is one of the options and everything else is a text
\* (property-value.ts validateCellValue, sort.ts compareTyped).
THEOREM StoredCellsCompare == CellSpec => []StoredCompares
<1>1. Pieces => StoredCompares
  BY WhatIsStoredCompares
<1> QED
  BY <1>1, PiecesStay, PTL

\* ... as long as the options stay.  A cell keeps an option that was removed
\* (properties.service.ts update) and is then compared as a text with the others, which
\* are compared by their places: with the text of t between those of s and u, and u the
\* option before s, u comes before s, s before t and t before u.
THEOREM GoneOptionsGoInCircles ==
  ASSUME NEW p, p.type \in SelectTypes, NEW s \in Seq(Nat), NEW t \in Seq(Nat), NEW u \in Seq(Nat),
         TextBefore(LowerCase(s), LowerCase(t)), TextBefore(LowerCase(t), LowerCase(u)),
         Is(p.config, "options"), p.config.options = <<Text(u), Text(s)>>
  PROVE  /\ Text(t) \notin OptionIds(p.config)
         /\ CompareTyped(p, Text(u), Text(s)) < 0
         /\ CompareTyped(p, Text(s), Text(t)) < 0
         /\ CompareTyped(p, Text(t), Text(u)) < 0
<1> DEFINE o == <<Text(u), Text(s)>>
<1>1. LowerCase(s) \in Seq(Int) /\ LowerCase(t) \in Seq(Int) /\ LowerCase(u) \in Seq(Int)
  <2>1. s \in Seq(Int) /\ t \in Seq(Int) /\ u \in Seq(Int)
    OBVIOUS
  <2> QED
    BY <2>1, LowersText
<1>2. TextBefore(LowerCase(s), LowerCase(u))
  BY <1>1, TextsInOrder
<1>3. s # t /\ t # u /\ s # u
  BY <1>1, <1>2, TextsCompared
<1>4. \A x, y : Text(x) = Text(y) => x = y
  <2> TAKE x, y
  <2>1. Text(x).text = x /\ Text(y).text = y
    BY DEF Text
  <2> QED
    BY <2>1
<1>5. OptionIds(p.config) = {Text(u), Text(s)}
  <2>1. DOMAIN o = {1, 2} /\ o[1] = Text(u) /\ o[2] = Text(s)
    OBVIOUS
  <2>2. OptionIds(p.config) = {o[i] : i \in DOMAIN o}
    BY DEF OptionIds, ToSet
  <2> HIDE DEF o
  <2>3. {o[i] : i \in DOMAIN o} = {o[1], o[2]}
    BY <2>1
  <2> QED
    BY <2>1, <2>2, <2>3
<1>6. Text(t) \notin OptionIds(p.config) /\ Text(u) # Text(s)
  BY <1>3, <1>4, <1>5
<1>7. p.type # "number" /\ p.type # "checkbox" /\ p.type \notin DateTypes
  BY DEF SelectTypes, DateTypes
<1>8. Position(p.config.options, Text(u)) = 1 /\ Position(p.config.options, Text(s)) = 2
  <2>1. DOMAIN o = {1, 2} /\ o[1] = Text(u) /\ o[2] = Text(s)
    OBVIOUS
  <2> HIDE DEF o
  <2>2. \A i \in DOMAIN o : (o[i] = Text(u) <=> i = 1) /\ (o[i] = Text(s) <=> i = 2)
    BY <1>6, <2>1
  <2>3. Position(o, Text(u)) = 1 /\ Position(o, Text(s)) = 2
    BY <2>1, <2>2 DEF Position
  <2> QED
    BY <2>3 DEF o
<1>9. CompareTyped(p, Text(u), Text(s)) < 0
  <2>1. {Text(u), Text(s)} \subseteq OptionIds(p.config)
    BY <1>5
  <2>2. CompareTyped(p, Text(u), Text(s)) = 1 - 2
    BY <1>7, <1>8, <2>1 DEF CompareTyped
  <2> QED
    BY <2>2
<1>10. ASSUME NEW x \in Seq(Nat) PROVE SortText(Text(x)) = x
  <2>1. /\ Is(Text(x), "text") /\ Text(x).text = x
        /\ ~Is(Text(x), "flag") /\ ~Is(Text(x), "items") /\ ~Is(Text(x), "start") /\ ~Is(Text(x), "null")
    BY DEF Is, Text
  <2> QED
    BY <2>1 DEF SortText, AsText, Printed
<1>11. ASSUME NEW x \in Seq(Nat), NEW y \in Seq(Nat), {Text(x), Text(y)} \subseteq OptionIds(p.config) => FALSE
       PROVE  CompareTyped(p, Text(x), Text(y)) = Lexical(LowerCase(x), LowerCase(y))
  BY <1>7, <1>10, <1>11 DEF CompareTyped, Collate
<1>12. CompareTyped(p, Text(s), Text(t)) = Lexical(LowerCase(s), LowerCase(t))
  BY <1>6, <1>11
<1>13. CompareTyped(p, Text(t), Text(u)) = Lexical(LowerCase(t), LowerCase(u))
  BY <1>6, <1>11
<1> QED
  BY <1>1, <1>6, <1>9, <1>12, <1>13, TextsCompared

-----------------------------------------------------------------------------
(* Lists without repetitions. *)

\* What is picked of a list at places that differ is there once, and in order.
LEMMA PickedKeeps ==
  ASSUME NEW T, NEW s \in Seq(T), NEW places \in SUBSET (DOMAIN s),
         \A a, b \in places : s[a] = s[b] => a = b
  PROVE  /\ Picked(s, places) \in Seq(T) /\ IsInjective(Picked(s, places))
         /\ ToSet(Picked(s, places)) = {s[a] : a \in places}
         /\ \A m, n \in DOMAIN Picked(s, places) :
              m < n => \E a, b \in places : a < b /\ Picked(s, places)[m] = s[a] /\ Picked(s, places)[n] = s[b]
         /\ Len(Picked(s, places)) = Cardinality(places) /\ Cardinality(places) \in Nat
         /\ places # {} => Cardinality(places) # 0
<1> DEFINE t == Picked(s, places)
           C == Cardinality(places)
<1>1. /\ t \in Seq(T) /\ Len(t) = C /\ C \in Nat
      /\ \A n \in 1 .. C :
           /\ Place(places, n) \in places /\ t[n] = s[Place(places, n)]
           /\ \A m \in 1 .. C :
                /\ Place(places, n) = Place(places, m) => n = m
                /\ m < n => Place(places, m) < Place(places, n)
      /\ \A i \in places : \E n \in 1 .. C : Place(places, n) = i
      /\ places # {} => C # 0
  BY PickedOf
<1> HIDE DEF t, C
<1>2. DOMAIN t = 1 .. C
  BY <1>1
<1>3. IsInjective(t)
  BY <1>1, <1>2 DEF IsInjective
<1>4. ToSet(t) = {s[a] : a \in places}
  <2>1. \A n \in DOMAIN t : t[n] \in {s[a] : a \in places}
    BY <1>1, <1>2
  <2>2. \A a \in places : \E n \in DOMAIN t : t[n] = s[a]
    BY <1>1, <1>2
  <2> QED
    BY <2>1, <2>2 DEF ToSet
<1>5. \A m, n \in DOMAIN t : m < n => \E a, b \in places : a < b /\ t[m] = s[a] /\ t[n] = s[b]
  BY <1>1, <1>2
<1> QED
  BY <1>1, <1>3, <1>4, <1>5 DEF t, C

\* Numbers up to N without repetitions: no more than N, and N of them are all.
LEMMA Fills ==
  ASSUME NEW N \in Nat, NEW s \in Seq(1 .. N), IsInjective(s)
  PROVE  Len(s) \in 0 .. N /\ (Len(s) >= N => ToSet(s) = 1 .. N)
<1> DEFINE L == Len(s)
<1>1. L \in Nat /\ DOMAIN s = 1 .. L /\ s \in [1 .. L -> 1 .. N]
  OBVIOUS
<1> HIDE DEF L
<1>2. s \in Injection(1 .. L, 1 .. N)
  BY <1>1 DEF Injection
<1>3. /\ IsFiniteSet(1 .. N) /\ Cardinality(1 .. N) = N
      /\ Cardinality(1 .. L) = L
  BY <1>1, FS_Interval
<1>4. /\ Cardinality(1 .. L) <= Cardinality(1 .. N)
      /\ Cardinality(1 .. L) = Cardinality(1 .. N) => s \in Surjection(1 .. L, 1 .. N)
  BY <1>2, <1>3, FS_Injection
<1>5. L <= N
  BY <1>3, <1>4
<1>6. ASSUME L >= N PROVE ToSet(s) = 1 .. N
  <2>1. s \in Surjection(1 .. L, 1 .. N)
    BY <1>1, <1>3, <1>4, <1>5, <1>6
  <2>2. \A x \in 1 .. N : \E a \in 1 .. L : s[a] = x
    BY <2>1 DEF Surjection
  <2> QED
    BY <1>1, <2>2 DEF ToSet
<1> QED
  BY <1>1, <1>5, <1>6 DEF L

\* One list behind another.
Concatenates(s, t, u) ==
  /\ DOMAIN u = 1 .. Len(s) + Len(t)
  /\ \A a \in 1 .. Len(s) : u[a] = s[a]
  /\ \A a \in Len(s) + 1 .. Len(s) + Len(t) : a - Len(s) \in 1 .. Len(t) /\ u[a] = t[a - Len(s)]
  /\ \A b \in 1 .. Len(t) : Len(s) + b \in Len(s) + 1 .. Len(s) + Len(t) /\ u[Len(s) + b] = t[b]
  /\ ToSet(u) = ToSet(s) \cup ToSet(t)

\* Joined, two lists have the lengths of both and the members of both.
LEMMA Joins ==
  ASSUME NEW T, NEW s \in Seq(T), NEW t \in Seq(T)
  PROVE  /\ s \o t \in Seq(T) /\ Len(s \o t) = Len(s) + Len(t)
         /\ Concatenates(s, t, s \o t)
         /\ IsInjective(s) /\ IsInjective(t) /\ ToSet(s) \cap ToSet(t) = {} => IsInjective(s \o t)
<1> DEFINE u == s \o t
           k == Len(s)
           l == Len(t)
<1>1. k \in Nat /\ l \in Nat /\ DOMAIN s = 1 .. k /\ DOMAIN t = 1 .. l
  OBVIOUS
<1>2. u \in Seq(T) /\ Len(u) = k + l
  BY ConcatProperties
<1>3. \A a \in 1 .. k : u[a] = s[a]
  BY <1>1
<1>4. \A b \in 1 .. l : u[k + b] = t[b]
  BY <1>1
<1> HIDE DEF u, k, l
<1>5. DOMAIN u = 1 .. k + l
  BY <1>2
<1>6. \A a \in k + 1 .. k + l : a - k \in 1 .. l /\ u[a] = t[a - k]
  <2> TAKE a \in k + 1 .. k + l
  <2> DEFINE b == a - k
  <2>1. b \in 1 .. l /\ k + b = a
    BY <1>1
  <2> HIDE DEF b
  <2>2. u[k + b] = t[b]
    BY <1>4, <2>1
  <2> QED
    BY <2>1, <2>2 DEF b
<1>7. \A b \in 1 .. l : k + b \in k + 1 .. k + l
  BY <1>1
<1>8. ToSet(u) = ToSet(s) \cup ToSet(t)
  <2>1. \A a \in DOMAIN u : a \in 1 .. k \/ a \in k + 1 .. k + l
    BY <1>1, <1>5
  <2>2. \A a \in DOMAIN u : u[a] \in ToSet(s) \cup ToSet(t)
    BY <1>1, <1>3, <1>6, <2>1 DEF ToSet
  <2>3. \A a \in 1 .. k : a \in DOMAIN u
    BY <1>1, <1>5
  <2>4. \A b \in 1 .. l : k + b \in DOMAIN u
    BY <1>1, <1>5
  <2>5. ToSet(s) \subseteq ToSet(u)
    BY <1>1, <1>3, <2>3 DEF ToSet
  <2>6. ToSet(t) \subseteq ToSet(u)
    BY <1>1, <1>4, <2>4 DEF ToSet
  <2>7. ToSet(u) \subseteq ToSet(s) \cup ToSet(t)
    BY <2>2 DEF ToSet
  <2> QED
    BY <2>5, <2>6, <2>7
<1>9. ASSUME IsInjective(s), IsInjective(t), ToSet(s) \cap ToSet(t) = {} PROVE IsInjective(u)
  <2> SUFFICES ASSUME NEW a \in DOMAIN u, NEW b \in DOMAIN u, u[a] = u[b] PROVE a = b
    BY DEF IsInjective
  <2>1. (a \in 1 .. k \/ a \in k + 1 .. k + l) /\ (b \in 1 .. k \/ b \in k + 1 .. k + l)
    BY <1>1, <1>5
  <2>2. \A c \in 1 .. k : u[c] \in ToSet(s)
    BY <1>1, <1>3 DEF ToSet
  <2>3. \A c \in k + 1 .. k + l : u[c] \in ToSet(t)
    BY <1>1, <1>6 DEF ToSet
  <2>4. CASE a \in 1 .. k /\ b \in 1 .. k
    BY <1>1, <1>3, <1>9, <2>4 DEF IsInjective
  <2>5. CASE a \in k + 1 .. k + l /\ b \in k + 1 .. k + l
    <3>1. a - k \in DOMAIN t /\ b - k \in DOMAIN t /\ t[a - k] = t[b - k]
      BY <1>1, <1>6, <2>5
    <3>2. a - k = b - k
      BY <1>9, <3>1 DEF IsInjective
    <3> QED
      BY <1>1, <2>5, <3>2
  <2> QED
    BY <1>9, <2>1, <2>2, <2>3, <2>4, <2>5
<1> QED
  BY <1>1, <1>2, <1>3, <1>4, <1>5, <1>6, <1>7, <1>8, <1>9 DEF u, k, l, Concatenates

-----------------------------------------------------------------------------
(* Rows as they are loaded. *)

\* The levels of a table.
LevelsFrom(table, levels) ==
  /\ levels \in [0 .. Len(table) -> SUBSET (0 .. Len(table))] /\ levels[0] = {0}
  /\ \A n \in 1 .. Len(table) : levels[n] = {i \in DOMAIN table : table[i].parent \in levels[n - 1]}

\* A table has levels: the container is above the first, and a row is below its parent.
LEMMA LevelsOf == ASSUME NEW T, NEW table \in Seq(T) PROVE LevelsFrom(table, RowLevels(table))
<1> DEFINE N == Len(table)
           D == DOMAIN table
           S == SUBSET (0 .. N)
           step == [p \in S \X (1 .. N) |-> {i \in D : table[i].parent \in p[1]}]
           Leveling(f) ==
             [n \in 0 .. N |-> IF n = 0 THEN {0}
                               ELSE LET above == f[n - 1] IN {i \in D : table[i].parent \in above}]
           level == CHOOSE f : f = Leveling(f)
<1>1. N \in Nat /\ D = 1 .. N
  OBVIOUS
<1>2. RowLevels(table) = level
  BY DEF RowLevels
<1> HIDE DEF N
<1>3. step \in [S \X (1 .. N) -> S]
  BY <1>1
<1>4. PICK f : Follows(N, S, {0}, step, f)
  <2>1. {0} \in S
    BY <1>1
  <2> HIDE DEF step, S
  <2> QED
    BY <1>1, <1>3, <2>1, Recursion
<1>5. \A n \in 1 .. N : n \in 0 .. N /\ n - 1 \in 0 .. N /\ n # 0
  BY <1>1
<1>6. f = Leveling(f)
  <2>1. f = [n \in 0 .. N |-> f[n]]
    BY <1>4 DEF Follows
  <2>2. ASSUME NEW n \in 0 .. N
        PROVE  f[n] = IF n = 0 THEN {0} ELSE {i \in D : table[i].parent \in f[n - 1]}
    <3>1. CASE n = 0
      BY <1>4, <3>1 DEF Follows
    <3>2. CASE n # 0
      <4>1. n \in 1 .. N
        BY <3>2
      <4>2. f[n - 1] \in S /\ f[n] = step[<<f[n - 1], n>>]
        BY <1>4, <1>5, <4>1 DEF Follows
      <4> QED
        BY <3>2, <4>1, <4>2
    <3> QED
      BY <3>1, <3>2
  <2> HIDE DEF D
  <2> QED
    BY <2>1, <2>2
<1>7. level = Leveling(level)
  <2> HIDE DEF Leveling
  <2> QED
    BY <1>6
<1> HIDE DEF level
<1>8. /\ level[0] = {0}
      /\ \A n \in 1 .. N : level[n] = {i \in D : table[i].parent \in level[n - 1]}
      /\ level = [n \in 0 .. N |-> level[n]]
  <2>1. \A n \in 0 .. N : level[n] = IF n = 0 THEN {0} ELSE {i \in D : table[i].parent \in level[n - 1]}
    BY <1>7
  <2>2. level = [n \in 0 .. N |-> level[n]]
    BY <1>7
  <2>3. 0 \in 0 .. N
    BY <1>1
  <2> QED
    BY <1>5, <2>1, <2>2, <2>3
<1>9. \A n \in 0 .. N : level[n] \in SUBSET (0 .. N)
  <2>1. D \in SUBSET (0 .. N) /\ 0 \in 0 .. N
    BY <1>1
  <2> TAKE n \in 0 .. N
  <2>2. CASE n = 0
    BY <1>8, <2>1, <2>2
  <2>3. CASE n # 0
    <3>1. n \in 1 .. N
      BY <2>3
    <3>2. level[n] \in SUBSET D
      BY <1>8, <3>1
    <3> QED
      BY <2>1, <3>2
  <2> QED
    BY <2>2, <2>3
<1>10. level \in [0 .. N -> SUBSET (0 .. N)]
  BY <1>8, <1>9
<1> QED
  BY <1>2, <1>8, <1>10 DEF LevelsFrom, N

\* A row is on one level.
LEMMA OneLevel ==
  ASSUME NEW T, NEW table \in Seq(T), NEW levels, LevelsFrom(table, levels)
  PROVE  \A m, n \in DOMAIN levels : \A i : i \in levels[m] /\ i \in levels[n] => m = n
<1> DEFINE N == Len(table)
           D == DOMAIN table
           twice == {m \in 0 .. N : \E n \in 0 .. N, i \in 0 .. N : i \in levels[m] /\ i \in levels[n] /\ m < n}
<1>1. N \in Nat /\ D = 1 .. N
  OBVIOUS
<1> HIDE DEF N
<1>2. /\ levels \in [0 .. N -> SUBSET (0 .. N)] /\ levels[0] = {0}
      /\ \A n \in 1 .. N : levels[n] = {i \in D : table[i].parent \in levels[n - 1]}
  BY DEF LevelsFrom, N
<1>3. SUFFICES ASSUME twice # {} PROVE FALSE
  <2>1. \A m, n \in 0 .. N : m = n \/ m < n \/ n < m
    BY <1>1
  <2>2. DOMAIN levels = 0 .. N /\ \A m \in 0 .. N : levels[m] \in SUBSET (0 .. N)
    BY <1>2
  <2> QED
    BY <2>1, <2>2
<1>4. PICK m \in twice : \A k \in twice : m <= k
  BY <1>1, <1>3, LeastNumber
<1>5. PICK n \in 0 .. N, i \in 0 .. N : i \in levels[m] /\ i \in levels[n] /\ m < n
  BY <1>4
<1>6. m \in 0 .. N
  BY <1>4
<1>7. n \in 1 .. N /\ n - 1 \in 0 .. N
  BY <1>1, <1>5, <1>6
<1>8. i \in D /\ table[i].parent \in levels[n - 1]
  BY <1>2, <1>5, <1>7
<1>9. m # 0
  BY <1>1, <1>2, <1>5, <1>8
<1>10. m \in 1 .. N /\ m - 1 \in 0 .. N /\ m - 1 < n - 1 /\ ~(m <= m - 1)
  BY <1>1, <1>5, <1>6, <1>7, <1>9
<1>11. table[i].parent \in levels[m - 1]
  BY <1>2, <1>5, <1>10
<1>12. table[i].parent \in 0 .. N
  BY <1>2, <1>10, <1>11
<1>13. m - 1 \in twice
  BY <1>7, <1>8, <1>10, <1>11, <1>12
<1> QED
  BY <1>4, <1>10, <1>13

\* Of two rows at most one is loaded first.
LEMMA LoadedOnce ==
  ASSUME NEW T, NEW table \in Seq(T), NEW levels, LevelsFrom(table, levels),
         NEW i \in DOMAIN table, NEW j \in DOMAIN table, LoadedBefore(levels, i, j)
  PROVE  ~LoadedBefore(levels, j, i)
<1>1. PICK m, n \in DOMAIN levels : i \in levels[m] /\ j \in levels[n] /\ (m < n \/ (m = n /\ i < j))
  BY DEF LoadedBefore
<1>2. DOMAIN levels = 0 .. Len(table) /\ DOMAIN table = 1 .. Len(table) /\ Len(table) \in Nat
  BY DEF LevelsFrom
<1>3. SUFFICES ASSUME NEW p \in DOMAIN levels, NEW q \in DOMAIN levels,
                      j \in levels[p], i \in levels[q], p < q \/ (p = q /\ j < i)
               PROVE  FALSE
  BY DEF LoadedBefore
<1>4. q = m /\ p = n
  BY <1>1, <1>3, OneLevel
<1>5. m \in Int /\ n \in Int /\ i \in Int /\ j \in Int
  BY <1>2
<1> QED
  BY <1>1, <1>3, <1>4, <1>5

\* What has been loaded after n levels, and the rows whose children come next.
LoadsUpTo(table, levels, n, at) ==
  /\ at.rows \in Seq(DOMAIN table) /\ IsInjective(at.rows)
  /\ at.frontier \subseteq levels[n] /\ at.frontier \subseteq ToSet(at.rows) \cup {0}
  /\ \A a \in DOMAIN at.rows : \E m \in 0 .. n : at.rows[a] \in levels[m]
  /\ \A a, b \in DOMAIN at.rows : a < b => LoadedBefore(levels, at.rows[a], at.rows[b])
  /\ ToSet(at.rows) \subseteq ShownRows(table)
  /\ \A i \in DOMAIN table :
       ~table[i].archived /\ table[i].parent \in (ToSet(at.rows) \cup {0}) \ at.frontier => i \in ToSet(at.rows)
  /\ at.frontier = {} \/ Len(at.rows) >= n

\* A row that is not archived is shown below a row that is.
LEMMA ShownBelow ==
  ASSUME NEW table, NEW i \in DOMAIN table, ~table[i].archived,
         table[i].parent \in ShownRows(table) \cup {0}
  PROVE  i \in ShownRows(table)
<1> SUFFICES ASSUME NEW S \in SUBSET (DOMAIN table), Shows(table, S) PROVE i \in S
  BY DEF ShownRows
<1>1. table[i].parent \in S \cup {0}
  BY DEF ShownRows
<1> QED
  BY <1>1 DEF Shows

\* One more level leaves what is loaded right.
LEMMA LoadsNext ==
  ASSUME NEW T, NEW table \in Seq(T), NEW levels, LevelsFrom(table, levels),
         NEW n \in 1 .. Len(table), NEW at, LoadsUpTo(table, levels, n - 1, at)
  PROVE  LoadsUpTo(table, levels, n, NextLevel(table, at))
<1> DEFINE D == DOMAIN table
           N == Len(table)
           rows == at.rows
           C == {i \in D : table[i].parent \in at.frontier /\ ~table[i].archived /\ i \notin ToSet(rows)}
           P == Picked([i \in D |-> i], C)
           new == rows \o P
           k == Len(rows)
<1>1. N \in Nat /\ D = 1 .. N /\ n \in Nat /\ n - 1 \in 0 .. N /\ n \in 0 .. N /\ (n - 1) + 1 = n
  OBVIOUS
<1>2. NextLevel(table, at) = [rows |-> new, frontier |-> C]
  BY DEF NextLevel
<1>3. /\ rows \in Seq(D) /\ IsInjective(rows)
      /\ at.frontier \subseteq levels[n - 1] /\ at.frontier \subseteq ToSet(rows) \cup {0}
      /\ \A a \in DOMAIN rows : \E m \in 0 .. n - 1 : rows[a] \in levels[m]
      /\ \A a, b \in DOMAIN rows : a < b => LoadedBefore(levels, rows[a], rows[b])
      /\ ToSet(rows) \subseteq ShownRows(table)
      /\ \A i \in D : ~table[i].archived /\ table[i].parent \in (ToSet(rows) \cup {0}) \ at.frontier => i \in ToSet(rows)
      /\ at.frontier = {} \/ Len(rows) >= n - 1
  BY DEF LoadsUpTo
<1>4. C \subseteq D /\ ToSet(rows) \cap C = {}
  OBVIOUS
<1>5. C \subseteq levels[n]
  <2>1. levels[n] = {i \in D : table[i].parent \in levels[n - 1]}
    BY DEF LevelsFrom
  <2> QED
    BY <1>3, <2>1
<1>6. C \subseteq ShownRows(table)
  <2>1. at.frontier \subseteq ShownRows(table) \cup {0}
    BY <1>3
  <2> QED
    BY <2>1, ShownBelow
<1>7. C # {} => at.frontier # {}
  OBVIOUS
<1>8. \A i \in D : ~table[i].archived /\ table[i].parent \in (ToSet(rows) \cup C \cup {0}) \ C => i \in ToSet(rows) \cup C
  BY <1>3
<1> HIDE DEF C, rows
<1>9. /\ P \in Seq(D) /\ IsInjective(P) /\ ToSet(P) = C
      /\ \A a, b \in DOMAIN P : a < b => P[a] \in C /\ P[b] \in C /\ P[a] < P[b]
      /\ Len(P) = Cardinality(C) /\ Cardinality(C) \in Nat
      /\ C # {} => Cardinality(C) # 0
  <2> DEFINE s == [i \in D |-> i]
  <2>1. s \in Seq(D) /\ C \in SUBSET (DOMAIN s) /\ \A i \in C : s[i] = i
    BY <1>1, <1>4
  <2> HIDE DEF s
  <2>2. \A a, b \in C : s[a] = s[b] => a = b
    BY <2>1
  <2>3. /\ Picked(s, C) \in Seq(D) /\ IsInjective(Picked(s, C))
        /\ ToSet(Picked(s, C)) = {s[a] : a \in C}
        /\ \A a, b \in DOMAIN Picked(s, C) :
             a < b => \E i, j \in C : i < j /\ Picked(s, C)[a] = s[i] /\ Picked(s, C)[b] = s[j]
        /\ Len(Picked(s, C)) = Cardinality(C) /\ Cardinality(C) \in Nat
        /\ C # {} => Cardinality(C) # 0
    BY <2>1, <2>2, PickedKeeps
  <2>4. P = Picked(s, C)
    BY DEF s
  <2> HIDE DEF P
  <2>5. {s[a] : a \in C} = C
    BY <2>1
  <2>6. \A a, b \in DOMAIN P : a < b => P[a] \in C /\ P[b] \in C /\ P[a] < P[b]
    BY <2>1, <2>3, <2>4
  <2> QED
    BY <2>3, <2>4, <2>5, <2>6
<1> HIDE DEF P
<1>10. /\ new \in Seq(D) /\ Len(new) = Len(rows) + Len(P) /\ Concatenates(rows, P, new) /\ IsInjective(new)
  BY <1>3, <1>4, <1>9, Joins
<1> HIDE DEF new
<1>11. k \in Nat /\ DOMAIN rows = 1 .. k
  BY <1>3
<1> DEFINE l == Len(P)
<1>12. l \in Nat /\ DOMAIN P = 1 .. l
  BY <1>9
<1> HIDE DEF k, l
<1>13. /\ DOMAIN new = 1 .. k + l
       /\ \A a \in 1 .. k : new[a] = rows[a] /\ a \in DOMAIN rows
       /\ \A a \in k + 1 .. k + l : a - k \in DOMAIN P /\ new[a] = P[a - k] /\ new[a] \in C
       /\ ToSet(new) = ToSet(rows) \cup C
  <2>1. /\ DOMAIN new = 1 .. k + l
        /\ \A a \in 1 .. k : new[a] = rows[a]
        /\ \A a \in k + 1 .. k + l : a - k \in 1 .. l /\ new[a] = P[a - k]
        /\ ToSet(new) = ToSet(rows) \cup C
    BY <1>9, <1>10 DEF Concatenates, k, l
  <2>2. \A a \in k + 1 .. k + l : new[a] \in ToSet(P)
    BY <1>12, <2>1 DEF ToSet
  <2> QED
    BY <1>9, <1>11, <1>12, <2>1, <2>2
<1>14. \A a \in DOMAIN new : a \in 1 .. k \/ a \in k + 1 .. k + l
  BY <1>11, <1>12, <1>13
<1>15. DOMAIN levels = 0 .. N
  BY DEF LevelsFrom
<1>16. \A a \in DOMAIN new : \E m \in 0 .. n : new[a] \in levels[m]
  <2>1. \A m \in 0 .. n - 1 : m \in 0 .. n
    BY <1>1
  <2>2. n \in 0 .. n
    BY <1>1
  <2> QED
    BY <1>3, <1>5, <1>13, <1>14, <2>1, <2>2
<1>17. ASSUME NEW a \in DOMAIN new, NEW b \in DOMAIN new, a < b PROVE LoadedBefore(levels, new[a], new[b])
  <2>1. CASE b \in 1 .. k
    <3>1. a \in 1 .. k
      BY <1>11, <1>13, <1>17, <2>1
    <3> QED
      BY <1>3, <1>13, <1>17, <2>1, <3>1
  <2>2. CASE a \in 1 .. k /\ b \in k + 1 .. k + l
    <3>1. PICK m \in 0 .. n - 1 : rows[a] \in levels[m]
      BY <1>3, <1>13, <2>2
    <3>2. m \in 0 .. N /\ n \in 0 .. N /\ m < n
      BY <1>1
    <3>3. new[a] \in levels[m] /\ new[b] \in levels[n]
      BY <1>5, <1>13, <2>2, <3>1
    <3> QED
      BY <1>15, <3>2, <3>3 DEF LoadedBefore
  <2>3. CASE a \in k + 1 .. k + l /\ b \in k + 1 .. k + l
    <3>1. a - k \in DOMAIN P /\ b - k \in DOMAIN P /\ a - k < b - k
      BY <1>11, <1>13, <1>17, <2>3
    <3>2. new[a] \in C /\ new[b] \in C /\ new[a] < new[b]
      BY <1>9, <1>13, <2>3, <3>1
    <3> QED
      BY <1>1, <1>5, <1>15, <3>2 DEF LoadedBefore
  <2>4. a \in 1 .. k \/ a \in k + 1 .. k + l
    BY <1>14
  <2>5. b \in 1 .. k \/ b \in k + 1 .. k + l
    BY <1>14
  <2>6. ~(a \in k + 1 .. k + l /\ b \in 1 .. k)
    BY <1>11, <1>12, <1>17
  <2> QED
    BY <2>1, <2>2, <2>3, <2>4, <2>5, <2>6
<1>18. C = {} \/ Len(new) >= n
  <2>1. CASE C # {}
    <3>1. k >= n - 1 /\ l # 0
      BY <1>3, <1>7, <1>9, <2>1 DEF k, l
    <3>2. Len(new) = k + l
      BY <1>10 DEF k, l
    <3> QED
      BY <1>1, <1>11, <1>12, <3>1, <3>2
  <2> QED
    BY <2>1
<1>19. ToSet(new) \subseteq ShownRows(table)
  BY <1>3, <1>6, <1>13
<1>20. C \subseteq ToSet(new) \cup {0}
  BY <1>13
<1>21. \A i \in D : ~table[i].archived /\ table[i].parent \in (ToSet(new) \cup {0}) \ C => i \in ToSet(new)
  BY <1>8, <1>13
<1> DEFINE next == [rows |-> new, frontier |-> C]
<1>22. next.rows = new /\ next.frontier = C
  OBVIOUS
<1>23. NextLevel(table, at) = next
  BY <1>2
<1> HIDE DEF next, D
<1>24. LoadsUpTo(table, levels, n, next)
  BY <1>5, <1>10, <1>16, <1>17, <1>18, <1>19, <1>20, <1>21, <1>22 DEF LoadsUpTo, D
<1> QED
  BY <1>23, <1>24

\* Loading level by level loads the rows that are shown, each once, and in which order.
Loads(table, rows) ==
  /\ rows \in Seq(DOMAIN table) /\ IsInjective(rows) /\ ToSet(rows) = ShownRows(table)
  /\ \A a, b \in DOMAIN rows : a < b => LoadedBefore(RowLevels(table), rows[a], rows[b])

\* Once there are as many levels as rows, nothing is left to load.
LEMMA LoadedOf == ASSUME NEW T, NEW table \in Seq(T) PROVE Loads(table, LoadRows(table))
<1> DEFINE N == Len(table)
           D == DOMAIN table
           levels == RowLevels(table)
           S == [rows : Seq(D), frontier : SUBSET (0 .. N)]
           start == [rows |-> <<>>, frontier |-> {0}]
           step == [p \in S \X (1 .. N) |-> NextLevel(table, p[1])]
           Loading(f) == [n \in 0 .. N |-> IF n = 0 THEN start ELSE NextLevel(table, f[n - 1])]
           loaded == CHOOSE f : f = Loading(f)
<1>1. N \in Nat /\ D = 1 .. N
  OBVIOUS
<1>2. LoadRows(table) = loaded[N].rows
  BY DEF LoadRows
<1>3. LevelsFrom(table, levels)
  BY LevelsOf
<1> HIDE DEF N, levels
<1>4. step \in [S \X (1 .. N) -> S]
  <2>1. ASSUME NEW at \in S PROVE NextLevel(table, at) \in S
    <3> DEFINE C == {i \in D : table[i].parent \in at.frontier /\ ~table[i].archived /\ i \notin ToSet(at.rows)}
               s == [i \in D |-> i]
    <3>1. NextLevel(table, at) = [rows |-> at.rows \o Picked(s, C), frontier |-> C]
      BY DEF NextLevel
    <3>2. s \in Seq(D) /\ C \in SUBSET (DOMAIN s) /\ C \in SUBSET (0 .. N)
      BY <1>1
    <3> HIDE DEF C, s
    <3>3. Picked(s, C) \in Seq(D) /\ at.rows \in Seq(D)
      BY <3>2, PickedOf
    <3>4. at.rows \o Picked(s, C) \in Seq(D)
      BY <3>3, ConcatProperties
    <3> QED
      BY <3>1, <3>2, <3>4
  <2> HIDE DEF S
  <2> QED
    BY <2>1
<1>5. start \in S
  BY <1>1
<1>6. PICK f : Follows(N, S, start, step, f)
  <2> HIDE DEF step, S, start
  <2> QED
    BY <1>1, <1>4, <1>5, Recursion
<1> HIDE DEF start
<1>7. \A n \in 1 .. N : n \in 0 .. N /\ n - 1 \in 0 .. N /\ n # 0
  BY <1>1
<1>8. f = Loading(f)
  <2>1. f = [n \in 0 .. N |-> f[n]]
    BY <1>6 DEF Follows
  <2>2. ASSUME NEW n \in 0 .. N PROVE f[n] = IF n = 0 THEN start ELSE NextLevel(table, f[n - 1])
    <3>1. CASE n = 0
      BY <1>6, <3>1 DEF Follows
    <3>2. CASE n # 0
      <4>1. n \in 1 .. N
        BY <3>2
      <4>2. f[n - 1] \in S /\ f[n] = step[<<f[n - 1], n>>]
        BY <1>6, <1>7, <4>1 DEF Follows
      <4> HIDE DEF S
      <4> QED
        BY <3>2, <4>1, <4>2
    <3> QED
      BY <3>1, <3>2
  <2> HIDE DEF S
  <2> QED
    BY <2>1, <2>2
<1>9. loaded = Loading(loaded)
  <2> HIDE DEF Loading
  <2> QED
    BY <1>8
<1> HIDE DEF loaded
<1>10. loaded[0] = start /\ \A n \in 1 .. N : loaded[n] = NextLevel(table, loaded[n - 1])
  <2>1. \A n \in 0 .. N : loaded[n] = IF n = 0 THEN start ELSE NextLevel(table, loaded[n - 1])
    BY <1>9
  <2>2. 0 \in 0 .. N
    BY <1>1
  <2> QED
    BY <1>7, <2>1, <2>2
<1>11. LoadsUpTo(table, levels, 0, loaded[0])
  <2>1. start.rows = <<>> /\ start.frontier = {0}
    BY DEF start
  <2>2. <<>> \in Seq(D) /\ IsInjective(<<>>) /\ ToSet(<<>>) = {} /\ DOMAIN <<>> = {} /\ Len(<<>>) = 0
    BY DEF IsInjective, ToSet
  <2>3. levels[0] = {0}
    BY <1>3 DEF LevelsFrom
  <2> DEFINE at == loaded[0]
  <2>4. at.rows = <<>> /\ at.frontier = {0}
    BY <1>10, <2>1
  <2> HIDE DEF at, D
  <2>5. LoadsUpTo(table, levels, 0, at)
    BY <2>2, <2>3, <2>4 DEF LoadsUpTo, D
  <2> QED
    BY <2>5 DEF at
<1>12. ASSUME NEW n \in 1 .. N, LoadsUpTo(table, levels, n - 1, loaded[n - 1])
       PROVE  LoadsUpTo(table, levels, n, loaded[n])
  <2>1. LoadsUpTo(table, levels, n, NextLevel(table, loaded[n - 1]))
    <3> DEFINE at == loaded[n - 1]
    <3>1. n \in 1 .. Len(table) /\ LoadsUpTo(table, levels, n - 1, at)
      BY <1>12 DEF N
    <3> HIDE DEF at
    <3> QED
      BY <1>3, <3>1, LoadsNext DEF at
  <2> QED
    BY <1>10, <2>1
<1>13. \A n \in 0 .. N : LoadsUpTo(table, levels, n, loaded[n])
  <2> DEFINE wrong == {n \in 0 .. N : ~LoadsUpTo(table, levels, n, loaded[n])}
  <2> SUFFICES ASSUME wrong # {} PROVE FALSE
    OBVIOUS
  <2>1. PICK n \in wrong : \A k \in wrong : n <= k
    BY <1>1, LeastNumber
  <2>2. n \in 0 .. N /\ ~LoadsUpTo(table, levels, n, loaded[n])
    BY <2>1
  <2>3. n # 0
    BY <1>11, <2>2
  <2>4. n \in 1 .. N /\ n - 1 \in 0 .. N /\ ~(n <= n - 1)
    BY <1>1, <2>2, <2>3
  <2>5. LoadsUpTo(table, levels, n - 1, loaded[n - 1])
    BY <2>1, <2>4
  <2> QED
    BY <1>12, <2>2, <2>4, <2>5
<1> DEFINE at == loaded[N]
           rows == at.rows
<1>14. LoadsUpTo(table, levels, N, at)
  BY <1>1, <1>13
<1> HIDE DEF at
<1>15. /\ rows \in Seq(D) /\ IsInjective(rows)
       /\ \A a, b \in DOMAIN rows : a < b => LoadedBefore(levels, rows[a], rows[b])
       /\ ToSet(rows) \subseteq ShownRows(table)
       /\ \A i \in D : ~table[i].archived /\ table[i].parent \in (ToSet(rows) \cup {0}) \ at.frontier => i \in ToSet(rows)
       /\ at.frontier = {} \/ Len(rows) >= N
  BY <1>14 DEF LoadsUpTo
<1> HIDE DEF rows
<1>16. ShownRows(table) \subseteq ToSet(rows)
  <2>1. ShownRows(table) \subseteq D
    BY DEF ShownRows
  <2>2. CASE Len(rows) >= N
    <3>1. rows \in Seq(1 .. N)
      BY <1>1, <1>15
    <3>2. ToSet(rows) = 1 .. N
      BY <1>1, <1>15, <2>2, <3>1, Fills
    <3> QED
      BY <1>1, <2>1, <3>2
  <2>3. CASE at.frontier = {}
    <3>1. ToSet(rows) \in SUBSET D
      BY <1>15, Members
    <3>2. Shows(table, ToSet(rows))
      BY <1>15, <2>3 DEF Shows
    <3> QED
      BY <3>1, <3>2 DEF ShownRows
  <2> QED
    BY <1>15, <2>2, <2>3
<1> QED
  BY <1>2, <1>15, <1>16 DEF Loads, rows, at, levels

\* The rows one after the other, each put where it goes.
Puts(X, rows, sorts, property, values, f) ==
  /\ f[0] = <<>>
  /\ \A k \in 1 .. Len(rows) : f[k] = PutRow(sorts, property, values, f[k - 1], rows[k])
  /\ \A k \in 0 .. Len(rows) : f[k] \in Seq(X)
  /\ SortRows(rows, sorts, property, values) = f[Len(rows)]

\* The sort is a fold: what each row was put into.
LEMMA PutOneByOne ==
  ASSUME NEW X, NEW rows \in Seq(X), NEW sorts, NEW property, NEW values
  PROVE  \E f : Puts(X, rows, sorts, property, values, f)
<1> DEFINE n == Len(rows)
           S == Seq(X)
           step == [p \in S \X (1 .. n) |-> PutRow(sorts, property, values, p[1], rows[p[2]])]
           Sorting(f) ==
             [k \in 0 .. n |-> IF k = 0 THEN <<>> ELSE PutRow(sorts, property, values, f[k - 1], rows[k])]
           sorted == CHOOSE f : f = Sorting(f)
<1>1. n \in Nat /\ \A k \in 1 .. n : rows[k] \in X
  OBVIOUS
<1>2. SortRows(rows, sorts, property, values) = sorted[n]
  BY DEF SortRows, PutRow
<1> HIDE DEF n
<1>3. step \in [S \X (1 .. n) -> S]
  <2>1. \A s \in S, k \in 1 .. n : PutRow(sorts, property, values, s, rows[k]) \in S
    BY <1>1, PutStays
  <2> QED
    BY <2>1
<1>4. PICK f : Follows(n, S, <<>>, step, f)
  <2>1. <<>> \in S
    OBVIOUS
  <2> HIDE DEF step, S
  <2> QED
    BY <1>1, <1>3, <2>1, Recursion
<1>5. /\ f[0] = <<>> /\ f = [k \in 0 .. n |-> f[k]] /\ \A k \in 0 .. n : f[k] \in S
      /\ \A k \in 1 .. n : f[k] = PutRow(sorts, property, values, f[k - 1], rows[k])
  <2>1. \A k \in 1 .. n : k - 1 \in 0 .. n
    BY <1>1
  <2>2. f \in [0 .. n -> S] /\ f[0] = <<>> /\ \A k \in 1 .. n : f[k] = step[<<f[k - 1], k>>]
    BY <1>4 DEF Follows
  <2> HIDE DEF S
  <2> QED
    BY <2>1, <2>2
<1>6. f = Sorting(f)
  <2>1. ASSUME NEW k \in 0 .. n
        PROVE  f[k] = IF k = 0 THEN <<>> ELSE PutRow(sorts, property, values, f[k - 1], rows[k])
    <3>1. k = 0 \/ k \in 1 .. n
      BY <1>1
    <3> QED
      BY <1>5, <3>1
  <2> QED
    BY <1>5, <2>1
<1>7. sorted = Sorting(sorted)
  <2> HIDE DEF Sorting
  <2> QED
    BY <1>6
<1> HIDE DEF sorted
<1>0. <<>> \in S
  OBVIOUS
<1> HIDE DEF S
<1>8. /\ sorted[0] = <<>>
      /\ \A k \in 1 .. n : sorted[k] = PutRow(sorts, property, values, sorted[k - 1], rows[k])
  <2>1. \A k \in 0 .. n :
          sorted[k] = IF k = 0 THEN <<>> ELSE PutRow(sorts, property, values, sorted[k - 1], rows[k])
    BY <1>7
  <2>2. 0 \in 0 .. n /\ \A k \in 1 .. n : k \in 0 .. n /\ k # 0
    BY <1>1
  <2> QED
    BY <2>1, <2>2
<1>9. \A k \in 0 .. n : sorted[k] \in S
  <2> DEFINE wrong == {k \in 0 .. n : sorted[k] \notin S}
  <2> SUFFICES ASSUME wrong # {} PROVE FALSE
    OBVIOUS
  <2>1. PICK k \in wrong : \A j \in wrong : k <= j
    BY <1>1, LeastNumber
  <2>2. k \in 0 .. n /\ sorted[k] \notin S
    BY <2>1
  <2>3. k # 0
    BY <1>0, <1>8, <2>2
  <2>4. k \in 1 .. n /\ k - 1 \in 0 .. n /\ ~(k <= k - 1)
    BY <1>1, <2>2, <2>3
  <2>5. sorted[k - 1] \in S
    BY <2>1, <2>4
  <2>6. PutRow(sorts, property, values, sorted[k - 1], rows[k]) \in S
    BY <1>1, <2>4, <2>5, PutStays DEF S
  <2> QED
    BY <1>8, <2>2, <2>4, <2>6
<1>10. Puts(X, rows, sorts, property, values, sorted)
  BY <1>2, <1>8, <1>9 DEF Puts, n, S
<1> QED
  BY <1>10

\* A list read through the places of another.
Through(rows, s) == [a \in 1 .. Len(s) |-> rows[s[a]]]

\* A row is put at the same place in a list and in the places of that list.
LEMMA PutThrough ==
  ASSUME NEW X, NEW rows \in Seq(X), NEW sorts, NEW property, NEW values,
         NEW s \in Seq(1 .. Len(rows)), NEW k \in 1 .. Len(rows)
  PROVE  LET vals == [i \in 1 .. Len(rows) |-> values[rows[i]]]
         IN  PutRow(sorts, property, values, Through(rows, s), rows[k])
               = Through(rows, PutRow(sorts, property, vals, s, k))
<1> DEFINE n == Len(rows)
           vals == [i \in 1 .. n |-> values[rows[i]]]
           r == Through(rows, s)
           L == Len(s)
           B == {i \in DOMAIN s : CompareRows(sorts, property, vals[s[i]], vals[k]) <= 0}
           q == Cardinality(B)
           t == InsertAt(s, q + 1, k)
           u == InsertAt(r, q + 1, rows[k])
<1>1. /\ n \in Nat /\ L \in Nat /\ \A i \in 1 .. n : rows[i] \in X
      /\ DOMAIN s = 1 .. L /\ \A i \in 1 .. L : s[i] \in 1 .. n
  OBVIOUS
<1> HIDE DEF n, L
<1>2. r \in Seq(X) /\ Len(r) = L /\ DOMAIN r = 1 .. L /\ \A i \in 1 .. L : r[i] = rows[s[i]]
  <2>1. r = [a \in 1 .. L |-> rows[s[a]]]
    BY DEF Through, L
  <2>2. \A a \in 1 .. L : rows[s[a]] \in X
    BY <1>1
  <2> HIDE DEF r
  <2> QED
    BY <1>1, <2>1, <2>2
<1> HIDE DEF r
<1>3. {i \in DOMAIN r : CompareRows(sorts, property, values[r[i]], values[rows[k]]) <= 0} = B
  <2>1. \A i \in 1 .. L : vals[s[i]] = values[r[i]]
    BY <1>1, <1>2
  <2>2. vals[k] = values[rows[k]]
    BY DEF n
  <2> HIDE DEF vals
  <2> QED
    BY <1>1, <1>2, <2>1, <2>2
<1>4. PutRow(sorts, property, values, r, rows[k]) = u
  BY <1>3 DEF PutRow
<1>5. PutRow(sorts, property, vals, s, k) = t
  BY DEF PutRow
<1>6. q \in 0 .. L
  <2>1. B \in SUBSET (1 .. L)
    BY <1>1
  <2> HIDE DEF B
  <2>2. IsFiniteSet(1 .. L) /\ Cardinality(1 .. L) = L
    BY <1>1, FS_Interval
  <2>3. IsFiniteSet(B) /\ Cardinality(B) <= Cardinality(1 .. L)
    BY <2>1, <2>2, FS_Subset
  <2>4. Cardinality(B) \in Nat
    BY <2>3, FS_CardinalityType
  <2> QED
    BY <1>1, <2>2, <2>3, <2>4
<1> HIDE DEF q, vals
<1>7. Behind(1 .. n, s, q, k, t)
  <2>1. s \in Seq(1 .. n) /\ k \in 1 .. n /\ q \in 0 .. Len(s)
    BY <1>6 DEF n, L
  <2> QED
    BY <2>1, Inserted
<1>8. Behind(X, r, q, rows[k], u)
  <2>1. rows[k] \in X /\ q \in 0 .. Len(r)
    BY <1>1, <1>2, <1>6 DEF n
  <2> QED
    BY <1>2, <2>1, Inserted
<1> HIDE DEF t, u
<1>9. /\ t \in Seq(1 .. n) /\ Len(t) = L + 1
      /\ \A i \in 1 .. q : t[i] = s[i]
      /\ t[q + 1] = k
      /\ \A i \in q + 1 .. L : t[i + 1] = s[i]
  BY <1>7 DEF Behind, L
<1>10. /\ u \in Seq(X) /\ Len(u) = L + 1
       /\ \A i \in 1 .. q : u[i] = r[i]
       /\ u[q + 1] = rows[k]
       /\ \A i \in q + 1 .. L : u[i + 1] = r[i]
  BY <1>2, <1>8 DEF Behind
<1>11. \A a \in 1 .. L + 1 : u[a] = rows[t[a]]
  <2> TAKE a \in 1 .. L + 1
  <2>1. CASE a \in 1 .. q
    <3>1. a \in 1 .. L
      BY <1>1, <1>6, <2>1
    <3> QED
      BY <1>2, <1>9, <1>10, <2>1, <3>1
  <2>2. CASE a = q + 1
    BY <1>9, <1>10, <2>2
  <2>3. CASE a \in q + 2 .. L + 1
    <3> DEFINE b == a - 1
    <3>1. b \in q + 1 .. L /\ b + 1 = a /\ b \in 1 .. L
      BY <1>1, <1>6, <2>3
    <3> HIDE DEF b
    <3>2. u[b + 1] = r[b] /\ t[b + 1] = s[b] /\ r[b] = rows[s[b]]
      BY <1>2, <1>9, <1>10, <3>1
    <3> QED
      BY <3>1, <3>2
  <2> QED
    BY <1>1, <1>6, <2>1, <2>2, <2>3
<1>12. u = [a \in 1 .. L + 1 |-> u[a]]
  BY <1>1, <1>10
<1>13. Through(rows, t) = [a \in 1 .. L + 1 |-> rows[t[a]]]
  BY <1>9 DEF Through
<1>14. u = Through(rows, t)
  BY <1>11, <1>12, <1>13
<1> QED
  BY <1>4, <1>5, <1>14 DEF vals, n, r

\* Sorting a list is sorting its places.
LEMMA SortThrough ==
  ASSUME NEW X, NEW rows \in Seq(X), NEW sorts, NEW property, NEW values
  PROVE  SortRows(rows, sorts, property, values)
           = Through(rows, SortRows([i \in 1 .. Len(rows) |-> i], sorts, property,
                                    [i \in 1 .. Len(rows) |-> values[rows[i]]]))
<1> DEFINE n == Len(rows)
           places == [i \in 1 .. n |-> i]
           vals == [i \in 1 .. n |-> values[rows[i]]]
<1>1. n \in Nat /\ places \in Seq(1 .. n) /\ Len(places) = n /\ \A k \in 1 .. n : places[k] = k
  OBVIOUS
<1> HIDE DEF places
<1>2. PICK f : Puts(X, rows, sorts, property, values, f)
  BY PutOneByOne
<1>3. PICK g : Puts(1 .. n, places, sorts, property, vals, g)
  <2> HIDE DEF n, vals
  <2> QED
    BY <1>1, PutOneByOne
<1>4. /\ f[0] = <<>> /\ \A k \in 1 .. n : f[k] = PutRow(sorts, property, values, f[k - 1], rows[k])
      /\ SortRows(rows, sorts, property, values) = f[n]
  BY <1>2 DEF Puts
<1>5. /\ g[0] = <<>> /\ \A k \in 1 .. n : g[k] = PutRow(sorts, property, vals, g[k - 1], k)
      /\ \A k \in 0 .. n : g[k] \in Seq(1 .. n)
      /\ SortRows(places, sorts, property, vals) = g[n]
  BY <1>1, <1>3 DEF Puts
<1>6. f[0] = Through(rows, g[0])
  <2>1. Through(rows, <<>>) = <<>>
    BY DEF Through
  <2> QED
    BY <1>4, <1>5, <2>1
<1>7. ASSUME NEW k \in 1 .. n, f[k - 1] = Through(rows, g[k - 1]) PROVE f[k] = Through(rows, g[k])
  <2>1. k - 1 \in 0 .. n
    BY <1>1
  <2> DEFINE s == g[k - 1]
  <2>2. s \in Seq(1 .. n)
    BY <1>5, <2>1
  <2> HIDE DEF s
  <2>3. PutRow(sorts, property, values, Through(rows, s), rows[k])
          = Through(rows, PutRow(sorts, property, vals, s, k))
    BY <2>2, PutThrough
  <2> HIDE DEF n, vals
  <2> QED
    BY <1>4, <1>5, <1>7, <2>3 DEF s
<1>8. \A k \in 0 .. n : f[k] = Through(rows, g[k])
  <2> DEFINE wrong == {k \in 0 .. n : f[k] # Through(rows, g[k])}
  <2> HIDE DEF n
  <2> SUFFICES ASSUME wrong # {} PROVE FALSE
    OBVIOUS
  <2>1. PICK k \in wrong : \A j \in wrong : k <= j
    BY <1>1, LeastNumber
  <2>2. k \in 0 .. n /\ f[k] # Through(rows, g[k])
    BY <2>1
  <2>3. k # 0
    BY <1>6, <2>2
  <2>4. k \in 1 .. n /\ k - 1 \in 0 .. n /\ ~(k <= k - 1)
    BY <1>1, <2>2, <2>3
  <2>5. f[k - 1] = Through(rows, g[k - 1])
    BY <2>1, <2>4
  <2> QED
    BY <1>7, <2>2, <2>4, <2>5
<1>9. f[n] = Through(rows, g[n])
  BY <1>1, <1>8
<1> QED
  BY <1>4, <1>5, <1>9 DEF places

\* One row comes before another in a list.
Earlier(rows, x, y) == \E a, b \in DOMAIN rows : a < b /\ rows[a] = x /\ rows[b] = y

\* t has the members of rows, as the comparison d orders them, those that tie as they came.
Arranges(rows, d, t) ==
  /\ t \in Seq(ToSet(rows)) /\ IsInjective(t) /\ ToSet(t) = ToSet(rows)
  /\ \A a, b \in DOMAIN t :
       a < b => d[<<t[a], t[b]>>] < 0 \/ (d[<<t[a], t[b]>>] = 0 /\ Earlier(rows, t[a], t[b]))

\* What sorting a list of rows gives.
LEMMA RowsSorted ==
  ASSUME NEW X, NEW rows \in Seq(X), IsInjective(rows), NEW sorts, NEW property, NEW values,
         SortableRows(sorts, property, values, X)
  PROVE  Arranges(rows, RowSigns(sorts, property, values, X), SortRows(rows, sorts, property, values))
<1> DEFINE n == Len(rows)
           Y == 1 .. n
           vals == [i \in Y |-> values[rows[i]]]
           d == RowSigns(sorts, property, values, X)
           e == RowSigns(sorts, property, vals, Y)
           p == SortRows([i \in Y |-> i], sorts, property, vals)
           t == SortRows(rows, sorts, property, values)
<1>1. n \in Nat /\ DOMAIN rows = Y /\ \A i \in Y : rows[i] \in X
  OBVIOUS
<1>2. t = Through(rows, p)
  BY SortThrough
<1>3. \A i \in Y : vals[i] = values[rows[i]]
  OBVIOUS
<1>4. \A i, j \in Y : e[<<i, j>>] = d[<<rows[i], rows[j]>>]
  <2> TAKE i, j \in Y
  <2>1. e[<<i, j>>] = CompareRows(sorts, property, vals[i], vals[j])
    BY DEF RowSigns
  <2>2. d[<<rows[i], rows[j]>>] = CompareRows(sorts, property, values[rows[i]], values[rows[j]])
    BY <1>1 DEF RowSigns
  <2> HIDE DEF vals, e, d
  <2> QED
    BY <1>3, <2>1, <2>2
<1> HIDE DEF vals
<1>5. SortableRows(sorts, property, vals, Y)
  <2> HIDE DEF Y
  <2>1. \A id \in SortIds, i \in Y : IsEmpty(vals[i][id]) \/ Comparable(property[id], vals[i][id])
    <3> TAKE id \in SortIds, i \in Y
    <3>1. IsEmpty(values[rows[i]][id]) \/ Comparable(property[id], values[rows[i]][id])
      BY <1>1 DEF SortableRows
    <3> QED
      BY <1>3, <3>1
  <2> QED
    BY <2>1 DEF SortableRows
<1>6. Coherent(Y, e)
  <2> HIDE DEF Y
  <2> QED
    BY <1>5, RowsCompared
<1>7. InPlace(e, n, p)
  <2>1. Coherent(1 .. n, RowSigns(sorts, property, vals, 1 .. n))
    BY <1>6
  <2> HIDE DEF n
  <2> QED
    BY <1>1, <2>1, RowsInPlace
<1> HIDE DEF d, e, p, t
<1>8. /\ p \in Seq(Y) /\ Len(p) = n
      /\ \A j \in Y : \E a \in Y : p[a] = j
      /\ \A a, b \in Y : a < b => Goes(e, p[a], p[b])
  BY <1>7 DEF InPlace
<1>9. \A a \in Y : p[a] \in Y
  <2>1. DOMAIN p = Y
    BY <1>1, <1>8
  <2> HIDE DEF Y
  <2> QED
    BY <1>8, <2>1
<1>10. \A a, b \in Y : p[a] = p[b] => a = b
  <2>1. ASSUME NEW a \in Y, NEW b \in Y, a < b, p[a] = p[b] PROVE FALSE
    <3>1. Goes(e, p[a], p[a]) /\ p[a] \in Y
      BY <1>8, <1>9, <2>1
    <3>2. ~(p[a] < p[a])
      BY <1>1, <3>1
    <3>3. e[<<p[a], p[a]>>] < 0
      BY <3>1, <3>2 DEF Goes
    <3>4. e[<<p[a], p[a]>>] \in Int /\ (e[<<p[a], p[a]>>] > 0 <=> e[<<p[a], p[a]>>] < 0)
      BY <1>6, <3>1 DEF Coherent
    <3> QED
      BY <3>3, <3>4
  <2>2. \A a, b \in Y : a < b \/ a = b \/ b < a
    BY <1>1
  <2> HIDE DEF Y
  <2> QED
    BY <2>1, <2>2
<1>11. t = [a \in Y |-> rows[p[a]]]
  BY <1>2, <1>8 DEF Through
<1>12. DOMAIN t = Y /\ \A a \in Y : t[a] = rows[p[a]]
  BY <1>11
<1>13. ToSet(t) = ToSet(rows)
  <2> HIDE DEF Y
  <2>1. \A a \in DOMAIN t : t[a] \in ToSet(rows)
    BY <1>1, <1>9, <1>12 DEF ToSet
  <2>2. \A j \in Y : \E a \in Y : t[a] = rows[j]
    BY <1>8, <1>12
  <2>3. ToSet(t) \subseteq ToSet(rows)
    BY <2>1 DEF ToSet
  <2>4. ToSet(rows) \subseteq ToSet(t)
    BY <1>1, <1>12, <2>2 DEF ToSet
  <2> QED
    BY <2>3, <2>4
<1>14. IsInjective(t)
  <2> HIDE DEF Y
  <2> QED
    BY <1>1, <1>9, <1>10, <1>12 DEF IsInjective
<1>15. t \in Seq(ToSet(rows))
  <2>1. \A a \in Y : rows[p[a]] \in ToSet(rows)
    BY <1>1, <1>9 DEF ToSet
  <2> QED
    BY <1>1, <1>11, <2>1
<1>16. ASSUME NEW a \in DOMAIN t, NEW b \in DOMAIN t, a < b
       PROVE  d[<<t[a], t[b]>>] < 0 \/ (d[<<t[a], t[b]>>] = 0 /\ Earlier(rows, t[a], t[b]))
  <2>1. a \in Y /\ b \in Y /\ p[a] \in Y /\ p[b] \in Y /\ Goes(e, p[a], p[b])
    BY <1>8, <1>9, <1>12, <1>16
  <2>2. e[<<p[a], p[b]>>] = d[<<t[a], t[b]>>]
    BY <1>4, <1>12, <2>1
  <2>3. p[a] < p[b] => Earlier(rows, t[a], t[b])
    BY <1>1, <1>12, <2>1 DEF Earlier
  <2> HIDE DEF Y
  <2> QED
    BY <2>1, <2>2, <2>3 DEF Goes
<1> QED
  BY <1>13, <1>14, <1>15, <1>16 DEF Arranges, d, t

-----------------------------------------------------------------------------
(* Pages. *)

\* The page that shows the members of L behind the first `start`, up to the e-th.
PageFrom(L, limit, cursor, page, start, e) ==
  /\ start \in 0 .. Len(L) /\ e \in start .. Len(L)
  /\ e = Len(L) \/ e = start + limit
  /\ \A a \in DOMAIN L : L[a] = cursor => a = start
  /\ cursor \notin ToSet(L) => start = 0
  /\ page.items = SubSeq(L, start + 1, e)
  /\ page.next = (IF e < Len(L) THEN L[e] ELSE NoCursor)

\* The lesser of two numbers.
LEMMA LesserOf == ASSUME NEW a \in Int, NEW b \in Int PROVE Min({a, b}) = IF a <= b THEN a ELSE b
<1> DEFINE S == {a, b}
<1>1. IsFiniteSet(S)
  <2>1. IsFiniteSet({a}) /\ {a} \cup {b} = S
    BY FS_Singleton
  <2> QED
    BY <2>1, FS_AddElement
<1>2. S \in SUBSET Int /\ S # {} /\ \A x : x \in S <=> x = a \/ x = b
  OBVIOUS
<1> HIDE DEF S
<1>3. Min(S) \in S /\ \A x \in S : Min(S) <= x
  BY <1>1, <1>2, Extremes
<1>4. Min(S) = IF a <= b THEN a ELSE b
  BY <1>2, <1>3
<1> QED
  BY <1>4 DEF S

\* Part of a list.
LEMMA PartOf ==
  ASSUME NEW X, NEW L \in Seq(X), NEW a \in 0 .. Len(L), NEW b \in a .. Len(L)
  PROVE  /\ SubSeq(L, a + 1, b) \in Seq(X) /\ Len(SubSeq(L, a + 1, b)) = b - a
         /\ SubSeq(L, a + 1, b) = [i \in 1 .. b - a |-> L[a + i]]
         /\ \A i \in 1 .. b - a : SubSeq(L, a + 1, b)[i] = L[a + i]
         /\ ToSet(SubSeq(L, a + 1, b)) = {L[i] : i \in a + 1 .. b}
<1> DEFINE t == SubSeq(L, a + 1, b)
           m == b - a
           g == [i \in 1 .. m |-> L[a + i]]
<1>1. a \in Nat /\ b \in Nat /\ a <= b /\ b <= Len(L) /\ Len(L) \in Nat
  OBVIOUS
<1>2. t = g
  <2>1. (b - (a + 1)) + 1 = b - a /\ \A i \in 1 .. b - a : (a + 1) + i - 1 = a + i
    BY <1>1
  <2> QED
    BY <1>1, <2>1
<1>3. m \in Nat /\ \A i \in 1 .. m : L[a + i] \in X /\ a + i \in a + 1 .. b
  BY <1>1
<1>4. \A i \in a + 1 .. b : i - a \in 1 .. m /\ a + (i - a) = i
  BY <1>1
<1> HIDE DEF t, m
<1>5. g \in Seq(X) /\ Len(g) = m /\ DOMAIN g = 1 .. m /\ \A i \in 1 .. m : g[i] = L[a + i]
  BY <1>3
<1> HIDE DEF g
<1>6. ToSet(g) = {L[i] : i \in a + 1 .. b}
  <2>1. \A i \in DOMAIN g : g[i] \in {L[j] : j \in a + 1 .. b}
    BY <1>3, <1>5
  <2>2. \A i \in a + 1 .. b : g[i - a] = L[i] /\ i - a \in DOMAIN g
    BY <1>4, <1>5
  <2>3. \A i \in a + 1 .. b : L[i] \in ToSet(g)
    BY <2>2 DEF ToSet
  <2> QED
    BY <2>1, <2>3 DEF ToSet
<1> QED
  BY <1>2, <1>5, <1>6 DEF t, m, g

\* Every page is a stretch of the list, from behind its cursor or from the start.
LEMMA PageOf ==
  ASSUME NEW X, NEW L \in Seq(X), IsInjective(L), NEW limit \in Nat \ {0}, NEW cursor
  PROVE  \E start, e : PageFrom(L, limit, cursor, Paginate(L, limit, cursor), start, e)
<1> DEFINE n == Len(L)
           start == IF cursor \in ToSet(L) THEN Position(L, cursor) ELSE 0
           e == Min({start + limit, n})
           items == SubSeq(L, start + 1, e)
           more == start + Len(items) < n /\ items # <<>>
           page == Paginate(L, limit, cursor)
<1>1. page = [items |-> items, next |-> IF more THEN Last(items) ELSE NoCursor]
  BY DEF Paginate
<1>2. n \in Nat /\ DOMAIN L = 1 .. n /\ limit \in Nat /\ limit # 0
  OBVIOUS
<1>3. /\ start \in 0 .. n
      /\ \A a \in DOMAIN L : L[a] = cursor => a = start
      /\ cursor \notin ToSet(L) => start = 0
  <2>1. CASE cursor \in ToSet(L)
    <3> DEFINE at == Position(L, cursor)
    <3>1. \E a \in DOMAIN L : L[a] = cursor
      BY <2>1 DEF ToSet
    <3>2. at \in DOMAIN L /\ L[at] = cursor
      BY <3>1 DEF Position
    <3> HIDE DEF at
    <3>3. start = at
      BY <2>1 DEF at
    <3> HIDE DEF start
    <3> QED
      BY <1>2, <2>1, <3>2, <3>3 DEF IsInjective
  <2>2. CASE cursor \notin ToSet(L)
    BY <1>2, <2>2 DEF ToSet
  <2> QED
    BY <2>1, <2>2
<1> HIDE DEF start, n
<1>4. e = IF start + limit <= n THEN start + limit ELSE n
  BY <1>2, <1>3, LesserOf
<1>5. e \in start .. n /\ (e = n \/ e = start + limit) /\ (start < n => start < e)
  <2> HIDE DEF e
  <2> QED
    BY <1>2, <1>3, <1>4
<1> HIDE DEF e
<1>6. items \in Seq(X) /\ Len(items) = e - start /\ \A i \in 1 .. e - start : items[i] = L[start + i]
  BY <1>3, <1>5, PartOf DEF n
<1> HIDE DEF items
<1>7. more <=> e < n
  <2>1. CASE e < n
    <3>1. start < e
      BY <1>2, <1>3, <1>5, <2>1
    <3>2. Len(items) # 0
      BY <1>2, <1>3, <1>5, <1>6, <3>1
    <3>3. items # <<>>
      BY <3>2
    <3> QED
      BY <1>2, <1>3, <1>5, <1>6, <2>1, <3>3
  <2>2. CASE ~(e < n)
    BY <1>2, <1>3, <1>5, <1>6, <2>2
  <2> QED
    BY <2>1, <2>2
<1>8. e < n => Last(items) = L[e]
  <2> SUFFICES ASSUME e < n PROVE Last(items) = L[e]
    OBVIOUS
  <2>1. start < e
    BY <1>2, <1>3, <1>5
  <2>2. e - start \in 1 .. e - start /\ start + (e - start) = e
    BY <1>2, <1>3, <1>5, <2>1
  <2>3. Last(items) = items[e - start]
    BY <1>6 DEF Last
  <2> QED
    BY <1>6, <2>2, <2>3
<1> HIDE DEF more, page
<1>9. page.items = items /\ page.next = IF e < n THEN L[e] ELSE NoCursor
  BY <1>1, <1>7, <1>8
<1>10. PageFrom(L, limit, cursor, page, start, e)
  BY <1>3, <1>5, <1>9 DEF PageFrom, n, items
<1> QED
  BY <1>10 DEF page

\* What a client has, and the cursor it follows.
Walked(X) == [rows : Seq(X), next : X \cup {NoCursor}]
Setout == [rows |-> <<>>, next |-> NoCursor]
NextPage(L, limit, n, last) ==
  LET page == Paginate(L, limit, last.next)
  IN  IF n > 1 /\ last.next = NoCursor THEN last ELSE [rows |-> last.rows \o page.items, next |-> page.next]
\* L is the list a table is answered from.
Serves(X, table, view, L) ==
  /\ L \in Seq(X) /\ IsInjective(L)
  /\ \A limit \in Nat \ {0}, cursor \in X \cup {NoCursor} :
       LET answer == Query(table, Context, view, limit, cursor)
           page == Paginate(L, limit, cursor)
       IN  answer.rows = page.items /\ answer.next = page.next
Walks(X, m, lists, limit, w) ==
  /\ w[0] = Setout /\ \A n \in 0 .. m : w[n] \in Walked(X)
  /\ \A n \in 1 .. m : w[n] = NextPage(lists[n], limit, n, w[n - 1])

\* A page leaves a client with rows and a cursor among the rows.
LEMMA PageStays ==
  ASSUME NEW X, NEW L \in Seq(X), IsInjective(L), NEW limit \in Nat \ {0}, NEW n, NEW last \in Walked(X)
  PROVE  NextPage(L, limit, n, last) \in Walked(X)
<1> DEFINE page == Paginate(L, limit, last.next)
<1>1. PICK start, e : PageFrom(L, limit, last.next, page, start, e)
  BY PageOf
<1> HIDE DEF page
<1>2. /\ start \in 0 .. Len(L) /\ e \in start .. Len(L)
      /\ page.items = SubSeq(L, start + 1, e)
      /\ page.next = (IF e < Len(L) THEN L[e] ELSE NoCursor)
      /\ \A a \in DOMAIN L : L[a] = last.next => a = start
      /\ e = Len(L) \/ e = start + limit
  BY <1>1 DEF PageFrom
<1>3. page.items \in Seq(X)
  <2>1. start + 1 \in 1 .. Len(L) + 1 /\ \A i \in start + 1 .. e : i \in 1 .. Len(L)
    BY <1>2
  <2>2. SubSeq(L, start + 1, e) \in Seq(X)
    BY <1>2, <2>1
  <2> QED
    BY <1>2, <2>2
<1>4. page.next \in X \cup {NoCursor}
  <2>1. e < Len(L) => e \in 1 .. Len(L)
    BY <1>2
  <2>2. \A a \in 1 .. Len(L) : L[a] \in X
    OBVIOUS
  <2> QED
    BY <1>2, <2>1, <2>2
<1>5. last.rows \in Seq(X)
  BY DEF Walked
<1>6. last.rows \o page.items \in Seq(X)
  BY <1>3, <1>5, ConcatProperties
<1>7. [rows |-> last.rows \o page.items, next |-> page.next] \in Walked(X)
  BY <1>4, <1>6 DEF Walked
<1>8. NextPage(L, limit, n, last)
        = IF n > 1 /\ last.next = NoCursor THEN last ELSE [rows |-> last.rows \o page.items, next |-> page.next]
  BY DEF NextPage, page
<1> QED
  BY <1>7, <1>8

\* Each request meets a table that is answered from a list.
ServesEach(X, N, tables, view, lists) ==
  /\ N \in Nat /\ Len(tables) = N
  /\ \A n \in 1 .. N : Serves(X, tables[n], view, lists[n])

\* A walk is one page after the other, of the list that stands when it is asked for.
LEMMA WalkOf ==
  ASSUME NEW X, NEW N, NEW tables, NEW view, NEW limit \in Nat \ {0}, NEW lists,
         ServesEach(X, N, tables, view, lists)
  PROVE  \E w : Walks(X, N, lists, limit, w) /\ Walk(tables, view, limit) = w[N]
<1> DEFINE S == Walked(X)
           step == [p \in S \X (1 .. N) |-> NextPage(lists[p[2]], limit, p[2], p[1])]
           Pace(n, last) ==
             IF n > 1 /\ last.next = NoCursor THEN last
             ELSE [rows |-> last.rows \o Query(tables[n], Context, view, limit, last.next).rows,
                   next |-> Query(tables[n], Context, view, limit, last.next).next]
           Walking(f) == [n \in 0 .. N |-> IF n = 0 THEN Setout ELSE Pace(n, f[n - 1])]
           walk == CHOOSE f : f = Walking(f)
<1>1. N \in Nat /\ Len(tables) = N
  BY DEF ServesEach
<1>2. Walk(tables, view, limit) = walk[N]
  <2>1. Walk(tables, view, limit)
          = LET w == CHOOSE f : f = [n \in 0 .. Len(tables) |-> IF n = 0 THEN Setout ELSE Pace(n, f[n - 1])]
            IN  w[Len(tables)]
    BY DEF Walk, WithPage, Setout
  <2> QED
    BY <1>1, <2>1
<1>3. \A n \in 1 .. N : Serves(X, tables[n], view, lists[n])
  BY DEF ServesEach
<1>4. ASSUME NEW n \in 1 .. N, NEW last \in S
      PROVE  Pace(n, last) = NextPage(lists[n], limit, n, last) /\ NextPage(lists[n], limit, n, last) \in S
  <2>1. Serves(X, tables[n], view, lists[n])
    BY <1>3
  <2>2. last.next \in X \cup {NoCursor}
    BY DEF Walked
  <2>3. /\ Query(tables[n], Context, view, limit, last.next).rows = Paginate(lists[n], limit, last.next).items
        /\ Query(tables[n], Context, view, limit, last.next).next = Paginate(lists[n], limit, last.next).next
    BY <2>1, <2>2 DEF Serves
  <2>4. Pace(n, last) = NextPage(lists[n], limit, n, last)
    BY <2>3 DEF NextPage
  <2>5. NextPage(lists[n], limit, n, last) \in S
    BY <2>1, PageStays DEF Serves
  <2> QED
    BY <2>4, <2>5
<1> HIDE DEF Pace
<1>5. step \in [S \X (1 .. N) -> S]
  <2>1. \A last \in S, n \in 1 .. N : NextPage(lists[n], limit, n, last) \in S
    BY <1>4
  <2> HIDE DEF S
  <2> QED
    BY <2>1
<1>6. Setout \in S
  BY DEF Setout, Walked
<1>7. PICK f : Follows(N, S, Setout, step, f)
  <2> HIDE DEF step, S
  <2> QED
    BY <1>1, <1>5, <1>6, Recursion
<1> HIDE DEF S
<1>8. \A n \in 1 .. N : n \in 0 .. N /\ n - 1 \in 0 .. N /\ n # 0
  BY <1>1
<1>9. f = Walking(f)
  <2>1. f = [n \in 0 .. N |-> f[n]]
    BY <1>7 DEF Follows
  <2>2. ASSUME NEW n \in 0 .. N PROVE f[n] = IF n = 0 THEN Setout ELSE Pace(n, f[n - 1])
    <3>1. CASE n = 0
      BY <1>7, <3>1 DEF Follows
    <3>2. CASE n # 0
      <4>1. n \in 1 .. N
        BY <3>2
      <4>2. f[n - 1] \in S /\ f[n] = step[<<f[n - 1], n>>]
        BY <1>7, <1>8, <4>1 DEF Follows
      <4>3. f[n] = NextPage(lists[n], limit, n, f[n - 1])
        BY <4>1, <4>2
      <4> QED
        BY <1>4, <3>2, <4>1, <4>2, <4>3
    <3> QED
      BY <3>1, <3>2
  <2> QED
    BY <2>1, <2>2
<1>10. walk = Walking(walk)
  <2> HIDE DEF Walking
  <2> QED
    BY <1>9
<1> HIDE DEF walk
<1>11. walk[0] = Setout /\ \A n \in 1 .. N : walk[n] = Pace(n, walk[n - 1])
  <2>1. \A n \in 0 .. N : walk[n] = IF n = 0 THEN Setout ELSE Pace(n, walk[n - 1])
    BY <1>10
  <2>2. 0 \in 0 .. N
    BY <1>1
  <2> QED
    BY <1>8, <2>1, <2>2
<1>12. \A n \in 0 .. N : walk[n] \in S
  <2> DEFINE wrong == {n \in 0 .. N : walk[n] \notin S}
  <2> SUFFICES ASSUME wrong # {} PROVE FALSE
    OBVIOUS
  <2>1. PICK n \in wrong : \A k \in wrong : n <= k
    BY <1>1, LeastNumber
  <2>2. n \in 0 .. N /\ walk[n] \notin S
    BY <2>1
  <2>3. n # 0
    BY <1>6, <1>11, <2>2
  <2>4. n \in 1 .. N /\ n - 1 \in 0 .. N /\ ~(n <= n - 1)
    BY <1>1, <2>2, <2>3
  <2>5. walk[n - 1] \in S
    BY <2>1, <2>4
  <2> QED
    BY <1>4, <1>11, <2>2, <2>4, <2>5
<1>13. \A n \in 1 .. N : walk[n] = NextPage(lists[n], limit, n, walk[n - 1])
  BY <1>4, <1>8, <1>11, <1>12
<1>14. Walks(X, N, lists, limit, walk)
  BY <1>11, <1>12, <1>13 DEF Walks, S
<1> QED
  BY <1>2, <1>14

\* The head of a list.
LEMMA HeadOf ==
  ASSUME NEW X, NEW L \in Seq(X), NEW e \in 0 .. Len(L)
  PROVE  /\ SubSeq(L, 1, e) \in Seq(X) /\ Len(SubSeq(L, 1, e)) = e
         /\ \A i \in 1 .. e : SubSeq(L, 1, e)[i] = L[i]
         /\ ToSet(SubSeq(L, 1, e)) = {L[i] : i \in 1 .. e}
<1> DEFINE h == SubSeq(L, 1, e)
<1>1. h = [i \in 1 .. e |-> L[i]]
  OBVIOUS
<1>2. e \in Nat /\ \A i \in 1 .. e : L[i] \in X
  OBVIOUS
<1> HIDE DEF h
<1>3. h \in Seq(X) /\ Len(h) = e /\ \A i \in 1 .. e : h[i] = L[i]
  BY <1>1, <1>2
<1>4. ToSet(h) = {L[i] : i \in 1 .. e}
  BY <1>1 DEF ToSet
<1> QED
  BY <1>3, <1>4 DEF h

\* A head and the stretch behind it are a longer head.
LEMMA HeadGrows ==
  ASSUME NEW X, NEW L \in Seq(X), NEW e \in 0 .. Len(L), NEW f \in e .. Len(L)
  PROVE  SubSeq(L, 1, e) \o SubSeq(L, e + 1, f) = SubSeq(L, 1, f)
<1> DEFINE s == SubSeq(L, 1, e)
           t == SubSeq(L, e + 1, f)
           u == s \o t
<1>1. e \in Nat /\ f \in Nat /\ e <= f /\ f <= Len(L) /\ Len(L) \in Nat
  OBVIOUS
<1>2. s \in Seq(X) /\ Len(s) = e /\ \A i \in 1 .. e : s[i] = L[i]
  BY HeadOf
<1>3. t \in Seq(X) /\ Len(t) = f - e /\ \A i \in 1 .. f - e : t[i] = L[e + i]
  BY PartOf
<1> HIDE DEF s, t
<1>4. u \in Seq(X) /\ Len(u) = f /\ Concatenates(s, t, u)
  <2>1. u \in Seq(X) /\ Len(u) = Len(s) + Len(t) /\ Concatenates(s, t, u)
    BY <1>2, <1>3, Joins
  <2> QED
    BY <1>1, <1>2, <1>3, <2>1
<1> HIDE DEF u
<1>5. /\ \A a \in 1 .. e : u[a] = s[a]
      /\ \A a \in e + 1 .. f : a - e \in 1 .. f - e /\ u[a] = t[a - e]
  <2>1. Len(s) + Len(t) = f /\ Len(s) = e /\ Len(t) = f - e
    BY <1>1, <1>2, <1>3
  <2> QED
    BY <1>4, <2>1 DEF Concatenates
<1>6. \A a \in 1 .. f : u[a] = L[a]
  <2> TAKE a \in 1 .. f
  <2>1. CASE a \in 1 .. e
    BY <1>2, <1>5, <2>1
  <2>2. CASE a \in e + 1 .. f
    <3>1. e + (a - e) = a
      BY <1>1, <2>2
    <3> QED
      BY <1>3, <1>5, <2>2, <3>1
  <2> QED
    BY <1>1, <2>1, <2>2
<1>7. u = [a \in 1 .. f |-> u[a]]
  BY <1>1, <1>4
<1>8. SubSeq(L, 1, f) = [a \in 1 .. f |-> L[a]]
  BY <1>1
<1>9. u = SubSeq(L, 1, f)
  BY <1>6, <1>7, <1>8
<1> QED
  BY <1>9 DEF u, s, t

\* A client that has the first rows of a list, and at least one of each page.
HasHead(L, n, s) ==
  \E e \in 0 .. Len(L) :
    /\ s.rows = SubSeq(L, 1, e)
    /\ \/ e = Len(L) /\ s.next = NoCursor
       \/ e < Len(L) /\ e >= n /\ e # 0 /\ s.next = L[e]

\* The first page is a head.
LEMMA SetsOut ==
  ASSUME NEW N \in Nat, NEW L \in Seq(1 .. N), IsInjective(L), NEW limit \in Nat \ {0}
  PROVE  HasHead(L, 1, NextPage(L, limit, 1, Setout))
<1> DEFINE page == Paginate(L, limit, NoCursor)
<1>1. PICK start, e : PageFrom(L, limit, NoCursor, page, start, e)
  BY PageOf
<1> HIDE DEF page
<1>2. NoCursor \notin ToSet(L)
  <2>1. ToSet(L) \subseteq 1 .. N
    BY Members
  <2> QED
    BY <2>1 DEF NoCursor
<1>3. /\ start = 0 /\ e \in start .. Len(L)
      /\ page.items = SubSeq(L, start + 1, e)
      /\ page.next = (IF e < Len(L) THEN L[e] ELSE NoCursor)
      /\ e = Len(L) \/ e = start + limit
  BY <1>1, <1>2 DEF PageFrom
<1>4. e \in 0 .. Len(L) /\ page.items = SubSeq(L, 1, e)
  BY <1>3
<1>5. <<>> \o SubSeq(L, 1, e) = SubSeq(L, 1, e)
  <2>1. SubSeq(L, 1, e) \in Seq(1 .. N)
    BY <1>4, HeadOf
  <2> QED
    BY <2>1
<1>6. NextPage(L, limit, 1, Setout) = [rows |-> SubSeq(L, 1, e), next |-> page.next]
  BY <1>4, <1>5 DEF NextPage, Setout, page
<1>7. e = Len(L) \/ (e < Len(L) /\ e >= 1 /\ e # 0)
  BY <1>3
<1>8. NextPage(L, limit, 1, Setout).rows = SubSeq(L, 1, e) /\ NextPage(L, limit, 1, Setout).next = page.next
  BY <1>6
<1> QED
  BY <1>3, <1>4, <1>7, <1>8 DEF HasHead

\* Every later page makes it longer.
LEMMA HeadExtends ==
  ASSUME NEW N \in Nat, NEW L \in Seq(1 .. N), IsInjective(L), NEW limit \in Nat \ {0},
         NEW n \in Nat \ {0}, NEW s, HasHead(L, n, s)
  PROVE  HasHead(L, n + 1, NextPage(L, limit, n + 1, s))
<1>1. PICK e \in 0 .. Len(L) :
        /\ s.rows = SubSeq(L, 1, e)
        /\ \/ e = Len(L) /\ s.next = NoCursor
           \/ e < Len(L) /\ e >= n /\ e # 0 /\ s.next = L[e]
  BY DEF HasHead
<1>2. CASE e = Len(L) /\ s.next = NoCursor
  <2>1. NextPage(L, limit, n + 1, s) = s
    <3>1. n + 1 > 1
      OBVIOUS
    <3> QED
      BY <1>2, <3>1 DEF NextPage
  <2> QED
    BY <1>1, <1>2, <2>1 DEF HasHead
<1>3. CASE e < Len(L) /\ e >= n /\ e # 0 /\ s.next = L[e]
  <2> DEFINE page == Paginate(L, limit, s.next)
  <2>1. PICK start, f : PageFrom(L, limit, s.next, page, start, f)
    BY PageOf
  <2>2. e \in DOMAIN L /\ s.next \in 1 .. N /\ s.next # NoCursor
    <3>1. e \in 1 .. Len(L)
      BY <1>3
    <3>2. L[e] \in 1 .. N
      BY <3>1
    <3> QED
      BY <1>3, <3>1, <3>2 DEF NoCursor
  <2>3. NextPage(L, limit, n + 1, s) = [rows |-> s.rows \o page.items, next |-> page.next]
    BY <2>2 DEF NextPage
  <2> HIDE DEF page
  <2>4. /\ start = e /\ f \in start .. Len(L)
        /\ page.items = SubSeq(L, start + 1, f)
        /\ page.next = (IF f < Len(L) THEN L[f] ELSE NoCursor)
        /\ f = Len(L) \/ f = start + limit
    BY <1>3, <2>1, <2>2 DEF PageFrom
  <2>5. s.rows \o page.items = SubSeq(L, 1, f)
    BY <1>1, <2>4, HeadGrows
  <2>6. f \in 0 .. Len(L) /\ (f = Len(L) \/ (f < Len(L) /\ f >= n + 1 /\ f # 0))
    BY <1>3, <2>4
  <2>7. NextPage(L, limit, n + 1, s).rows = SubSeq(L, 1, f) /\ NextPage(L, limit, n + 1, s).next = page.next
    BY <2>3, <2>5
  <2> QED
    BY <2>4, <2>6, <2>7 DEF HasHead
<1> QED
  BY <1>1, <1>2, <1>3

\* The pages of a list that stands still are the list.
LEMMA StillWalk ==
  ASSUME NEW N \in Nat, NEW L \in Seq(1 .. N), IsInjective(L), NEW limit \in Nat \ {0}, NEW lists, NEW w,
         Walks(1 .. N, N + 1, lists, limit, w), \A n \in 1 .. N + 1 : lists[n] = L
  PROVE  w[N + 1] = [rows |-> L, next |-> NoCursor]
<1> DEFINE M == N + 1
<1>1. /\ w[0] = Setout /\ \A n \in 1 .. M : w[n] = NextPage(L, limit, n, w[n - 1])
      /\ \A n \in 0 .. M : w[n] \in Walked(1 .. N)
  BY DEF Walks
<1>2. M \in Nat /\ M # 0 /\ 1 \in 1 .. M /\ 1 - 1 = 0
  OBVIOUS
<1>3. HasHead(L, 1, w[1])
  <2>1. w[1] = NextPage(L, limit, 1, Setout)
    BY <1>1, <1>2
  <2> QED
    BY <2>1, SetsOut
<1>4. \A n \in 1 .. M : HasHead(L, n, w[n])
  <2> DEFINE wrong == {n \in 0 .. M : n # 0 /\ ~HasHead(L, n, w[n])}
  <2> SUFFICES ASSUME wrong # {} PROVE FALSE
    BY <1>2
  <2>1. PICK n \in wrong : \A k \in wrong : n <= k
    BY <1>2, LeastNumber
  <2>2. n \in 0 .. M /\ n # 0 /\ ~HasHead(L, n, w[n])
    BY <2>1
  <2>3. n # 1
    BY <1>3, <2>2
  <2> DEFINE m == n - 1
  <2>4. m \in Nat \ {0} /\ m \in 0 .. M /\ ~(n <= m) /\ m + 1 = n /\ n \in 1 .. M
    BY <1>2, <2>2, <2>3
  <2>5. HasHead(L, m, w[m])
    BY <2>1, <2>4
  <2>6. w[n] = NextPage(L, limit, n, w[m])
    BY <1>1, <2>4
  <2> HIDE DEF m, M
  <2>7. HasHead(L, m + 1, NextPage(L, limit, m + 1, w[m]))
    BY <2>4, <2>5, HeadExtends
  <2> QED
    BY <2>2, <2>4, <2>6, <2>7
<1>5. PICK e \in 0 .. Len(L) :
        /\ w[M].rows = SubSeq(L, 1, e)
        /\ \/ e = Len(L) /\ w[M].next = NoCursor
           \/ e < Len(L) /\ e >= M /\ e # 0 /\ w[M].next = L[e]
  <2>1. M \in 1 .. M
    BY <1>2
  <2> HIDE DEF M
  <2>2. HasHead(L, M, w[M])
    BY <1>4, <2>1
  <2> QED
    BY <2>2 DEF HasHead
<1>6. Len(L) <= N
  <2>1. Len(L) \in 0 .. N
    BY Fills
  <2> QED
    BY <2>1
<1>7. w[M].rows = SubSeq(L, 1, Len(L)) /\ w[M].next = NoCursor
  BY <1>5, <1>6
<1>8. SubSeq(L, 1, Len(L)) = L
  OBVIOUS
<1>9. w[M] \in Walked(1 .. N)
  BY <1>1, <1>2
<1> HIDE DEF M
<1>10. w[M] = [rows |-> w[M].rows, next |-> w[M].next]
  BY <1>9 DEF Walked
<1>11. w[M] = [rows |-> L, next |-> NoCursor]
  BY <1>7, <1>8, <1>10
<1> QED
  BY <1>11 DEF M

\* A client that has the members of a list up to its cursor, and one of each page but the
\* first at least.
HasUpTo(L, n, s) ==
  \/ s.next = NoCursor /\ ToSet(L) \subseteq ToSet(s.rows)
  \/ \E e \in 1 .. Len(L) :
       e < Len(L) /\ e >= n - 1 /\ s.next = L[e] /\ \A a \in 1 .. e : L[a] \in ToSet(s.rows)

\* A page from behind the cursor, or from before it, leaves no gap.
LEMMA PageAdds ==
  ASSUME NEW N \in Nat, NEW L \in Seq(1 .. N), IsInjective(L), NEW limit \in Nat \ {0},
         NEW n \in Nat, n > 1, NEW s \in Walked(1 .. N), s.next # NoCursor, NEW start, NEW e,
         PageFrom(L, limit, s.next, Paginate(L, limit, s.next), start, e),
         start >= n - 2, \A a \in 1 .. start : L[a] \in ToSet(s.rows)
  PROVE  HasUpTo(L, n, NextPage(L, limit, n, s))
<1> DEFINE page == Paginate(L, limit, s.next)
           t == NextPage(L, limit, n, s)
<1>1. t.rows = s.rows \o page.items /\ t.next = page.next
  BY DEF NextPage
<1> HIDE DEF page, t
<1>2. /\ start \in 0 .. Len(L) /\ e \in start .. Len(L)
      /\ e = Len(L) \/ e = start + limit
      /\ page.items = SubSeq(L, start + 1, e)
      /\ page.next = (IF e < Len(L) THEN L[e] ELSE NoCursor)
  BY DEF PageFrom, page
<1>3. page.items \in Seq(1 .. N) /\ \A a \in start + 1 .. e : L[a] \in ToSet(page.items)
  <2>1. /\ SubSeq(L, start + 1, e) \in Seq(1 .. N)
        /\ ToSet(SubSeq(L, start + 1, e)) = {L[a] : a \in start + 1 .. e}
    BY <1>2, PartOf
  <2>2. page.items = SubSeq(L, start + 1, e)
    BY <1>2
  <2> QED
    BY <2>1, <2>2
<1>4. ToSet(t.rows) = ToSet(s.rows) \cup ToSet(page.items)
  <2>1. s.rows \in Seq(1 .. N)
    BY DEF Walked
  <2> QED
    BY <1>1, <1>3, <2>1, Joins DEF Concatenates
<1>5. \A a \in 1 .. e : L[a] \in ToSet(t.rows)
  <2> TAKE a \in 1 .. e
  <2>1. a \in 1 .. start \/ a \in start + 1 .. e
    BY <1>2
  <2> QED
    BY <1>3, <1>4, <2>1
<1>6. CASE e = Len(L)
  <2>1. ToSet(L) \subseteq ToSet(t.rows)
    <3>1. DOMAIN L = 1 .. e
      BY <1>6
    <3> QED
      BY <1>5, <3>1 DEF ToSet
  <2>2. t.next = NoCursor
    BY <1>1, <1>2, <1>6
  <2> QED
    BY <2>1, <2>2 DEF HasUpTo, t
<1>7. CASE e # Len(L)
  <2>1. e \in 1 .. Len(L) /\ e < Len(L) /\ e >= n - 1
    BY <1>2, <1>7
  <2>2. t.next = L[e]
    BY <1>1, <1>2, <2>1
  <2> QED
    BY <1>5, <2>1, <2>2 DEF HasUpTo, t
<1> QED
  BY <1>6, <1>7

\* Every later page reaches farther.
LEMMA UpToExtends ==
  ASSUME NEW N \in Nat, NEW L \in Seq(1 .. N), IsInjective(L), NEW limit \in Nat \ {0},
         NEW n \in Nat, n > 1, NEW s \in Walked(1 .. N), HasUpTo(L, n, s)
  PROVE  HasUpTo(L, n + 1, NextPage(L, limit, n + 1, s))
<1>1. CASE s.next = NoCursor
  <2>1. \A e \in 1 .. Len(L) : L[e] # NoCursor
    <3>1. \A e \in 1 .. Len(L) : L[e] \in 1 .. N
      OBVIOUS
    <3> QED
      BY <3>1 DEF NoCursor
  <2>2. ToSet(L) \subseteq ToSet(s.rows)
    BY <1>1, <2>1 DEF HasUpTo
  <2>3. n + 1 > 1
    OBVIOUS
  <2>4. NextPage(L, limit, n + 1, s) = s
    BY <1>1, <2>3 DEF NextPage
  <2> QED
    BY <1>1, <2>2, <2>4 DEF HasUpTo
<1>2. CASE s.next # NoCursor
  <2>1. PICK q \in 1 .. Len(L) :
          q < Len(L) /\ q >= n - 1 /\ s.next = L[q] /\ \A a \in 1 .. q : L[a] \in ToSet(s.rows)
    BY <1>2 DEF HasUpTo
  <2>2. PICK start, e : PageFrom(L, limit, s.next, Paginate(L, limit, s.next), start, e)
    BY PageOf
  <2>3. start = q
    <3>1. q \in DOMAIN L
      OBVIOUS
    <3> QED
      BY <2>1, <2>2, <3>1 DEF PageFrom
  <2>4. n + 1 \in Nat /\ n + 1 > 1 /\ start >= (n + 1) - 2
    BY <2>1, <2>3
  <2>5. \A a \in 1 .. start : L[a] \in ToSet(s.rows)
    BY <2>1, <2>3
  <2> QED
    BY <1>2, <2>2, <2>4, <2>5, PageAdds
<1> QED
  BY <1>1, <1>2

\* M has some of the members of L, in the same order.
Thins(L, M) ==
  /\ ToSet(M) \subseteq ToSet(L)
  /\ \A a, b \in DOMAIN M, c, d \in DOMAIN L : a < b /\ M[a] = L[c] /\ M[b] = L[d] => c < d

\* The first page of a list, the second of what is left of it.
LEMMA SecondPage ==
  ASSUME NEW N \in Nat, NEW L \in Seq(1 .. N), IsInjective(L), NEW M \in Seq(1 .. N), IsInjective(M),
         Thins(L, M), NEW limit \in Nat \ {0}, NEW s \in Walked(1 .. N), HasHead(L, 1, s)
  PROVE  HasUpTo(M, 2, NextPage(M, limit, 2, s))
<1>1. PICK q \in 0 .. Len(L) :
        /\ s.rows = SubSeq(L, 1, q)
        /\ \/ q = Len(L) /\ s.next = NoCursor
           \/ q < Len(L) /\ q >= 1 /\ q # 0 /\ s.next = L[q]
  BY DEF HasHead
<1>2. ToSet(s.rows) = {L[i] : i \in 1 .. q}
  BY <1>1, HeadOf
<1>3. DOMAIN L = 1 .. Len(L) /\ DOMAIN M = 1 .. Len(M)
  OBVIOUS
<1>4. CASE q = Len(L) /\ s.next = NoCursor
  <2>1. NextPage(M, limit, 2, s) = s
    BY <1>4 DEF NextPage
  <2>2. ToSet(L) \subseteq ToSet(s.rows)
    BY <1>2, <1>3, <1>4 DEF ToSet
  <2> QED
    BY <1>4, <2>1, <2>2 DEF HasUpTo, Thins
<1>5. CASE q < Len(L) /\ q >= 1 /\ q # 0 /\ s.next = L[q]
  <2>1. q \in DOMAIN L /\ L[q] \in 1 .. N
    BY <1>5
  <2>2. s.next # NoCursor
    BY <1>5, <2>1 DEF NoCursor
  <2>3. PICK start, e : PageFrom(M, limit, s.next, Paginate(M, limit, s.next), start, e)
    BY PageOf
  <2>4. start \in 0 .. Len(M)
    BY <2>3 DEF PageFrom
  <2>5. ASSUME NEW a \in 1 .. start PROVE M[a] \in ToSet(s.rows)
    <3>1. start # 0 /\ a \in DOMAIN M /\ a <= start
      BY <2>4
    <3>2. s.next \in ToSet(M)
      BY <2>3, <3>1 DEF PageFrom
    <3>3. PICK b \in DOMAIN M : M[b] = s.next
      BY <3>2 DEF ToSet
    <3>4. b = start
      BY <2>3, <3>3 DEF PageFrom
    <3>5. M[a] \in ToSet(L)
      BY <3>1 DEF ToSet, Thins
    <3>6. PICK c \in DOMAIN L : L[c] = M[a]
      BY <3>5 DEF ToSet
    <3>7. CASE a < b
      <4>1. c < q
        BY <1>5, <2>1, <3>1, <3>3, <3>6, <3>7 DEF Thins
      <4>2. c \in 1 .. q
        BY <1>3, <4>1
      <4> QED
        BY <1>2, <3>6, <4>2
    <3>8. CASE a = b
      <4>1. M[a] = L[q] /\ q \in 1 .. q
        BY <1>5, <3>3, <3>8
      <4> QED
        BY <1>2, <4>1
    <3>9. a < b \/ a = b
      BY <2>4, <3>1, <3>4
    <3> QED
      BY <3>7, <3>8, <3>9
  <2> DEFINE n == 2
  <2>6. n \in Nat /\ n > 1 /\ start >= n - 2
    BY <2>4
  <2>7. \A a \in 1 .. start : M[a] \in ToSet(s.rows)
    BY <2>5
  <2> HIDE DEF n
  <2>8. HasUpTo(M, n, NextPage(M, limit, n, s))
    BY <2>2, <2>3, <2>6, <2>7, PageAdds
  <2> QED
    BY <2>8 DEF n
<1> QED
  BY <1>1, <1>4, <1>5

\* A client misses no row of a list that thinned after the first page.
LEMMA ThinnedWalk ==
  ASSUME NEW N \in Nat, NEW L \in Seq(1 .. N), IsInjective(L), NEW M \in Seq(1 .. N), IsInjective(M),
         Thins(L, M), NEW limit \in Nat \ {0}, NEW lists, NEW w,
         Walks(1 .. N, N + 1, lists, limit, w), \A n \in 1 .. N + 1 : lists[n] = IF n = 1 THEN L ELSE M
  PROVE  w[N + 1].next = NoCursor /\ ToSet(M) \subseteq ToSet(w[N + 1].rows)
<1> DEFINE K == N + 1
<1>1. /\ w[0] = Setout /\ \A n \in 1 .. K : w[n] = NextPage(lists[n], limit, n, w[n - 1])
      /\ \A n \in 0 .. K : w[n] \in Walked(1 .. N)
  BY DEF Walks
<1>2. K \in Nat /\ K # 0 /\ 1 \in 1 .. K /\ 1 - 1 = 0 /\ 1 \in 0 .. K
  OBVIOUS
<1>3. HasHead(L, 1, w[1])
  <2>1. w[1] = NextPage(L, limit, 1, Setout)
    BY <1>1, <1>2
  <2> QED
    BY <2>1, SetsOut
<1>4. Len(L) <= N /\ Len(M) <= N
  <2>1. Len(L) \in 0 .. N
    BY Fills
  <2>2. Len(M) \in 0 .. N
    BY Fills
  <2> QED
    BY <2>1, <2>2
<1>5. CASE N = 0
  <2>1. PICK q \in 0 .. Len(L) :
          /\ w[1].rows = SubSeq(L, 1, q)
          /\ \/ q = Len(L) /\ w[1].next = NoCursor
             \/ q < Len(L) /\ q >= 1 /\ q # 0 /\ w[1].next = L[q]
    BY <1>3 DEF HasHead
  <2>2. w[1].next = NoCursor
    BY <1>4, <1>5, <2>1
  <2>3. ToSet(M) = {}
    <3>1. DOMAIN M = {}
      BY <1>4, <1>5
    <3> QED
      BY <3>1 DEF ToSet
  <2> QED
    BY <1>5, <2>2, <2>3
<1>6. CASE N # 0
  <2>1. 2 \in 1 .. K /\ 2 - 1 = 1 /\ 2 # 1
    BY <1>6
  <2>2. HasUpTo(M, 2, w[2])
    <3>1. lists[2] = M
      BY <2>1
    <3>2. w[2] = NextPage(lists[2], limit, 2, w[2 - 1])
      BY <1>1, <2>1
    <3>3. w[2] = NextPage(M, limit, 2, w[1])
      BY <2>1, <3>1, <3>2
    <3>4. w[1] \in Walked(1 .. N)
      BY <1>1, <1>2
    <3> QED
      BY <1>3, <3>3, <3>4, SecondPage
  <2>3. \A n \in 1 .. K : n > 1 => HasUpTo(M, n, w[n])
    <3> DEFINE wrong == {n \in 0 .. K : n > 1 /\ ~HasUpTo(M, n, w[n])}
    <3> SUFFICES ASSUME wrong # {} PROVE FALSE
      BY <1>2
    <3>1. PICK n \in wrong : \A k \in wrong : n <= k
      BY <1>2, LeastNumber
    <3>2. n \in 0 .. K /\ n > 1 /\ ~HasUpTo(M, n, w[n])
      BY <3>1
    <3>3. n # 2
      BY <2>2, <3>2
    <3> DEFINE m == n - 1
    <3>4. m \in Nat /\ m > 1 /\ m \in 0 .. K /\ ~(n <= m) /\ m + 1 = n /\ n \in 1 .. K /\ n # 1
      BY <1>2, <3>2, <3>3
    <3>5. HasUpTo(M, m, w[m])
      BY <3>1, <3>4
    <3>6. w[n] = NextPage(M, limit, n, w[m])
      BY <1>1, <3>4
    <3>7. w[m] \in Walked(1 .. N)
      BY <1>1, <3>4
    <3> HIDE DEF m, K
    <3>8. HasUpTo(M, m + 1, NextPage(M, limit, m + 1, w[m]))
      BY <3>4, <3>5, <3>7, UpToExtends
    <3> QED
      BY <3>2, <3>4, <3>6, <3>8
  <2>4. HasUpTo(M, K, w[K])
    <3>1. K \in 1 .. K /\ K > 1
      BY <1>6
    <3> HIDE DEF K
    <3> QED
      BY <2>3, <3>1
  <2>5. ASSUME NEW e \in 1 .. Len(M), e < Len(M), e >= K - 1 PROVE FALSE
    BY <1>4, <2>5
  <2> QED
    BY <2>4, <2>5 DEF HasUpTo
<1> QED
  BY <1>5, <1>6

-----------------------------------------------------------------------------
(* Answers. *)

\* The columns a query knows, what they say of a row, and which of two rows goes first.
Ids == {p.id : p \in ToSet(Schema)} \cup {Gone}
Properties == [id \in Ids |-> PropertyOf(Context, id)]
Shown(row) == [id \in Ids |-> RowValue(PropertyOf(Context, id), row, Context)]
RowSign(sorts, x, y) == CompareRows(sorts, Properties, Shown(x), Shown(y))
Sooner(table, sorts, i, j) ==
  \/ RowSign(sorts, table[i], table[j]) < 0
  \/ RowSign(sorts, table[i], table[j]) = 0 /\ LoadedBefore(RowLevels(table), i, j)

\* A column by its id.
LEMMA ColumnOf ==
  ASSUME NEW id, \E p \in ToSet(Schema) : p.id = id
  PROVE  /\ id \in Ids /\ Properties[id] = Column(id) /\ PropertyOf(Context, id) = Column(id)
         /\ Column(id) \in ToSet(Schema) /\ Column(id).id = id
         /\ \A row : Shown(row)[id] = Cell(row, id)
<1>1. id \in Ids
  BY DEF Ids
<1>2. Context.properties = Schema
  BY DEF Context
<1>3. PropertyOf(Context, id) = Column(id)
  BY <1>2 DEF PropertyOf, Column
<1>4. Properties[id] = Column(id)
  BY <1>1, <1>3 DEF Properties
<1>5. \A row : Shown(row)[id] = Cell(row, id)
  BY <1>1, <1>3 DEF Shown, Cell
<1>6. Column(id) \in ToSet(Schema) /\ Column(id).id = id
  BY DEF Column
<1> QED
  BY <1>1, <1>3, <1>4, <1>5, <1>6

\* What the comparison of row pages means.
Means(table, sorts, values, X) ==
  LET d == RowSigns(sorts, Properties, values, X)
  IN  /\ SortableRows(sorts, Properties, values, X) /\ Coherent(X, d)
      /\ \A x, y \in X :
           /\ d[<<x, y>>] = RowSign(sorts, table[x], table[y])
           /\ d[<<x, y>>] < 0 => \A first \in BOOLEAN : InOrder(sorts, table[x], table[y], first)
           /\ d[<<x, y>>] = 0 => InOrder(sorts, table[x], table[y], TRUE)

\* The values a query computes are what its pages show, and the order is the order by them.
LEMMA PagesMean ==
  ASSUME NEW sorts \in Sortings, NEW X, NEW table, \A x \in X : table[x] \in RowPages,
         NEW values, \A x \in X : values[x] = Shown(table[x])
  PROVE  Means(table, sorts, values, X)
<1> DEFINE d == RowSigns(sorts, Properties, values, X)
<1>1. sorts \in Seq([property : SortIds, direction : {"asc", "desc"}])
  BY RowAssumption
<1>2. ASSUME NEW id \in SortIds PROVE Properties[id] = Column(id) /\ \A row : Shown(row)[id] = Cell(row, id)
  <2>1. \E p \in ToSet(Schema) : p.id = id
    BY RowAssumption
  <2> QED
    BY <2>1, ColumnOf
<1>3. \A x \in X, id \in SortIds : values[x][id] = Cell(table[x], id)
  BY <1>2
<1>4. SortableRows(sorts, Properties, values, X)
  <2>1. ASSUME NEW id \in SortIds PROVE Options(Properties[id])
    BY <1>2, ColumnsKnown
  <2>2. ASSUME NEW id \in SortIds, NEW x \in X
        PROVE  IsEmpty(values[x][id]) \/ Comparable(Properties[id], values[x][id])
    <3>1. IsEmpty(Cell(table[x], id)) \/ Comparable(Column(id), Cell(table[x], id))
      BY PagesCompare
    <3> QED
      BY <1>2, <1>3, <3>1
  <2> QED
    BY <1>1, <2>1, <2>2 DEF SortableRows
<1>5. /\ Coherent(X, d)
      /\ \A x, y \in X : d[<<x, y>>] < 0 =>
           \E k \in DOMAIN sorts :
             /\ AheadBy(sorts, Properties, values, x, y, k)
             /\ \A l \in 1 .. k - 1 : TiedBy(sorts, Properties, values, x, y, l)
      /\ \A x, y \in X : d[<<x, y>>] = 0 =>
           \A k \in DOMAIN sorts : TiedBy(sorts, Properties, values, x, y, k)
  BY <1>4, RowsCompared
<1>6. ASSUME NEW x \in X, NEW y \in X PROVE d[<<x, y>>] = RowSign(sorts, table[x], table[y])
  <2>1. values[x] = Shown(table[x]) /\ values[y] = Shown(table[y])
    OBVIOUS
  <2>2. d[<<x, y>>] = CompareRows(sorts, Properties, values[x], values[y])
    BY DEF RowSigns
  <2> HIDE DEF d
  <2> QED
    BY <2>1, <2>2 DEF RowSign
<1> HIDE DEF d
<1>7. \A k \in DOMAIN sorts : sorts[k].property \in SortIds
  <2> DEFINE R == [property : SortIds, direction : {"asc", "desc"}]
  <2>1. \A k \in DOMAIN sorts : sorts[k] \in R
    <3>1. sorts \in Seq(R)
      BY <1>1
    <3> HIDE DEF R
    <3> QED
      BY <3>1
  <2> QED
    BY <2>1
<1>8. \A x, y \in X, k \in DOMAIN sorts :
        LET id == sorts[k].property
        IN  /\ AheadBy(sorts, Properties, values, x, y, k)
                 <=> AheadOn(Column(id), sorts[k].direction, Cell(table[x], id), Cell(table[y], id))
            /\ TiedBy(sorts, Properties, values, x, y, k)
                 <=> TiedOn(Column(id), Cell(table[x], id), Cell(table[y], id))
  <2>1. \A k \in DOMAIN sorts : Properties[sorts[k].property] = Column(sorts[k].property)
    BY <1>2, <1>7
  <2> QED
    BY <1>3, <1>7, <2>1 DEF AheadBy, TiedBy
<1>9. ASSUME NEW x \in X, NEW y \in X, d[<<x, y>>] < 0, NEW first \in BOOLEAN
      PROVE  InOrder(sorts, table[x], table[y], first)
  <2>1. PICK k \in DOMAIN sorts :
          /\ AheadBy(sorts, Properties, values, x, y, k)
          /\ \A l \in 1 .. k - 1 : TiedBy(sorts, Properties, values, x, y, l)
    BY <1>5, <1>9
  <2>2. \A l \in 1 .. k - 1 : l \in DOMAIN sorts
    <3>1. DOMAIN sorts = 1 .. Len(sorts) /\ Len(sorts) \in Nat
      BY <1>1
    <3> QED
      BY <3>1
  <2> QED
    BY <1>8, <2>1, <2>2 DEF InOrder, Precedes, KeysOfRow
<1>10. ASSUME NEW x \in X, NEW y \in X, d[<<x, y>>] = 0 PROVE InOrder(sorts, table[x], table[y], TRUE)
  <2>1. \A k \in DOMAIN sorts : TiedBy(sorts, Properties, values, x, y, k)
    BY <1>5, <1>10
  <2> QED
    BY <1>8, <2>1 DEF InOrder, Precedes, KeysOfRow
<1> QED
  BY <1>4, <1>5, <1>6, <1>9, <1>10 DEF Means, d

\* L has the rows a view keeps, each once and in order, and a view is answered from it.
InTable(table, view, L) ==
  /\ L \in Seq(DOMAIN table) /\ IsInjective(L) /\ ToSet(L) = Kept(table, view)
  /\ \A a, b \in DOMAIN L : a < b => Sooner(table, view.sorts, L[a], L[b])
AnswersFrom(table, view, L) ==
  \A limit, cursor :
    Query(table, Context, view, limit, cursor)
      = AnswerSorted(L, Properties, Values(table, LoadRows(table), Properties, Context), view, limit, cursor)

\* What the engines see of the loaded rows.
LEMMA ValuesOf ==
  ASSUME NEW table, NEW rows
  PROVE  /\ DOMAIN Values(table, rows, Properties, Context) = ToSet(rows)
         /\ \A i \in ToSet(rows) : Values(table, rows, Properties, Context)[i] = Shown(table[i])
<1> DEFINE values == Values(table, rows, Properties, Context)
<1>1. DOMAIN Properties = Ids /\ \A id \in Ids : Properties[id] = PropertyOf(Context, id)
  BY DEF Properties
<1>2. ASSUME NEW row PROVE [id \in DOMAIN Properties |-> RowValue(Properties[id], row, Context)] = Shown(row)
  BY <1>1 DEF Shown
<1>3. values = [i \in ToSet(rows) |-> [id \in DOMAIN Properties |-> RowValue(Properties[id], table[i], Context)]]
  BY DEF Values
<1> HIDE DEF values
<1>4. DOMAIN values = ToSet(rows) /\ \A i \in ToSet(rows) : values[i] = Shown(table[i])
  BY <1>2, <1>3
<1> QED
  BY <1>4 DEF values

\* A query is refused, or it answers from the one list it sorts.
LEMMA QueryOf ==
  ASSUME NEW view \in Views, NEW table \in Seq(RowPages)
  PROVE  /\ Fails(table, view) => \A limit, cursor : Query(table, Context, view, limit, cursor) = Refused
         /\ ~Fails(table, view) => \E L : InTable(table, view, L) /\ AnswersFrom(table, view, L)
<1> DEFINE D == DOMAIN table
           rows == LoadRows(table)
           values == Values(table, rows, Properties, Context)
           verdicts == Verdicts(view.filters, Properties, values, Context.now)
           P == {a \in DOMAIN rows : verdicts[rows[a]] = "yes"}
           picked == Picked(rows, P)
           L == SortRows(picked, view.sorts, Properties, values)
<1>1. /\ rows \in Seq(D) /\ IsInjective(rows) /\ ToSet(rows) = ShownRows(table)
      /\ \A a, b \in DOMAIN rows : a < b => LoadedBefore(RowLevels(table), rows[a], rows[b])
  BY LoadedOf DEF Loads
<1>2. Context.properties = Schema /\ Context.now = Moment
  BY DEF Context
<1>3. \A limit, cursor :
        Query(table, Context, view, limit, cursor)
          = AnswerLoaded(rows, Properties, values, verdicts, view, limit, cursor)
  <2>1. Properties = [id \in {p.id : p \in ToSet(Context.properties)} \cup {Gone} |-> PropertyOf(Context, id)]
    BY <1>2 DEF Properties, Ids
  <2> QED
    BY <2>1 DEF Query, AnswerComputed
<1>4. DOMAIN values = ToSet(rows) /\ \A i \in ToSet(rows) : values[i] = Shown(table[i])
  BY ValuesOf
<1>5. \A i \in ToSet(rows) : verdicts[i] = VerdictOn(view, table[i])
  <2> DEFINE types == [id \in Ids |-> PropertyOf(Context, id).type]
  <2>1. [id \in DOMAIN Properties |-> Properties[id].type] = types
    BY DEF Properties
  <2>2. verdicts = [i \in DOMAIN values |-> FilterVerdict(view.filters, types, values[i], Moment)]
    BY <1>2, <2>1 DEF Verdicts
  <2>3. \A i \in ToSet(rows) : VerdictOn(view, table[i]) = FilterVerdict(view.filters, types, Shown(table[i]), Moment)
    BY DEF VerdictOn, Shown, Ids
  <2> HIDE DEF types, values, verdicts
  <2> QED
    BY <1>4, <2>2, <2>3
<1> HIDE DEF rows, values, verdicts
<1>6. Fails(table, view) <=> \E i \in ToSet(rows) : verdicts[i] = "throws"
  BY <1>1, <1>5 DEF Fails
<1>7. ASSUME Fails(table, view) PROVE \A limit, cursor : Query(table, Context, view, limit, cursor) = Refused
  BY <1>3, <1>6, <1>7 DEF AnswerLoaded
<1>8. ~Fails(table, view) =>
        \A limit, cursor :
          Query(table, Context, view, limit, cursor)
            = AnswerSorted(L, Properties, values, view, limit, cursor)
  BY <1>3, <1>6 DEF AnswerLoaded
<1>9. P \in SUBSET (DOMAIN rows) /\ \A a, b \in P : rows[a] = rows[b] => a = b
  BY <1>1 DEF IsInjective
<1>10. /\ picked \in Seq(D) /\ IsInjective(picked) /\ ToSet(picked) = {rows[a] : a \in P}
       /\ \A m, n \in DOMAIN picked :
            m < n => \E a, b \in P : a < b /\ picked[m] = rows[a] /\ picked[n] = rows[b]
  <2> HIDE DEF P
  <2> QED
    BY <1>1, <1>9, PickedKeeps
<1>11. ToSet(picked) = Kept(table, view)
  <2>1. ASSUME NEW a \in P PROVE rows[a] \in Kept(table, view)
    <3>1. rows[a] \in ToSet(rows)
      BY DEF ToSet
    <3> QED
      BY <1>1, <1>5, <3>1 DEF Kept
  <2>2. ASSUME NEW i \in Kept(table, view) PROVE \E a \in P : rows[a] = i
    <3>1. i \in ToSet(rows) /\ VerdictOn(view, table[i]) = "yes"
      BY <1>1 DEF Kept
    <3>2. PICK a \in DOMAIN rows : rows[a] = i
      BY <3>1 DEF ToSet
    <3> QED
      BY <1>5, <3>1, <3>2
  <2> HIDE DEF P, picked
  <2> QED
    BY <1>10, <2>1, <2>2
<1>12. \A x, y : Earlier(picked, x, y) => LoadedBefore(RowLevels(table), x, y)
  <2> SUFFICES ASSUME NEW x, NEW y, Earlier(picked, x, y) PROVE LoadedBefore(RowLevels(table), x, y)
    OBVIOUS
  <2>1. PICK m, n \in DOMAIN picked : m < n /\ picked[m] = x /\ picked[n] = y
    BY DEF Earlier
  <2>2. PICK a, b \in P : a < b /\ picked[m] = rows[a] /\ picked[n] = rows[b]
    BY <1>10, <2>1
  <2> QED
    BY <1>1, <2>1, <2>2
<1> HIDE DEF picked, P
<1> DEFINE X == ToSet(picked)
           sorts == view.sorts
           d == RowSigns(sorts, Properties, values, X)
<1>13. X \subseteq ToSet(rows) /\ X \subseteq D /\ \A x \in X : table[x] \in RowPages
  <2>1. X \subseteq ShownRows(table) /\ ShownRows(table) \subseteq D
    BY <1>11 DEF Kept, ShownRows
  <2>2. \A x \in D : table[x] \in RowPages
    OBVIOUS
  <2> QED
    BY <1>1, <2>1, <2>2
<1>14. sorts \in Sortings
  BY RowAssumption
<1>15. Means(table, sorts, values, X)
  <2> HIDE DEF X, sorts
  <2> QED
    BY <1>4, <1>13, <1>14, PagesMean
<1>16. Arranges(picked, d, L)
  <2>1. picked \in Seq(X)
    BY <1>10 DEF ToSet
  <2>2. SortableRows(sorts, Properties, values, X)
    BY <1>15 DEF Means
  <2> HIDE DEF X, sorts
  <2>3. Arranges(picked, d, SortRows(picked, sorts, Properties, values))
    BY <1>10, <2>1, <2>2, RowsSorted
  <2> QED
    BY <2>3 DEF sorts
<1> HIDE DEF L
<1>17. /\ L \in Seq(X) /\ IsInjective(L) /\ ToSet(L) = X
       /\ \A a, b \in DOMAIN L :
            a < b => d[<<L[a], L[b]>>] < 0 \/ (d[<<L[a], L[b]>>] = 0 /\ Earlier(picked, L[a], L[b]))
  BY <1>16 DEF Arranges
<1>18. \A x, y \in X : d[<<x, y>>] = RowSign(sorts, table[x], table[y])
  BY <1>15 DEF Means
<1> HIDE DEF d
<1>19. InTable(table, view, L)
  <2>1. L \in Seq(D)
    <3>1. \A a \in 1 .. Len(L) : L[a] \in D
      BY <1>13, <1>17
    <3> HIDE DEF X, D
    <3> QED
      BY <1>17, <3>1
  <2>2. ASSUME NEW a \in DOMAIN L, NEW b \in DOMAIN L, a < b PROVE Sooner(table, sorts, L[a], L[b])
    <3>1. L[a] \in X /\ L[b] \in X
      BY <1>17
    <3>2. d[<<L[a], L[b]>>] = RowSign(sorts, table[L[a]], table[L[b]])
      BY <1>18, <3>1
    <3>3. d[<<L[a], L[b]>>] < 0 \/ (d[<<L[a], L[b]>>] = 0 /\ Earlier(picked, L[a], L[b]))
      BY <1>17, <2>2
    <3> QED
      BY <1>12, <3>2, <3>3 DEF Sooner
  <2> QED
    BY <1>11, <1>17, <2>1, <2>2 DEF InTable
<1>20. ~Fails(table, view) => AnswersFrom(table, view, L)
  BY <1>8 DEF AnswersFrom, values, rows
<1> QED
  BY <1>7, <1>19, <1>20

\* One row goes first, and the view's order has it so.
LEMMA SoonerInOrder ==
  ASSUME NEW sorts \in Sortings, NEW table \in Seq(RowPages), NEW i \in DOMAIN table, NEW j \in DOMAIN table,
         Sooner(table, sorts, i, j)
  PROVE  /\ InOrder(sorts, table[i], table[j], LoadedBefore(RowLevels(table), i, j))
         /\ ~Sooner(table, sorts, j, i)
<1> DEFINE D == DOMAIN table
           values == [x \in D |-> Shown(table[x])]
           d == RowSigns(sorts, Properties, values, D)
           before(x, y) == LoadedBefore(RowLevels(table), x, y)
<1>1. \A x \in D : table[x] \in RowPages
  OBVIOUS
<1>2. \A x \in D : values[x] = Shown(table[x])
  OBVIOUS
<1>3. Means(table, sorts, values, D)
  <2> HIDE DEF values, D
  <2> QED
    BY <1>1, <1>2, PagesMean
<1>4. /\ Coherent(D, d)
      /\ \A x, y \in D :
           /\ d[<<x, y>>] = RowSign(sorts, table[x], table[y])
           /\ d[<<x, y>>] < 0 => \A first \in BOOLEAN : InOrder(sorts, table[x], table[y], first)
           /\ d[<<x, y>>] = 0 => InOrder(sorts, table[x], table[y], TRUE)
  BY <1>3 DEF Means
<1> HIDE DEF values, d
<1>5. before(i, j) => ~before(j, i)
  <2>1. LevelsFrom(table, RowLevels(table))
    BY LevelsOf
  <2> QED
    BY <2>1, LoadedOnce
<1>6. before(i, j) \in BOOLEAN
  BY DEF LoadedBefore
<1>7. \A x, y \in D : Sooner(table, sorts, x, y) <=> d[<<x, y>>] < 0 \/ (d[<<x, y>>] = 0 /\ before(x, y))
  BY <1>4 DEF Sooner
<1> HIDE DEF before
<1>8. InOrder(sorts, table[i], table[j], before(i, j))
  <2>1. CASE d[<<i, j>>] < 0
    BY <1>4, <1>6, <2>1
  <2>2. CASE d[<<i, j>>] = 0 /\ before(i, j)
    <3>1. before(i, j) = TRUE
      BY <1>6, <2>2
    <3>2. InOrder(sorts, table[i], table[j], TRUE)
      BY <1>4, <2>2
    <3> QED
      BY <3>1, <3>2
  <2> QED
    BY <1>7, <2>1, <2>2
<1>9. ASSUME Sooner(table, sorts, j, i) PROVE FALSE
  <2>1. d[<<i, j>>] \in Int /\ d[<<j, i>>] \in Int
    BY <1>4 DEF Coherent
  <2>2. d[<<i, j>>] > 0 <=> d[<<j, i>>] < 0
    BY <1>4 DEF Coherent
  <2>3. d[<<j, i>>] > 0 <=> d[<<i, j>>] < 0
    BY <1>4 DEF Coherent
  <2>4. d[<<i, j>>] < 0 \/ (d[<<i, j>>] = 0 /\ before(i, j))
    BY <1>7
  <2>5. d[<<j, i>>] < 0 \/ (d[<<j, i>>] = 0 /\ before(j, i))
    BY <1>7, <1>9
  <2> HIDE DEF D
  <2>6. before(i, j) /\ before(j, i)
    BY <2>1, <2>2, <2>3, <2>4, <2>5
  <2> QED
    BY <1>5, <2>6
<1> QED
  BY <1>8, <1>9 DEF before

\* The levels of a table are those of its parents.
LEMMA OneLeveling ==
  ASSUME NEW T, NEW table \in Seq(T), NEW U, NEW then \in Seq(U), Len(then) = Len(table),
         \A i \in DOMAIN table : then[i].parent = table[i].parent
  PROVE  RowLevels(then) = RowLevels(table)
<1> DEFINE N == Len(table)
           D == DOMAIN table
           l == RowLevels(table)
           m == RowLevels(then)
<1>1. N \in Nat /\ D = 1 .. N /\ DOMAIN then = D
  OBVIOUS
<1>2. /\ l \in [0 .. N -> SUBSET (0 .. N)] /\ l[0] = {0}
      /\ \A n \in 1 .. N : l[n] = {i \in D : table[i].parent \in l[n - 1]}
  BY LevelsOf DEF LevelsFrom
<1>3. /\ m \in [0 .. N -> SUBSET (0 .. N)] /\ m[0] = {0}
      /\ \A n \in 1 .. N : m[n] = {i \in D : then[i].parent \in m[n - 1]}
  <2>1. LevelsFrom(then, m)
    BY LevelsOf
  <2>2. Len(then) = N /\ DOMAIN then = D
    BY <1>1
  <2> HIDE DEF m, N, D
  <2> QED
    BY <2>1, <2>2 DEF LevelsFrom
<1> HIDE DEF l, m, N
<1>4. \A n \in 0 .. N : m[n] = l[n]
  <2> DEFINE wrong == {n \in 0 .. N : m[n] # l[n]}
  <2> SUFFICES ASSUME wrong # {} PROVE FALSE
    OBVIOUS
  <2>1. PICK n \in wrong : \A k \in wrong : n <= k
    BY <1>1, LeastNumber
  <2>2. n \in 0 .. N /\ m[n] # l[n]
    BY <2>1
  <2>3. n # 0
    BY <1>2, <1>3, <2>2
  <2>4. n \in 1 .. N /\ n - 1 \in 0 .. N /\ ~(n <= n - 1)
    BY <1>1, <2>2, <2>3
  <2>5. m[n - 1] = l[n - 1]
    BY <2>1, <2>4
  <2>6. {i \in D : then[i].parent \in m[n - 1]} = {i \in D : table[i].parent \in l[n - 1]}
    BY <2>5
  <2>7. l[n] = {i \in D : table[i].parent \in l[n - 1]}
    BY <1>2, <2>4
  <2>8. m[n] = {i \in D : then[i].parent \in m[n - 1]}
    BY <1>3, <2>4
  <2> QED
    BY <2>2, <2>6, <2>7, <2>8
<1>5. m = l
  <2>1. m = [n \in 0 .. N |-> m[n]]
    BY <1>3
  <2>2. l = [n \in 0 .. N |-> l[n]]
    BY <1>2
  <2> QED
    BY <1>4, <2>1, <2>2
<1> QED
  BY <1>5 DEF l, m

\* A table after one of its rows is archived.
LEMMA Archiving ==
  ASSUME NEW table \in Seq(RowPages), NEW i \in DOMAIN table, NEW view \in Views
  PROVE  LET then == [table EXCEPT ![i].archived = TRUE]
         IN  /\ then \in Seq(RowPages) /\ Len(then) = Len(table) /\ DOMAIN then = DOMAIN table
             /\ RowLevels(then) = RowLevels(table)
             /\ \A j \in ShownRows(then) : j \in DOMAIN table /\ then[j] = table[j]
             /\ ShownRows(then) \subseteq ShownRows(table)
             /\ Kept(then, view) \subseteq Kept(table, view)
             /\ Fails(then, view) => Fails(table, view)
<1> DEFINE then == [table EXCEPT ![i].archived = TRUE]
           D == DOMAIN table
           N == Len(table)
<1>1. N \in Nat /\ D = 1 .. N /\ \A j \in D : table[j] \in RowPages
  OBVIOUS
<1>2. DOMAIN then = D /\ then[i] = [table[i] EXCEPT !.archived = TRUE]
      /\ \A j \in D : j # i => then[j] = table[j]
  OBVIOUS
<1>3. then = [j \in D |-> then[j]]
  OBVIOUS
<1> HIDE DEF then
<1>4. then[i] \in RowPages /\ then[i].archived = TRUE /\ then[i].parent = table[i].parent
  <2>1. PICK n \in 0 .. MaxRows : table[i] \in {RowPage(n, f, parent, archived) :
                                                f \in Fillings, parent \in 0 .. n, archived \in BOOLEAN}
    BY <1>1 DEF RowPages
  <2>2. PICK f \in Fillings, parent \in 0 .. n, archived \in BOOLEAN :
          table[i] = RowPage(n, f, parent, archived)
    BY <2>1
  <2>3. \A gone \in BOOLEAN :
          [RowPage(n, f, parent, archived) EXCEPT !.archived = gone] = RowPage(n, f, parent, gone)
    BY DEF RowPage
  <2>4. \A gone \in BOOLEAN : RowPage(n, f, parent, gone) \in RowPages
    BY DEF RowPages
  <2> DEFINE gone == TRUE
  <2>5. gone \in BOOLEAN /\ then[i] = [table[i] EXCEPT !.archived = gone]
    BY <1>2
  <2> HIDE DEF gone
  <2>6. then[i] = RowPage(n, f, parent, gone) /\ RowPage(n, f, parent, gone) \in RowPages
    BY <2>2, <2>3, <2>4, <2>5
  <2>7. then[i].archived = gone /\ then[i].parent = parent /\ table[i].parent = parent
    BY <2>2, <2>6 DEF RowPage
  <2> QED
    BY <2>6, <2>7 DEF gone
<1>5. then \in Seq(RowPages) /\ Len(then) = N
  <2>1. \A j \in 1 .. N : then[j] \in RowPages
    BY <1>1, <1>2, <1>4
  <2>2. then = [j \in 1 .. N |-> then[j]]
    BY <1>1, <1>3
  <2>3. N \in Nat
    OBVIOUS
  <2> HIDE DEF N
  <2> QED
    BY <2>1, <2>2, <2>3
<1>6. \A j \in D : then[j].parent = table[j].parent
  BY <1>2, <1>4
<1>7. RowLevels(then) = RowLevels(table)
  BY <1>5, <1>6, OneLeveling
<1>8. i \notin ShownRows(then)
  <2> DEFINE S == D \ {i}
  <2>1. Shows(then, S)
    BY <1>2, <1>4 DEF Shows
  <2>2. S \in SUBSET (DOMAIN then) /\ i \notin S
    BY <1>2
  <2> HIDE DEF S
  <2> QED
    BY <2>1, <2>2 DEF ShownRows
<1>9. \A j \in ShownRows(then) : j \in D /\ then[j] = table[j]
  BY <1>2, <1>8 DEF ShownRows
<1>10. ShownRows(then) \subseteq ShownRows(table)
  <2> SUFFICES ASSUME NEW j \in ShownRows(then), NEW S \in SUBSET D, Shows(table, S) PROVE j \in S
    BY <1>2 DEF ShownRows
  <2>1. Shows(then, S)
    <3> SUFFICES ASSUME NEW k \in D, ~then[k].archived, then[k].parent \in S \cup {0} PROVE k \in S
      BY <1>2 DEF Shows
    <3>1. k # i /\ then[k] = table[k]
      BY <1>2, <1>4
    <3> QED
      BY <3>1 DEF Shows
  <2> QED
    BY <1>2, <2>1 DEF ShownRows
<1>11. Kept(then, view) \subseteq Kept(table, view)
  BY <1>9, <1>10 DEF Kept
<1>12. Fails(then, view) => Fails(table, view)
  BY <1>9, <1>10 DEF Fails
<1> QED
  BY <1>2, <1>5, <1>7, <1>9, <1>10, <1>11, <1>12 DEF then

\* What is left of a list when a row is archived keeps its order.
LEMMA ArchivingThins ==
  ASSUME NEW table \in Seq(RowPages), NEW i \in DOMAIN table, NEW view \in Views, NEW L, NEW M,
         InTable(table, view, L), InTable([table EXCEPT ![i].archived = TRUE], view, M)
  PROVE  Thins(L, M)
<1> DEFINE then == [table EXCEPT ![i].archived = TRUE]
           sorts == view.sorts
<1>1. /\ then \in Seq(RowPages) /\ RowLevels(then) = RowLevels(table)
      /\ \A j \in ShownRows(then) : j \in DOMAIN table /\ then[j] = table[j]
      /\ Kept(then, view) \subseteq Kept(table, view)
  BY Archiving
<1>2. InTable(then, view, M)
  OBVIOUS
<1> HIDE DEF then
<1>3. ToSet(M) = Kept(then, view) /\ \A a, b \in DOMAIN M : a < b => Sooner(then, sorts, M[a], M[b])
  BY <1>2 DEF InTable
<1>4. /\ ToSet(L) = Kept(table, view) /\ L \in Seq(DOMAIN table) /\ IsInjective(M)
      /\ \A a, b \in DOMAIN L : a < b => Sooner(table, sorts, L[a], L[b])
  BY <1>2 DEF InTable
<1>5. sorts \in Sortings
  BY RowAssumption
<1>6. ASSUME NEW a \in DOMAIN M, NEW b \in DOMAIN M, NEW c \in DOMAIN L, NEW d \in DOMAIN L,
             a < b, M[a] = L[c], M[b] = L[d]
      PROVE  c < d
  <2> DEFINE x == M[a]
             y == M[b]
  <2>1. x \in ShownRows(then) /\ y \in ShownRows(then)
    <3>1. x \in ToSet(M) /\ y \in ToSet(M)
      BY DEF ToSet
    <3> QED
      BY <1>3, <3>1 DEF Kept
  <2>2. Sooner(then, sorts, x, y)
    BY <1>3, <1>6
  <2>3. x \in DOMAIN table /\ y \in DOMAIN table /\ then[x] = table[x] /\ then[y] = table[y]
    BY <1>1, <2>1
  <2>4. Sooner(table, sorts, x, y)
    BY <1>1, <2>2, <2>3 DEF Sooner
  <2>5. ~Sooner(table, sorts, y, x)
    BY <1>5, <2>3, <2>4, SoonerInOrder
  <2>6. ~(d < c)
    <3>1. x = L[c] /\ y = L[d]
      BY <1>6
    <3> HIDE DEF x, y
    <3> QED
      BY <1>4, <2>5, <3>1
  <2>7. c # d
    <3>1. ASSUME c = d PROVE FALSE
      <4>1. M[a] = M[b]
        BY <1>6, <3>1
      <4>2. a = b
        BY <1>4, <4>1 DEF IsInjective
      <4>3. M \in Seq(DOMAIN then)
        BY <1>2 DEF InTable
      <4>4. a \in Int /\ b \in Int
        BY <4>3
      <4> QED
        BY <1>6, <4>2, <4>4
    <3> QED
      BY <3>1
  <2>8. c \in Int /\ d \in Int
    BY <1>4
  <2> QED
    BY <2>6, <2>7, <2>8
<1>7. ToSet(M) \subseteq ToSet(L)
  BY <1>1, <1>3, <1>4
<1> QED
  BY <1>6, <1>7 DEF Thins

\* What a query answers from has the members of the table.
LEMMA Served ==
  ASSUME NEW table \in Seq(RowPages), NEW view, NEW L, InTable(table, view, L), AnswersFrom(table, view, L)
  PROVE  Serves(1 .. Len(table), table, view, L)
<1>1. L \in Seq(DOMAIN table) /\ IsInjective(L)
  BY DEF InTable
<1>2. DOMAIN table = 1 .. Len(table)
  OBVIOUS
<1>3. L \in Seq(1 .. Len(table))
  BY <1>1, <1>2
<1>4. ASSUME NEW limit, NEW cursor
      PROVE  /\ Query(table, Context, view, limit, cursor).rows = Paginate(L, limit, cursor).items
             /\ Query(table, Context, view, limit, cursor).next = Paginate(L, limit, cursor).next
  <2>1. PICK values : Query(table, Context, view, limit, cursor)
                        = AnswerSorted(L, Properties, values, view, limit, cursor)
    BY DEF AnswersFrom
  <2> QED
    BY <2>1 DEF AnswerSorted, Answer
<1> QED
  BY <1>1, <1>3, <1>4 DEF Serves

\* Asked for all, it gives all.
LEMMA WholePage ==
  ASSUME NEW N \in Nat, NEW L \in Seq(1 .. N), IsInjective(L)
  PROVE  Paginate(L, N + 1, NoCursor).items = L
<1> DEFINE limit == N + 1
           page == Paginate(L, limit, NoCursor)
<1>1. limit \in Nat \ {0}
  OBVIOUS
<1>2. PICK start, e : PageFrom(L, limit, NoCursor, page, start, e)
  <2> HIDE DEF limit
  <2> QED
    BY <1>1, PageOf
<1>3. NoCursor \notin ToSet(L)
  <2>1. ToSet(L) \subseteq 1 .. N
    BY Members
  <2> QED
    BY <2>1 DEF NoCursor
<1>4. Len(L) <= N /\ Len(L) \in Nat
  <2>1. Len(L) \in 0 .. N
    BY Fills
  <2> QED
    BY <2>1
<1>5. start = 0 /\ e \in start .. Len(L) /\ (e = Len(L) \/ e = start + limit)
      /\ page.items = SubSeq(L, start + 1, e)
  BY <1>2, <1>3 DEF PageFrom
<1>6. e = Len(L)
  BY <1>4, <1>5
<1>7. page.items = SubSeq(L, 1, Len(L))
  BY <1>5, <1>6
<1>8. SubSeq(L, 1, Len(L)) = L
  OBVIOUS
<1> HIDE DEF page
<1> QED
  BY <1>7, <1>8 DEF page

\* Followed over a table that stands, the pages are the list, once and in order.
LEMMA PagesKept ==
  ASSUME NEW table \in Seq(RowPages), NEW view \in Views, NEW L,
         InTable(table, view, L), AnswersFrom(table, view, L), ~Fails(table, view)
  PROVE  PagesKeep(table, view, L)
<1> DEFINE N == Len(table)
           tables(then) == [n \in 1 .. N + 1 |-> IF n = 1 THEN table ELSE then]
<1>1. N \in Nat /\ DOMAIN table = 1 .. N
  OBVIOUS
<1>2. Serves(1 .. N, table, view, L)
  BY Served
<1>3. L \in Seq(1 .. N) /\ IsInjective(L) /\ ToSet(L) = Kept(table, view)
  BY <1>1 DEF InTable
<1> HIDE DEF N
<1>4. ASSUME NEW then \in Seq(RowPages)
      PROVE  /\ tables(then) \in Seq(Seq(RowPages)) /\ Len(tables(then)) = N + 1
             /\ \A n \in 1 .. N + 1 : tables(then)[n] = IF n = 1 THEN table ELSE then
  BY <1>1
<1> HIDE DEF tables
<1>5. ASSUME NEW limit \in PageSizes PROVE Walk(tables(table), view, limit) = [rows |-> L, next |-> NoCursor]
  <2>1. limit \in Nat \ {0}
    BY RowAssumption
  <2> DEFINE lists == [n \in 1 .. N + 1 |-> L]
             t == tables(table)
  <2>2. t \in Seq(Seq(RowPages)) /\ Len(t) = N + 1 /\ \A n \in 1 .. N + 1 : t[n] = table
    BY <1>4
  <2> HIDE DEF t
  <2>3. \A n \in 1 .. N + 1 : lists[n] = L /\ Serves(1 .. N, t[n], view, lists[n])
    BY <1>2, <2>2
  <2> HIDE DEF lists
  <2>4. PICK w : Walks(1 .. N, N + 1, lists, limit, w) /\ Walk(t, view, limit) = w[N + 1]
    <3>1. N + 1 \in Nat
      BY <1>1
    <3> DEFINE X == 1 .. N
               m == N + 1
    <3>2. ServesEach(X, m, t, view, lists)
      BY <2>2, <2>3, <3>1 DEF ServesEach
    <3> HIDE DEF X, m
    <3>3. \E w : Walks(X, m, lists, limit, w) /\ Walk(t, view, limit) = w[m]
      BY <2>1, <3>2, WalkOf
    <3> QED
      BY <3>3 DEF X, m
  <2>5. w[N + 1] = [rows |-> L, next |-> NoCursor]
    BY <1>1, <1>3, <2>1, <2>3, <2>4, StillWalk
  <2> QED
    BY <2>4, <2>5 DEF t
<1>6. ASSUME NEW limit \in PageSizes, NEW i \in DOMAIN table
      PROVE  LET then == [table EXCEPT ![i].archived = TRUE]
                 walked == Walk(tables(then), view, limit)
             IN  walked.next = NoCursor /\ Kept(then, view) \subseteq ToSet(walked.rows)
  <2> DEFINE then == [table EXCEPT ![i].archived = TRUE]
             t == tables(then)
  <2>1. limit \in Nat \ {0}
    BY RowAssumption
  <2>2. then \in Seq(RowPages) /\ Len(then) = N /\ (Fails(then, view) => Fails(table, view))
    BY Archiving DEF N
  <2>3. \A M : InTable(then, view, M) => Thins(L, M)
    BY ArchivingThins
  <2> HIDE DEF then
  <2>4. PICK M : InTable(then, view, M) /\ AnswersFrom(then, view, M)
    BY <2>2, QueryOf
  <2>5. Serves(1 .. N, then, view, M)
    BY <2>2, <2>4, Served
  <2>6. M \in Seq(1 .. N) /\ IsInjective(M) /\ ToSet(M) = Kept(then, view) /\ Thins(L, M)
    BY <2>3, <2>4, <2>5 DEF InTable, Serves
  <2> DEFINE lists == [n \in 1 .. N + 1 |-> IF n = 1 THEN L ELSE M]
  <2>7. t \in Seq(Seq(RowPages)) /\ Len(t) = N + 1 /\ \A n \in 1 .. N + 1 : t[n] = IF n = 1 THEN table ELSE then
    BY <1>4, <2>2
  <2> HIDE DEF t
  <2>8. \A n \in 1 .. N + 1 : lists[n] = IF n = 1 THEN L ELSE M
    OBVIOUS
  <2> HIDE DEF lists
  <2>9. \A n \in 1 .. N + 1 : Serves(1 .. N, t[n], view, lists[n])
    <3> TAKE n \in 1 .. N + 1
    <3>1. CASE n = 1
      <4>1. t[n] = table /\ lists[n] = L
        BY <2>7, <2>8, <3>1
      <4> QED
        BY <1>2, <4>1
    <3>2. CASE n # 1
      <4>1. t[n] = then /\ lists[n] = M
        BY <2>7, <2>8, <3>2
      <4> QED
        BY <2>5, <4>1
    <3> QED
      BY <3>1, <3>2
  <2>10. PICK w : Walks(1 .. N, N + 1, lists, limit, w) /\ Walk(t, view, limit) = w[N + 1]
    <3>1. N + 1 \in Nat
      BY <1>1
    <3> DEFINE X == 1 .. N
               m == N + 1
    <3>2. ServesEach(X, m, t, view, lists)
      BY <2>7, <2>9, <3>1 DEF ServesEach
    <3> HIDE DEF X, m
    <3>3. \E w : Walks(X, m, lists, limit, w) /\ Walk(t, view, limit) = w[m]
      BY <2>1, <3>2, WalkOf
    <3> QED
      BY <3>3 DEF X, m
  <2>11. w[N + 1].next = NoCursor /\ ToSet(M) \subseteq ToSet(w[N + 1].rows)
    <3>1. N \in Nat /\ L \in Seq(1 .. N) /\ IsInjective(L) /\ limit \in Nat \ {0}
      BY <1>1, <1>3, <2>1
    <3>2. M \in Seq(1 .. N) /\ IsInjective(M) /\ Thins(L, M)
      BY <2>6
    <3>3. Walks(1 .. N, N + 1, lists, limit, w)
      BY <2>10
    <3> QED
      BY <3>1, <3>2, <3>3, <2>8, ThinnedWalk
  <2>12. Walk(t, view, limit).next = NoCursor /\ Kept(then, view) \subseteq ToSet(Walk(t, view, limit).rows)
    BY <2>6, <2>10, <2>11
  <2> QED
    BY <2>12 DEF t, then
<1>7. \A then : tables(then) = [n \in 1 .. Len(table) + 1 |-> IF n = 1 THEN table ELSE then]
  BY DEF tables, N
<1> QED
  BY <1>5, <1>6, <1>7 DEF PagesKeep, Reaches

-----------------------------------------------------------------------------
(* Groups. *)

\* A list of whatever it lists.
IsList(s) == s \in Seq(ToSet(s))

\* A row has a list of keys.
LEMMA KeysListed ==
  ASSUME NEW type, NEW v, Is(v, "items") => v.items \in Seq(ToSet(v.items))
  PROVE  IsList(KeysFor(type, v))
<1>1. \A x : IsList(<<x>>)
  <2> TAKE x
  <2>1. ToSet(<<x>>) = {x}
    BY DEF ToSet
  <2> QED
    BY <2>1 DEF IsList
<1>2. ASSUME Is(v, "items") PROVE IsList(TextItems(v))
  <2> DEFINE s == v.items
             P == {i \in DOMAIN s : Is(s[i], "text")}
  <2>1. s \in Seq(ToSet(s)) /\ P \in SUBSET (DOMAIN s)
    BY <1>2
  <2> HIDE DEF P, s
  <2>2. Picked(s, P) \in Seq(ToSet(s))
    BY <2>1, PickedOf
  <2>3. IsList(Picked(s, P))
    <3> DEFINE t == Picked(s, P)
    <3> HIDE DEF t
    <3>1. t \in Seq(ToSet(s))
      BY <2>2 DEF t
    <3>2. \A i \in 1 .. Len(t) : t[i] \in ToSet(t)
      BY <3>1 DEF ToSet
    <3>3. t \in Seq(ToSet(t))
      BY <3>1, <3>2
    <3> QED
      BY <3>3 DEF IsList, t
  <2> QED
    BY <2>3 DEF TextItems, P, s
<1> QED
  BY <1>1, <1>2 DEF KeysFor

\* Each member of a list has a first place and a last.
LEMMA FirstAndLast ==
  ASSUME NEW K, NEW s \in Seq(K), NEW x \in ToSet(s)
  PROVE  /\ \E i \in DOMAIN s : s[i] = x /\ \A j \in 1 .. i - 1 : s[j] # x
         /\ \E i \in DOMAIN s : s[i] = x /\ \A j \in i + 1 .. Len(s) : s[j] # x
<1> DEFINE n == Len(s)
           at == {i \in 1 .. n : s[i] = x}
<1>1. n \in Nat /\ DOMAIN s = 1 .. n
  OBVIOUS
<1>2. at \in SUBSET Int /\ at # {}
  BY <1>1 DEF ToSet
<1>3. IsFiniteSet(at)
  <2>1. IsFiniteSet(1 .. n) /\ at \subseteq 1 .. n
    BY <1>1, FS_Interval
  <2> QED
    BY <2>1, FS_Subset
<1>4. /\ Min(at) \in at /\ \A i \in at : Min(at) <= i
      /\ Max(at) \in at /\ \A i \in at : i <= Max(at)
  <2> HIDE DEF at
  <2> QED
    BY <1>2, <1>3, Extremes
<1>5. PICK a, b \in 1 .. n : s[a] = x /\ s[b] = x /\ \A i \in at : a <= i /\ i <= b
  BY <1>4
<1> HIDE DEF n
<1>6. \A j \in 1 .. a - 1 : s[j] # x
  <2> SUFFICES ASSUME NEW j \in 1 .. a - 1, s[j] = x PROVE FALSE
    OBVIOUS
  <2>1. j \in 1 .. n /\ ~(a <= j)
    BY <1>1
  <2> QED
    BY <1>5, <2>1
<1>7. \A j \in b + 1 .. n : s[j] # x
  <2> SUFFICES ASSUME NEW j \in b + 1 .. n, s[j] = x PROVE FALSE
    OBVIOUS
  <2>1. j \in 1 .. n /\ ~(j <= b)
    BY <1>1
  <2> QED
    BY <1>5, <2>1
<1> QED
  BY <1>1, <1>5, <1>6, <1>7 DEF n

\* Every key in its group, once, and the empty one last.
KeysInOrder(property, seen, order) ==
  /\ \E K : order \in Seq(K)
  /\ IsInjective(order) /\ ToSet(seen) \subseteq ToSet(order)
  /\ property.type # "checkbox" => OptionIds(property.config) \subseteq ToSet(order)
  /\ \A k \in DOMAIN order : order[k] = EmptyKey => k = Len(order)

\* The keys that were seen are in the order of the options, those without an option behind.
LEMMA OrderOf ==
  ASSUME NEW property, Options(property), NEW seen, IsList(seen)
  PROVE  KeysInOrder(property, seen, OrderedKeys(property, seen))
<1> DEFINE configured == IF property.type = "checkbox" THEN <<Flag(TRUE), Flag(FALSE)>>
                         ELSE IF Is(property.config, "options") THEN property.config.options ELSE <<>>
           keys == ToSet(seen) \cup (IF property.type = "checkbox" THEN {} ELSE ToSet(configured))
           P == {i \in DOMAIN configured : /\ configured[i] \in keys \ {EmptyKey}
                                           /\ \A j \in i + 1 .. Len(configured) : configured[j] # configured[i]}
           Q == {i \in DOMAIN seen : /\ seen[i] \notin ToSet(configured) \cup {EmptyKey}
                                     /\ \A j \in 1 .. i - 1 : seen[j] # seen[i]}
           A == Picked(configured, P)
           B == Picked(seen, Q)
           C == IF EmptyKey \in keys THEN <<EmptyKey>> ELSE <<>>
           K == ToSet(configured) \cup ToSet(seen) \cup {EmptyKey}
<1>1. OrderedKeys(property, seen) = A \o B \o C
  BY DEF OrderedKeys
<1>2. IsList(configured)
  <2>1. CASE property.type = "checkbox"
    <3> DEFINE t == Flag(TRUE)
               f == Flag(FALSE)
               c == <<t, f>>
    <3>1. configured = c
      BY <2>1
    <3> HIDE DEF t, f, configured
    <3>2. ToSet(c) = {t, f}
      BY DEF ToSet
    <3> QED
      BY <3>1, <3>2 DEF IsList
  <2>2. CASE property.type # "checkbox" /\ Is(property.config, "options")
    <3> DEFINE c == property.config.options
    <3>1. configured = c
      BY <2>2
    <3>2. c \in Seq([text : Seq(Nat)])
      BY <2>2 DEF Options
    <3> HIDE DEF c, configured
    <3>3. \A i \in 1 .. Len(c) : c[i] \in ToSet(c)
      BY <3>2 DEF ToSet
    <3>4. c \in Seq(ToSet(c))
      BY <3>2, <3>3
    <3> QED
      BY <3>1, <3>4 DEF IsList
  <2>3. CASE property.type # "checkbox" /\ ~Is(property.config, "options")
    <3>1. configured = <<>>
      BY <2>3
    <3>2. <<>> \in Seq(ToSet(<<>>))
      OBVIOUS
    <3> HIDE DEF configured
    <3> QED
      BY <3>1, <3>2 DEF IsList
  <2> QED
    BY <2>1, <2>2, <2>3
<1>3. property.type # "checkbox" => OptionIds(property.config) \subseteq keys
  BY DEF OptionIds
<1>4. keys \subseteq K /\ ToSet(seen) \subseteq keys
  OBVIOUS
<1> HIDE DEF configured, keys
<1>5. configured \in Seq(K) /\ seen \in Seq(K)
  <2>1. configured \in Seq(ToSet(configured)) /\ seen \in Seq(ToSet(seen))
    BY <1>2 DEF IsList
  <2>2. /\ \A i \in 1 .. Len(configured) : configured[i] \in K
        /\ \A i \in 1 .. Len(seen) : seen[i] \in K
    BY <2>1
  <2> HIDE DEF K
  <2> QED
    BY <2>1, <2>2
<1> HIDE DEF K
<1>6. A \in Seq(K) /\ IsInjective(A) /\ ToSet(A) = {configured[i] : i \in P}
  <2>1. P \in SUBSET (DOMAIN configured)
    OBVIOUS
  <2>2. \A i, j \in P : configured[i] = configured[j] => i = j
    <3>1. DOMAIN configured = 1 .. Len(configured) /\ Len(configured) \in Nat
      BY <1>5
    <3>2. ASSUME NEW i \in P, NEW j \in P, configured[i] = configured[j], i < j PROVE FALSE
      <4>1. j \in i + 1 .. Len(configured)
        BY <3>1, <3>2
      <4> QED
        BY <3>2, <4>1
    <3>3. \A i, j \in P : i < j \/ i = j \/ j < i
      BY <3>1
    <3> HIDE DEF P
    <3> QED
      BY <3>2, <3>3
  <2> HIDE DEF P
  <2> QED
    BY <1>5, <2>1, <2>2, PickedKeeps
<1>7. B \in Seq(K) /\ IsInjective(B) /\ ToSet(B) = {seen[i] : i \in Q}
  <2>1. Q \in SUBSET (DOMAIN seen)
    OBVIOUS
  <2>2. \A i, j \in Q : seen[i] = seen[j] => i = j
    <3>1. DOMAIN seen = 1 .. Len(seen) /\ Len(seen) \in Nat
      BY <1>5
    <3>2. ASSUME NEW i \in Q, NEW j \in Q, seen[i] = seen[j], i < j PROVE FALSE
      <4>1. i \in 1 .. j - 1
        BY <3>1, <3>2
      <4> QED
        BY <3>2, <4>1
    <3>3. \A i, j \in Q : i < j \/ i = j \/ j < i
      BY <3>1
    <3> HIDE DEF Q
    <3> QED
      BY <3>2, <3>3
  <2> HIDE DEF Q
  <2> QED
    BY <1>5, <2>1, <2>2, PickedKeeps
<1>8. C \in Seq(K) /\ IsInjective(C) /\ ToSet(C) = keys \cap {EmptyKey}
  <2>1. CASE EmptyKey \in keys
    <3> DEFINE e == EmptyKey
               c == <<e>>
    <3>1. C = c /\ e \in K
      BY <1>4, <2>1
    <3> HIDE DEF e, C
    <3>2. ToSet(c) = {e}
      BY DEF ToSet
    <3>3. IsInjective(c)
      BY DEF IsInjective
    <3> QED
      BY <2>1, <3>1, <3>2, <3>3 DEF e
  <2>2. CASE EmptyKey \notin keys
    <3>1. C = <<>>
      BY <2>2
    <3> HIDE DEF C
    <3> QED
      BY <2>2, <3>1 DEF ToSet, IsInjective
  <2> QED
    BY <2>1, <2>2
<1>9. ToSet(A) = (ToSet(configured) \cap keys) \ {EmptyKey}
  <2>1. ASSUME NEW i \in P PROVE configured[i] \in (ToSet(configured) \cap keys) \ {EmptyKey}
    BY DEF ToSet
  <2>2. ASSUME NEW x \in (ToSet(configured) \cap keys) \ {EmptyKey} PROVE \E i \in P : configured[i] = x
    <3>1. PICK i \in DOMAIN configured : configured[i] = x /\ \A j \in i + 1 .. Len(configured) : configured[j] # x
      BY <1>5, FirstAndLast
    <3> QED
      BY <3>1
  <2> HIDE DEF A, P
  <2> QED
    BY <1>6, <2>1, <2>2
<1>10. ToSet(B) = ToSet(seen) \ (ToSet(configured) \cup {EmptyKey})
  <2>1. ASSUME NEW i \in Q PROVE seen[i] \in ToSet(seen) \ (ToSet(configured) \cup {EmptyKey})
    BY DEF ToSet
  <2>2. ASSUME NEW x \in ToSet(seen) \ (ToSet(configured) \cup {EmptyKey}) PROVE \E i \in Q : seen[i] = x
    <3>1. PICK i \in DOMAIN seen : seen[i] = x /\ \A j \in 1 .. i - 1 : seen[j] # x
      BY <1>5, FirstAndLast
    <3> QED
      BY <3>1
  <2> HIDE DEF B, Q
  <2> QED
    BY <1>7, <2>1, <2>2
<1> HIDE DEF A, B, C
<1> DEFINE AB == A \o B
           order == AB \o C
<1>11. AB \in Seq(K) /\ IsInjective(AB) /\ ToSet(AB) = ToSet(A) \cup ToSet(B)
  <2>1. ToSet(A) \cap ToSet(B) = {}
    BY <1>9, <1>10
  <2>2. AB \in Seq(K) /\ IsInjective(AB) /\ Concatenates(A, B, AB)
    BY <1>6, <1>7, <2>1, Joins
  <2> HIDE DEF AB
  <2> QED
    BY <2>2 DEF Concatenates
<1> HIDE DEF AB
<1>12. /\ order \in Seq(K) /\ Len(order) = Len(AB) + Len(C) /\ IsInjective(order)
       /\ ToSet(order) = ToSet(AB) \cup ToSet(C)
       /\ \A b \in 1 .. Len(C) : order[Len(AB) + b] = C[b]
  <2>1. ToSet(AB) \cap ToSet(C) = {}
    BY <1>8, <1>9, <1>10, <1>11
  <2>2. /\ order \in Seq(K) /\ Len(order) = Len(AB) + Len(C) /\ Concatenates(AB, C, order)
        /\ IsInjective(order)
    BY <1>8, <1>11, <2>1, Joins
  <2> HIDE DEF order
  <2> QED
    BY <2>2 DEF Concatenates
<1> HIDE DEF order
<1>13. ToSet(seen) \subseteq ToSet(order) /\ keys \subseteq ToSet(order)
  <2>1. keys \subseteq ToSet(configured) \cup ToSet(seen)
    BY DEF keys
  <2> QED
    BY <1>4, <1>8, <1>9, <1>10, <1>11, <1>12, <2>1
<1>14. ASSUME NEW k \in DOMAIN order, order[k] = EmptyKey PROVE k = Len(order)
  <2>1. EmptyKey \in ToSet(order)
    BY <1>14 DEF ToSet
  <2>2. EmptyKey \in keys
    BY <1>8, <1>9, <1>10, <1>11, <1>12, <2>1
  <2>3. C = <<EmptyKey>>
    BY <2>2 DEF C
  <2>4. Len(C) = 1 /\ C[1] = EmptyKey
    BY <2>3
  <2>5. Len(AB) \in Nat /\ Len(order) = Len(AB) + 1 /\ Len(order) \in DOMAIN order
    BY <1>11, <1>12, <2>4
  <2>6. order[Len(order)] = EmptyKey
    BY <1>12, <2>4, <2>5
  <2> QED
    BY <1>12, <1>14, <2>5, <2>6 DEF IsInjective
<1>15. OrderedKeys(property, seen) = order
  BY <1>1 DEF order, AB
<1> QED
  BY <1>3, <1>12, <1>13, <1>14, <1>15 DEF KeysInOrder

\* The keys of rows, one after the other.
SeenKeys(rows, type, value) ==
  LET seen[n \in 0 .. Len(rows)] == IF n = 0 THEN <<>> ELSE seen[n - 1] \o KeysFor(type, value[rows[n]])
  IN  seen[Len(rows)]

\* Every key a row has is seen.
LEMMA SeenOf ==
  ASSUME NEW X, NEW rows \in Seq(X), NEW type, NEW value, \A x \in X : IsList(KeysFor(type, value[x]))
  PROVE  /\ IsList(SeenKeys(rows, type, value))
         /\ \A a \in DOMAIN rows : ToSet(KeysFor(type, value[rows[a]])) \subseteq ToSet(SeenKeys(rows, type, value))
<1> DEFINE N == Len(rows)
           keys(row) == KeysFor(type, value[row])
           K == UNION {ToSet(keys(x)) : x \in X}
           S == Seq(K)
           step == [p \in S \X (1 .. N) |-> p[1] \o keys(rows[p[2]])]
           Seeing(f) == [n \in 0 .. N |-> IF n = 0 THEN <<>> ELSE f[n - 1] \o keys(rows[n])]
           seen == CHOOSE f : f = Seeing(f)
<1>1. N \in Nat /\ DOMAIN rows = 1 .. N /\ \A n \in 1 .. N : rows[n] \in X
  OBVIOUS
<1>2. \A x \in X : keys(x) \in Seq(ToSet(keys(x))) /\ ToSet(keys(x)) \subseteq K
  BY DEF IsList
<1>16. SeenKeys(rows, type, value) = seen[N]
  BY DEF SeenKeys
<1> HIDE DEF keys, K
<1>3. \A x \in X : keys(x) \in S
  <2> TAKE x \in X
  <2> DEFINE s == keys(x)
  <2>1. s \in Seq(ToSet(s)) /\ ToSet(s) \subseteq K
    BY <1>2
  <2> HIDE DEF s
  <2>2. \A i \in 1 .. Len(s) : s[i] \in K
    BY <2>1
  <2>3. s \in Seq(K)
    BY <2>1, <2>2
  <2> QED
    BY <2>3 DEF s
<1>4. \A s \in S, n \in 1 .. N : s \o keys(rows[n]) \in S
  <2> TAKE s \in S, n \in 1 .. N
  <2>1. keys(rows[n]) \in Seq(K)
    BY <1>1, <1>3
  <2> QED
    BY <2>1, ConcatProperties
<1>0. <<>> \in S
  OBVIOUS
<1> HIDE DEF N
<1>5. PICK f : Follows(N, S, <<>>, step, f)
  <2>1. step \in [S \X (1 .. N) -> S]
    <3> HIDE DEF S
    <3> QED
      BY <1>4
  <2> HIDE DEF step, S
  <2> QED
    BY <1>0, <1>1, <2>1, Recursion
<1> HIDE DEF S
<1>6. \A n \in 1 .. N : n \in 0 .. N /\ n - 1 \in 0 .. N /\ n # 0
  BY <1>1
<1>7. f = Seeing(f)
  <2>1. f = [n \in 0 .. N |-> f[n]]
    BY <1>5 DEF Follows
  <2>2. ASSUME NEW n \in 0 .. N PROVE f[n] = IF n = 0 THEN <<>> ELSE f[n - 1] \o keys(rows[n])
    <3>1. CASE n = 0
      BY <1>5, <3>1 DEF Follows
    <3>2. CASE n # 0
      <4>1. n \in 1 .. N
        BY <3>2
      <4>2. f[n - 1] \in S /\ f[n] = step[<<f[n - 1], n>>]
        BY <1>5, <1>6, <4>1 DEF Follows
      <4>3. f[n] = f[n - 1] \o keys(rows[n])
        BY <4>1, <4>2
      <4> QED
        BY <3>2, <4>3
    <3> QED
      BY <3>1, <3>2
  <2> QED
    BY <2>1, <2>2
<1>8. seen = Seeing(seen)
  <2> HIDE DEF Seeing
  <2> QED
    BY <1>7
<1> HIDE DEF seen
<1>9. seen[0] = <<>> /\ \A n \in 1 .. N : seen[n] = seen[n - 1] \o keys(rows[n])
  <2>1. \A n \in 0 .. N : seen[n] = IF n = 0 THEN <<>> ELSE seen[n - 1] \o keys(rows[n])
    BY <1>8
  <2>2. 0 \in 0 .. N
    BY <1>1
  <2> QED
    BY <1>6, <2>1, <2>2
<1> DEFINE Fine(n) == seen[n] \in S /\ \A a \in 1 .. n : ToSet(keys(rows[a])) \subseteq ToSet(seen[n])
<1>10. Fine(0)
  <2>1. 1 .. 0 = {}
    OBVIOUS
  <2> QED
    BY <1>0, <1>9, <2>1
<1>11. ASSUME NEW n \in 1 .. N, Fine(n - 1) PROVE Fine(n)
  <2> DEFINE s == seen[n - 1]
             t == keys(rows[n])
  <2>1. s \in Seq(K) /\ t \in Seq(K) /\ seen[n] = s \o t
    BY <1>1, <1>3, <1>9, <1>11 DEF S
  <2> HIDE DEF s, t
  <2>2. s \o t \in Seq(K) /\ ToSet(s \o t) = ToSet(s) \cup ToSet(t)
    BY <2>1, Joins DEF Concatenates
  <2>3. \A a \in 1 .. n : a \in 1 .. n - 1 \/ a = n
    BY <1>1
  <2>4. ASSUME NEW a \in 1 .. n PROVE ToSet(keys(rows[a])) \subseteq ToSet(s \o t)
    <3>1. CASE a \in 1 .. n - 1
      BY <1>11, <2>2, <3>1 DEF s
    <3>2. CASE a = n
      BY <2>2, <3>2 DEF t
    <3> QED
      BY <2>3, <3>1, <3>2
  <2> QED
    BY <2>1, <2>2, <2>4 DEF S
<1> HIDE DEF Fine
<1>12. \A n \in 0 .. N : Fine(n)
  <2> DEFINE wrong == {n \in 0 .. N : ~Fine(n)}
  <2> SUFFICES ASSUME wrong # {} PROVE FALSE
    OBVIOUS
  <2>1. PICK n \in wrong : \A k \in wrong : n <= k
    BY <1>1, LeastNumber
  <2>2. n \in 0 .. N /\ ~Fine(n)
    BY <2>1
  <2>3. n # 0
    BY <1>10, <2>2
  <2>4. n \in 1 .. N /\ n - 1 \in 0 .. N /\ ~(n <= n - 1)
    BY <1>1, <2>2, <2>3
  <2>5. Fine(n - 1)
    BY <2>1, <2>4
  <2> QED
    BY <1>11, <2>2, <2>4, <2>5
<1>13. Fine(N)
  BY <1>1, <1>12
<1> DEFINE last == seen[N]
<1>14. last \in Seq(K) /\ \A a \in 1 .. N : ToSet(keys(rows[a])) \subseteq ToSet(last)
  BY <1>13 DEF Fine, S
<1> HIDE DEF last
<1>15. IsList(last)
  <2>1. \A i \in 1 .. Len(last) : last[i] \in ToSet(last)
    BY <1>14 DEF ToSet
  <2>2. last \in Seq(ToSet(last))
    BY <1>14, <2>1
  <2> QED
    BY <2>2 DEF IsList
<1> QED
  BY <1>1, <1>14, <1>15, <1>16 DEF last, keys

\* The groups of rows by what each holds.
Grouped(rows, property, value, groups) ==
  LET keys == [k \in DOMAIN groups |-> groups[k].key]
  IN  /\ IsInjective(keys)
      /\ property.type # "checkbox" => OptionIds(property.config) \subseteq ToSet(keys)
      /\ \A k \in DOMAIN keys :
           /\ keys[k] = EmptyKey => k = Len(keys)
           /\ ToSet(groups[k].rows) = {i \in ToSet(rows) : keys[k] \in ToSet(KeysFor(property.type, value[i]))}
           /\ \A a, b \in DOMAIN groups[k].rows :
                a < b => Position(rows, groups[k].rows[a]) < Position(rows, groups[k].rows[b])
      /\ \A i \in ToSet(rows) : ToSet(KeysFor(property.type, value[i])) \subseteq ToSet(keys)

\* Every row is in the group of each of its keys, and in no other.
LEMMA GroupsOfRows ==
  ASSUME NEW X, NEW rows \in Seq(X), IsInjective(rows), NEW property, Options(property), NEW value,
         \A x \in X : IsList(KeysFor(property.type, value[x]))
  PROVE  Grouped(rows, property, value, GroupRows(rows, property, value))
<1> DEFINE keysOf(row) == KeysFor(property.type, value[row])
           last == SeenKeys(rows, property.type, value)
           order == OrderedKeys(property, last)
           P(k) == {a \in DOMAIN rows : order[k] \in ToSet(keysOf(rows[a]))}
           groups == GroupRows(rows, property, value)
           keys == [k \in DOMAIN groups |-> groups[k].key]
<1>1. groups = [k \in DOMAIN order |-> [key |-> order[k], rows |-> Picked(rows, P(k))]]
  BY DEF GroupRows, SeenKeys
<1>2. IsList(last) /\ \A a \in DOMAIN rows : ToSet(keysOf(rows[a])) \subseteq ToSet(last)
  BY SeenOf
<1> HIDE DEF last, keysOf
<1>3. KeysInOrder(property, last, order)
  BY <1>2, OrderOf
<1> HIDE DEF order
<1>4. PICK K : order \in Seq(K)
  BY <1>3 DEF KeysInOrder
<1>5. /\ IsInjective(order) /\ ToSet(last) \subseteq ToSet(order)
      /\ property.type # "checkbox" => OptionIds(property.config) \subseteq ToSet(order)
      /\ \A k \in DOMAIN order : order[k] = EmptyKey => k = Len(order)
  BY <1>3 DEF KeysInOrder
<1> HIDE DEF groups
<1>6. DOMAIN groups = DOMAIN order
  BY <1>1
<1>7. \A k \in DOMAIN order : groups[k].key = order[k] /\ groups[k].rows = Picked(rows, P(k))
  BY <1>1
<1>8. keys = order
  <2>1. order = [k \in DOMAIN order |-> order[k]]
    BY <1>4
  <2> QED
    BY <1>6, <1>7, <2>1
<1> HIDE DEF keys
<1>9. ASSUME NEW k \in DOMAIN order
      PROVE  /\ ToSet(groups[k].rows) = {i \in ToSet(rows) : order[k] \in ToSet(keysOf(i))}
             /\ \A a, b \in DOMAIN groups[k].rows :
                  a < b => Position(rows, groups[k].rows[a]) < Position(rows, groups[k].rows[b])
  <2> DEFINE Q == P(k)
             t == Picked(rows, Q)
  <2>1. groups[k].rows = t
    BY <1>7
  <2>2. Q \in SUBSET (DOMAIN rows) /\ \A a, b \in Q : rows[a] = rows[b] => a = b
    BY DEF IsInjective
  <2>3. Q = {a \in DOMAIN rows : order[k] \in ToSet(keysOf(rows[a]))}
    OBVIOUS
  <2> HIDE DEF Q
  <2>4. /\ ToSet(t) = {rows[a] : a \in Q}
        /\ \A m, n \in DOMAIN t : m < n => \E a, b \in Q : a < b /\ t[m] = rows[a] /\ t[n] = rows[b]
    BY <2>2, PickedKeeps
  <2> HIDE DEF t
  <2>5. ToSet(t) = {i \in ToSet(rows) : order[k] \in ToSet(keysOf(i))}
    <3>1. \A a \in Q : rows[a] \in ToSet(rows) /\ order[k] \in ToSet(keysOf(rows[a]))
      BY <2>3 DEF ToSet
    <3>2. ASSUME NEW i \in ToSet(rows), order[k] \in ToSet(keysOf(i)) PROVE \E a \in Q : rows[a] = i
      <4>1. PICK a \in DOMAIN rows : rows[a] = i
        BY DEF ToSet
      <4> QED
        BY <2>3, <3>2, <4>1
    <3> QED
      BY <2>4, <3>1, <3>2
  <2>6. \A a \in DOMAIN rows : Position(rows, rows[a]) = a
    <3> TAKE a \in DOMAIN rows
    <3>1. \E b \in DOMAIN rows : rows[b] = rows[a]
      OBVIOUS
    <3>2. Position(rows, rows[a]) \in DOMAIN rows /\ rows[Position(rows, rows[a])] = rows[a]
      BY <3>1 DEF Position
    <3> QED
      BY <3>2 DEF IsInjective
  <2>7. ASSUME NEW m \in DOMAIN t, NEW n \in DOMAIN t, m < n PROVE Position(rows, t[m]) < Position(rows, t[n])
    <3>1. PICK a, b \in Q : a < b /\ t[m] = rows[a] /\ t[n] = rows[b]
      BY <2>4, <2>7
    <3>2. a \in DOMAIN rows /\ b \in DOMAIN rows
      BY <2>2
    <3> QED
      BY <2>6, <3>1, <3>2
  <2> QED
    BY <2>1, <2>5, <2>7
<1>10. \A i \in ToSet(rows) : ToSet(keysOf(i)) \subseteq ToSet(order)
  <2> TAKE i \in ToSet(rows)
  <2>1. PICK a \in DOMAIN rows : rows[a] = i
    BY DEF ToSet
  <2> QED
    BY <1>2, <1>5, <2>1
<1>11. DOMAIN keys = DOMAIN groups /\ \A k \in DOMAIN keys : keys[k] = groups[k].key
  BY DEF keys
<1> QED
  BY <1>5, <1>8, <1>9, <1>10 DEF Grouped, keys, keysOf, groups

\* The groups of an answer.
LEMMA AnswerGroups ==
  ASSUME NEW table \in Seq(RowPages), NEW view \in Views, view.groupBy # NoGroup, NEW L, InTable(table, view, L)
  PROVE  GroupsKeep(table, L,
                    GroupsOf(L, Properties, Values(table, LoadRows(table), Properties, Context), view.groupBy),
                    Column(view.groupBy))
<1> DEFINE g == view.groupBy
           p == Column(g)
           X == ToSet(L)
           rows == LoadRows(table)
           values == Values(table, rows, Properties, Context)
           value == [i \in DOMAIN values |-> values[i][g]]
           groups == GroupRows(L, p, value)
<1>1. p \in ToSet(Schema) /\ p.id = g /\ Properties[g] = p /\ \A row : Shown(row)[g] = Cell(row, g)
  <2>1. \E q \in ToSet(Schema) : q.id = g
    BY RowAssumption
  <2> QED
    BY <2>1, ColumnOf
<1>2. /\ L \in Seq(DOMAIN table) /\ IsInjective(L) /\ X = Kept(table, view)
      /\ X \subseteq ToSet(rows) /\ X \subseteq DOMAIN table
  <2>1. ToSet(rows) = ShownRows(table)
    BY LoadedOf DEF Loads
  <2> QED
    BY <2>1 DEF InTable, Kept, ShownRows
<1>3. \A i \in X : value[i] = Cell(table[i], g)
  <2>1. DOMAIN values = ToSet(rows) /\ \A i \in ToSet(rows) : values[i] = Shown(table[i])
    BY ValuesOf
  <2> HIDE DEF values, rows
  <2> QED
    BY <1>1, <1>2, <2>1
<1>4. GroupsOf(L, Properties, values, g) = groups
  BY <1>1 DEF GroupsOf
<1> HIDE DEF value, values, rows, p
<1>5. ASSUME NEW x \in X PROVE IsList(KeysFor(p.type, value[x]))
  <2> DEFINE v == Cell(table[x], g)
  <2>1. table[x] \in RowPages
    BY <1>2
  <2>2. PICK n \in 0 .. MaxRows : table[x] \in {RowPage(n, f, parent, archived) :
                                                f \in Fillings, parent \in 0 .. n, archived \in BOOLEAN}
    BY <2>1 DEF RowPages
  <2>3. PICK f \in Fillings, parent \in 0 .. n, archived \in BOOLEAN :
          table[x] = RowPage(n, f, parent, archived)
    BY <2>2
  <2>4. Is(v, "items") => v.items \in Seq(ToSet(v.items))
    BY <1>1, <2>3, RowAssumption
  <2> HIDE DEF v
  <2>5. IsList(KeysFor(p.type, v))
    BY <2>4, KeysListed
  <2> QED
    BY <1>3, <2>5 DEF v
<1>6. Options(p)
  BY <1>1, CellAssumption DEF Options
<1>7. L \in Seq(X)
  <2>1. \A i \in 1 .. Len(L) : L[i] \in X
    BY <1>2 DEF ToSet
  <2> HIDE DEF X
  <2> QED
    BY <1>2, <2>1
<1>8. Grouped(L, p, value, groups)
  <2> HIDE DEF X
  <2> QED
    BY <1>2, <1>5, <1>6, <1>7, GroupsOfRows
<1> HIDE DEF groups
<1>9. GroupsKeep(table, L, groups, p)
  <2> DEFINE keys == [k \in DOMAIN groups |-> groups[k].key]
             named == [i \in X |-> ToSet(KeysFor(p.type, Cell(table[i], p.id)))]
  <2>1. \A i \in X : named[i] = ToSet(KeysFor(p.type, value[i]))
    BY <1>1, <1>3
  <2>2. /\ IsInjective(keys)
        /\ p.type # "checkbox" => OptionIds(p.config) \subseteq ToSet(keys)
        /\ \A k \in DOMAIN keys :
             /\ keys[k] = EmptyKey => k = Len(keys)
             /\ ToSet(groups[k].rows) = {i \in X : keys[k] \in ToSet(KeysFor(p.type, value[i]))}
             /\ \A a, b \in DOMAIN groups[k].rows :
                  a < b => Position(L, groups[k].rows[a]) < Position(L, groups[k].rows[b])
        /\ \A i \in X : ToSet(KeysFor(p.type, value[i])) \subseteq ToSet(keys)
    BY <1>8 DEF Grouped
  <2> HIDE DEF keys, named, X
  <2>3. \A k \in DOMAIN keys : ToSet(groups[k].rows) = {i \in X : keys[k] \in named[i]}
    BY <2>1, <2>2
  <2>4. \A i \in X : named[i] \subseteq ToSet(keys)
    BY <2>1, <2>2
  <2> QED
    BY <2>2, <2>3, <2>4 DEF GroupsKeep, GroupsHold, keys, named, X
<1> QED
  BY <1>4, <1>9 DEF p, values, rows

\* A table of such pages is answered whole.
LEMMA TableAnswered == TableOfPages => AnswerKeepsEveryRow
<1> SUFFICES ASSUME TableOfPages, NEW view \in Views
             PROVE  LET answer == Query(input, Context, view, Len(input) + 1, NoCursor)
                    IN  IF Fails(input, view) THEN answer = Refused ELSE KeepsEveryRow(input, view, answer)
  BY DEF AnswerKeepsEveryRow, Answers
<1> DEFINE table == input
           answer == Query(table, Context, view, Len(table) + 1, NoCursor)
<1>1. table \in Seq(RowPages)
  BY DEF TableOfPages
<1> HIDE DEF table
<1>2. CASE Fails(table, view)
  BY <1>1, <1>2, QueryOf DEF table
<1>3. CASE ~Fails(table, view)
  <2>1. PICK L : InTable(table, view, L) /\ AnswersFrom(table, view, L)
    BY <1>1, <1>3, QueryOf
  <2> DEFINE values == Values(table, LoadRows(table), Properties, Context)
             N == Len(table)
  <2>2. /\ answer.rows = Paginate(L, N + 1, NoCursor).items
        /\ answer.groups = GroupsOf(L, Properties, values, view.groupBy)
    <3>1. answer = AnswerSorted(L, Properties, values, view, N + 1, NoCursor)
      BY <2>1 DEF AnswersFrom
    <3> QED
      BY <3>1 DEF AnswerSorted, Answer
  <2> HIDE DEF answer
  <2>3. /\ L \in Seq(DOMAIN table) /\ IsInjective(L) /\ ToSet(L) = Kept(table, view)
        /\ \A a, b \in DOMAIN L : a < b => Sooner(table, view.sorts, L[a], L[b])
    BY <2>1 DEF InTable
  <2>4. answer.rows = L
    <3>1. N \in Nat /\ L \in Seq(1 .. N)
      BY <1>1, <2>3
    <3> HIDE DEF N
    <3> QED
      BY <2>2, <2>3, <3>1, WholePage
  <2>5. view.sorts \in Sortings
    BY RowAssumption
  <2>6. KeepsOrder(table, view, L)
    <3>1. \A a, b \in DOMAIN L :
            a < b => InOrder(view.sorts, table[L[a]], table[L[b]], LoadedBefore(RowLevels(table), L[a], L[b]))
      <4> TAKE a, b \in DOMAIN L
      <4>1. L[a] \in DOMAIN table /\ L[b] \in DOMAIN table
        BY <2>3
      <4> QED
        BY <1>1, <2>3, <2>5, <4>1, SoonerInOrder
    <3> QED
      BY <3>1 DEF KeepsOrder
  <2>7. PagesKeep(table, view, L)
    BY <1>1, <1>3, <2>1, PagesKept
  <2>8. view.groupBy # NoGroup => GroupsKeep(table, L, answer.groups, Column(view.groupBy))
    BY <1>1, <2>1, <2>2, AnswerGroups
  <2>9. KeepsEveryRow(table, view, answer)
    BY <2>3, <2>4, <2>6, <2>7, <2>8 DEF KeepsEveryRow
  <2> QED
    BY <1>3, <2>9 DEF answer, table
<1> QED
  BY <1>2, <1>3

\* Filters, pages and groups lose no row, for any table of such pages and any of the views
\* and sizes of a page (AnswerKeepsEveryRow; query.service.ts query, cursor.ts paginate,
\* group.ts groupRows).
THEOREM AnswersKeep == RowSpec => []AnswerKeepsEveryRow
<1>1. TableOfPages => AnswerKeepsEveryRow
  BY TableAnswered
<1> QED
  BY <1>1, PagesStay, PTL
=============================================================================
