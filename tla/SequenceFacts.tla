---------------------------- MODULE SequenceFacts ----------------------------
(***************************************************************************)
(* Facts about sequences, folds and heaps that the proofs about several    *)
(* components need.  The heap is that of the timer queues; nothing else    *)
(* here is about the program.  The library's induction theorems take an    *)
(* operator, which the provers cannot instantiate; the induction here is   *)
(* over a set, from the theorem that a set of numbers that is not empty    *)
(* has a least element.                                                    *)
(***************************************************************************)
EXTENDS TimerHeap, Integers, Sequences, SequencesExt, FiniteSetTheorems, SequenceTheorems,
        NaturalsInduction, WellFoundedInduction, TLAPS

-----------------------------------------------------------------------------
(* Induction                                                               *)

\* The order of the natural numbers, as a set of pairs.
LEMMA LessThanRelation == OpToRel(<, Nat) = {p \in Nat \X Nat : p[1] < p[2]}
  BY DEF OpToRel

\* Induction from 0 up to n: a set that has 0, and with each number the next,
\* has them all.
LEMMA UpTo ==
  ASSUME NEW n \in Nat, NEW T, 0 \in T,
         \A i \in Nat : i < n /\ i \in T => i + 1 \in T
  PROVE  \A i \in 0..n : i \in T
<1> DEFINE Less == OpToRel(<, Nat)
           Bad == {i \in 0..n : i \notin T}
<1>1. IsWellFoundedOn(Less, Nat) /\ Less = {p \in Nat \X Nat : p[1] < p[2]}
  BY NatLessThanWellFounded, LessThanRelation
<1> HIDE DEF Less
<1>2. ASSUME Bad # {}  PROVE FALSE
  <2>1. Bad \subseteq Nat
    OBVIOUS
  <2>2. PICK x \in Bad : \A y \in Bad : ~(<<y, x>> \in Less)
    BY <1>1, <1>2, <2>1, WFMin
  <2>3. x # 0 /\ x \in 0..n /\ x \notin T
    BY <2>2
  <2>4. x - 1 \in Nat /\ x - 1 < n
    BY <2>3
  <2>5. x - 1 \notin Bad
    <3>1. <<x - 1, x>> \in Less
      BY <1>1, <2>3, <2>4
    <3> QED
      BY <2>2, <3>1
  <2> QED
    BY <2>3, <2>4, <2>5
<1> QED
  BY <1>2

-----------------------------------------------------------------------------
(* Folds                                                                   *)

\* f folds the places 1..k, greatest first, the way MapThenFoldSet does: F takes
\* what was folded before, a value of X, and the place.
IsFold(k, X, b, F, f) ==
  /\ f \in [SUBSET (1..k) -> X]
  /\ \A s \in SUBSET (1..k) : f[s] = IF s = {} THEN b ELSE F[<<f[s \ {Max(s)}], Max(s)>>]

\* What folds the first k places extends to what folds the first k + 1.
LEMMA FoldExtends ==
  ASSUME NEW k \in Nat, NEW X, NEW b \in X, NEW F, NEW f, IsFold(k, X, b, F, f),
         \A x \in X : F[<<x, k + 1>>] \in X
  PROVE  \E h : IsFold(k + 1, X, b, F, h)
<1> USE DEF IsFold
<1> DEFINE h == [s \in SUBSET (1..(k + 1)) |->
                   IF k + 1 \in s THEN F[<<f[s \ {k + 1}], k + 1>>] ELSE f[s]]
<1>1. ASSUME NEW s \in SUBSET (1..(k + 1)), k + 1 \notin s  PROVE s \in SUBSET (1..k)
  <2>1. ASSUME NEW e \in s  PROVE e \in 1..k
    BY <1>1
  <2> QED
    BY <2>1
<1>2. ASSUME NEW s \in SUBSET (1..(k + 1)), k + 1 \in s
      PROVE  s \ {k + 1} \in SUBSET (1..k) /\ Max(s) = k + 1
  <2>1. \A e \in s : k + 1 >= e
    BY <1>2
  <2>2. \A m \in s : (\A e \in s : m >= e) => m = k + 1
    BY <1>2
  <2>3. Max(s) = k + 1
    BY <2>1, <2>2, <1>2 DEF Max
  <2>4. ASSUME NEW e \in s \ {k + 1}  PROVE e \in 1..k
    OBVIOUS
  <2> QED
    BY <2>3, <2>4
<1>3. h \in [SUBSET (1..(k + 1)) -> X]
  BY <1>1, <1>2
<1>4. ASSUME NEW s \in SUBSET (1..(k + 1))
      PROVE  h[s] = IF s = {} THEN b ELSE F[<<h[s \ {Max(s)}], Max(s)>>]
  <2>1. CASE k + 1 \in s
    <3>1. s \ {Max(s)} \in SUBSET (1..(k + 1)) /\ k + 1 \notin s \ {Max(s)}
      BY <2>1, <1>2
    <3>2. h[s \ {Max(s)}] = f[s \ {k + 1}]
      BY <3>1, <2>1, <1>2
    <3> QED
      BY <3>2, <2>1, <1>2
  <2>2. CASE k + 1 \notin s
    <3>1. s \ {Max(s)} \in SUBSET (1..(k + 1)) /\ k + 1 \notin s \ {Max(s)}
      BY <2>2
    <3>2. h[s \ {Max(s)}] = f[s \ {Max(s)}] /\ h[s] = f[s]
      BY <3>1, <2>2
    <3> HIDE DEF h
    <3> QED
      BY <3>2, <2>2, <1>1
  <2> QED
    BY <2>1, <2>2
<1> HIDE DEF h
<1> QED
  BY <1>3, <1>4

\* The function by which MapThenFoldSet folds the places 1..n exists.
LEMMA FoldExists ==
  ASSUME NEW n \in Nat, NEW X, NEW b \in X, NEW F,
         \A k \in 1..n : \A x \in X : F[<<x, k>>] \in X
  PROVE  \E f : IsFold(n, X, b, F, f)
<1> DEFINE T == {k \in 0..n : \E f : IsFold(k, X, b, F, f)}
<1>1. 0 \in T
  <2>1. IsFold(0, X, b, F, [s \in SUBSET (1..0) |-> b])
    BY 1..0 = {} DEF IsFold
  <2> QED
    BY <2>1
<1>2. ASSUME NEW k \in Nat, k < n, k \in T  PROVE k + 1 \in T
  <2>1. PICK f : IsFold(k, X, b, F, f)
    BY <1>2
  <2>2. k + 1 \in 1..n /\ k + 1 \in 0..n
    BY <1>2
  <2>3. \E h : IsFold(k + 1, X, b, F, h)
    BY <2>1, <2>2, FoldExtends
  <2> QED
    BY <2>3, <2>2
<1> HIDE DEF T
<1>3. \A k \in 0..n : k \in T
  BY <1>1, <1>2, UpTo
<1>4. n \in T
  BY <1>3
<1> QED
  BY <1>4 DEF T

\* The greatest of a set of places is one of them.
LEMMA MaxIsPlace ==
  ASSUME NEW n \in Nat, NEW s \in SUBSET (1..n), s # {}
  PROVE  Max(s) \in s /\ \A e \in s : Max(s) >= e
<1> DEFINE HasMax(t) == t # {} => \E m \in t : \A e \in t : m >= e
           T == {k \in 0..n : \A t \in SUBSET (1..k) : HasMax(t)}
<1>1. 0 \in T
  <2>1. ASSUME NEW t \in SUBSET (1..0)  PROVE HasMax(t)
    BY 1..0 = {}
  <2> HIDE DEF HasMax
  <2> QED
    BY <2>1
<1>2. ASSUME NEW k \in Nat, k < n, k \in T  PROVE k + 1 \in T
  <2>1. ASSUME NEW t \in SUBSET (1..(k + 1))  PROVE HasMax(t)
    <3>1. CASE k + 1 \in t
      <4>1. \A e \in t : k + 1 >= e
        OBVIOUS
      <4> QED
        BY <3>1, <4>1
    <3>2. CASE k + 1 \notin t
      <4>1. ASSUME NEW e \in t  PROVE e \in 1..k
        BY <3>2
      <4>2. t \in SUBSET (1..k)
        BY <4>1
      <4> QED
        BY <4>2, <1>2
    <3> QED
      BY <3>1, <3>2
  <2> HIDE DEF HasMax
  <2> QED
    BY <2>1, <1>2
<1> HIDE DEF T
<1>3. \A k \in 0..n : k \in T
  BY <1>1, <1>2, UpTo
<1>4. HasMax(s)
  BY <1>3 DEF T
<1> QED
  BY <1>4 DEF Max

\* The places up to k, of n, are k and those up to k - 1.
LEMMA PlacesUpTo ==
  ASSUME NEW n \in Nat, NEW k \in 1..n
  PROVE  /\ 1..k \in SUBSET (1..n) /\ 1..k # {}
         /\ Max(1..k) = k /\ (1..k) \ {k} = 1..(k - 1)
<1>1. \A m \in 1..k : (\A e \in 1..k : m >= e) => m = k
  OBVIOUS
<1>2. \A e \in 1..k : k >= e
  OBVIOUS
<1>3. k \in 1..k /\ 1..k \in SUBSET (1..n) /\ (1..k) \ {k} = 1..(k - 1)
  OBVIOUS
<1> QED
  BY <1>1, <1>2, <1>3 DEF Max

-----------------------------------------------------------------------------
(* Sequences from which one element goes                                   *)

\* The least of a set of places is one of them.
LEMMA MinIsPlace ==
  ASSUME NEW s \in SUBSET Nat, s # {}
  PROVE  Min(s) \in s /\ \A e \in s : Min(s) <= e
<1> DEFINE Less == OpToRel(<, Nat)
<1>1. IsWellFoundedOn(Less, Nat) /\ Less = {p \in Nat \X Nat : p[1] < p[2]}
  BY NatLessThanWellFounded, LessThanRelation
<1> HIDE DEF Less
<1>2. PICK x \in s : \A y \in s : ~(<<y, x>> \in Less)
  BY <1>1, WFMin
<1>3. \A y \in s : x <= y
  <2>1. ASSUME NEW y \in s, y < x  PROVE FALSE
    <3>1. <<y, x>> \in Less
      BY <1>1, <2>1
    <3> QED
      BY <1>2, <3>1
  <2> QED
    BY <2>1
<1> QED
  BY <1>3 DEF Min

\* The places of what is left when place i goes.
LEMMA PlacesLeft ==
  ASSUME NEW S, NEW s \in Seq(S), NEW i \in 1..Len(s)
  PROVE  /\ RemoveAt(s, i) \in Seq(S) /\ Len(RemoveAt(s, i)) = Len(s) - 1
         /\ \A j \in 1..(Len(s) - 1) : RemoveAt(s, i)[j] = IF j < i THEN s[j] ELSE s[j + 1]
<1> DEFINE a == SubSeq(s, 1, i - 1)
           b == SubSeq(s, i + 1, Len(s))
<1>1. /\ a \in Seq(S) /\ Len(a) = i - 1 /\ \A j \in 1..(i - 1) : a[j] = s[j]
  BY SubSeqProperties
<1>2. /\ b \in Seq(S) /\ Len(b) = Len(s) - i /\ \A j \in 1..(Len(s) - i) : b[j] = s[i + j]
  BY SubSeqProperties
<1> HIDE DEF a, b
<1>3. /\ a \o b \in Seq(S) /\ Len(a \o b) = Len(s) - 1
      /\ \A j \in 1..(Len(s) - 1) : (a \o b)[j] = IF j <= Len(a) THEN a[j] ELSE b[j - Len(a)]
  <2>1. Len(a) + Len(b) = Len(s) - 1
    BY <1>1, <1>2
  <2>2. /\ a \o b \in Seq(S) /\ Len(a \o b) = Len(a) + Len(b)
        /\ \A j \in 1..(Len(a) + Len(b)) :
             (a \o b)[j] = IF j <= Len(a) THEN a[j] ELSE b[j - Len(a)]
    BY <1>1, <1>2, ConcatProperties
  <2> QED
    BY <2>1, <2>2
<1>4. ASSUME NEW j \in 1..(Len(s) - 1)  PROVE (a \o b)[j] = IF j < i THEN s[j] ELSE s[j + 1]
  <2>1. CASE j < i
    BY <1>1, <1>3, <2>1
  <2>2. CASE ~(j < i)
    <3>1. j - Len(a) \in 1..(Len(s) - i) /\ i + (j - Len(a)) = j + 1 /\ ~(j <= Len(a))
      BY <1>1, <2>2
    <3> QED
      BY <1>2, <1>3, <3>1, <2>2
  <2> QED
    BY <2>1, <2>2
<1>5. RemoveAt(s, i) = a \o b
  BY DEF RemoveAt, a, b
<1> QED
  BY <1>3, <1>4, <1>5

\* RemoveFirst takes out the first place that holds e.
LEMMA FirstGoes ==
  ASSUME NEW S, NEW s \in Seq(S), NEW e, \E i \in 1..Len(s) : s[i] = e
  PROVE  \E i \in 1..Len(s) : /\ s[i] = e /\ \A j \in 1..(i - 1) : s[j] # e
                              /\ RemoveFirst(s, e) = RemoveAt(s, i)
<1> DEFINE I == {i \in 1..Len(s) : s[i] = e}
<1>1. Min(I) \in I /\ \A j \in I : Min(I) <= j
  <2>1. I \in SUBSET Nat /\ I # {}
    OBVIOUS
  <2> HIDE DEF I
  <2> QED
    BY <2>1, MinIsPlace
<1>2. RemoveFirst(s, e) = RemoveAt(s, Min(I))
  BY <1>1 DEF RemoveFirst, SelectInSeq
<1>3. \A j \in 1..(Min(I) - 1) : s[j] # e
  BY <1>1
<1> HIDE DEF I
<1>4. Min(I) \in 1..Len(s) /\ s[Min(I)] = e
  BY <1>1 DEF I
<1> QED
  BY <1>2, <1>3, <1>4

\* RemoveFirst of e leaves every other element in.
LEMMA OthersStay ==
  ASSUME NEW S, NEW s \in Seq(S), NEW e
  PROVE  /\ RemoveFirst(s, e) \in Seq(S)
         /\ \A x \in ToSet(s) : x # e => x \in ToSet(RemoveFirst(s, e))
<1>1. CASE \E i \in 1..Len(s) : s[i] = e
  <2>1. PICK i \in 1..Len(s) : s[i] = e /\ RemoveFirst(s, e) = RemoveAt(s, i)
    BY <1>1, FirstGoes
  <2> DEFINE r == RemoveAt(s, i)
  <2>2. /\ r \in Seq(S) /\ Len(r) = Len(s) - 1
        /\ \A j \in 1..(Len(s) - 1) : r[j] = IF j < i THEN s[j] ELSE s[j + 1]
    BY PlacesLeft
  <2> HIDE DEF r
  <2>3. ASSUME NEW x \in ToSet(s), x # e  PROVE \E j \in 1..Len(r) : r[j] = x
    <3>1. PICK j \in 1..Len(s) : s[j] = x
      BY DEF ToSet
    <3>2. CASE j < i
      BY <3>1, <3>2, <2>2
    <3>3. CASE j > i
      <4>1. j - 1 \in 1..(Len(s) - 1) /\ ~(j - 1 < i) /\ j - 1 + 1 = j
        BY <3>3
      <4> QED
        BY <4>1, <3>1, <2>2
    <3> QED
      BY <3>1, <3>2, <3>3, <2>1, <2>3
  <2>4. \A x \in ToSet(s) : x # e => x \in ToSet(r)
    BY <2>2, <2>3 DEF ToSet
  <2> QED
    BY <2>1, <2>2, <2>4 DEF r
<1>2. CASE ~\E i \in 1..Len(s) : s[i] = e
  BY <1>2 DEF RemoveFirst
<1> QED
  BY <1>1, <1>2

-----------------------------------------------------------------------------
(* Recursion over numbers, and what FlattenSeq and SetToSeq make.          *)

\* f goes from 0 to n by F, from b, through values of X.
Recurs(n, X, b, F, f) ==
  /\ f \in [0..n -> X]
  /\ f[0] = b
  /\ \A i \in 1..n : f[i] = F[<<f[i - 1], i>>]

\* Such a function exists.
LEMMA RecursionExists ==
  ASSUME NEW n \in Nat, NEW X, NEW b \in X, NEW F,
         \A i \in 1..n : \A x \in X : F[<<x, i>>] \in X
  PROVE  \E f : Recurs(n, X, b, F, f)
<1> DEFINE T == {k \in 0..n : \E f : Recurs(k, X, b, F, f)}
<1>1. 0 \in T
  <2>1. Recurs(0, X, b, F, [i \in 0..0 |-> b])
    BY DEF Recurs
  <2> QED
    BY <2>1
<1>2. ASSUME NEW k \in Nat, k < n, k \in T  PROVE k + 1 \in T
  <2>1. PICK f : Recurs(k, X, b, F, f)
    BY <1>2
  <2> DEFINE h == [i \in 0..(k + 1) |-> IF i = k + 1 THEN F[<<f[k], k + 1>>] ELSE f[i]]
  <2>2. k + 1 \in 1..n /\ k + 1 \in 0..n /\ k \in 0..k
    BY <1>2
  <2>3. F[<<f[k], k + 1>>] \in X
    BY <2>1, <2>2 DEF Recurs
  <2>4. h \in [0..(k + 1) -> X] /\ h[0] = b
    BY <2>1, <2>3 DEF Recurs
  <2>5. ASSUME NEW i \in 1..(k + 1)  PROVE h[i] = F[<<h[i - 1], i>>]
    <3>1. CASE i = k + 1
      BY <3>1, <2>2
    <3>2. CASE i # k + 1
      <4>1. i \in 1..k /\ i - 1 \in 0..(k + 1) /\ i - 1 # k + 1
        BY <3>2
      <4> QED
        BY <4>1, <3>2, <2>1 DEF Recurs
    <3> QED
      BY <3>1, <3>2
  <2> HIDE DEF h
  <2>6. Recurs(k + 1, X, b, F, h)
    BY <2>4, <2>5 DEF Recurs
  <2> QED
    BY <2>6, <2>2
<1> HIDE DEF T
<1>3. \A k \in 0..n : k \in T
  BY ONLY <1>1, <1>2, n \in Nat, UpTo
<1>4. n \in T
  BY <1>3
<1> QED
  BY <1>4 DEF T

\* f[i] is the first i of the sequences ss, joined.
Joined(S, ss, f) ==
  /\ f \in [0..Len(ss) -> Seq(S)]
  /\ f[0] = <<>>
  /\ \A i \in 1..Len(ss) : f[i] = f[i - 1] \o ss[i]

\* FlattenSeq joins the sequences from the first to the last.
LEMMA FlattenJoins ==
  ASSUME NEW S, NEW ss \in Seq(Seq(S))
  PROVE  \E f : Joined(S, ss, f) /\ FlattenSeq(ss) = f[Len(ss)]
<1> DEFINE n == Len(ss)
           F == [p \in Seq(S) \X (1..n) |-> p[1] \o ss[p[2]]]
           flat(g) == [i \in 1..n |-> IF i = 1 THEN ss[i] ELSE g[i - 1] \o ss[i]]
           it == CHOOSE g : g = flat(g)
<1>1. n \in Nat /\ \A i \in 1..n : ss[i] \in Seq(S)
  OBVIOUS
<1>2. PICK f : Recurs(n, Seq(S), <<>>, F, f)
  <2>1. \A i \in 1..n : \A x \in Seq(S) : F[<<x, i>>] \in Seq(S)
    BY <1>1
  <2>2. <<>> \in Seq(S)
    OBVIOUS
  <2> HIDE DEF F, n
  <2> QED
    BY <1>1, <2>1, <2>2, RecursionExists
<1>3. Joined(S, ss, f)
  <2>1. ASSUME NEW i \in 1..n  PROVE f[i] = f[i - 1] \o ss[i]
    <3>0. i - 1 \in 0..n
      BY <1>1
    <3>1. <<f[i - 1], i>> \in Seq(S) \X (1..n)
      BY <3>0, <1>1, <1>2 DEF Recurs
    <3>2. F[<<f[i - 1], i>>] = f[i - 1] \o ss[i]
      BY <3>1
    <3> QED
      BY <3>2, <1>2 DEF Recurs
  <2> HIDE DEF F
  <2> QED
    BY <2>1, <1>2 DEF Recurs, Joined
<1> HIDE DEF F
<1>0. ASSUME NEW i \in 1..n
      PROVE  f[i - 1] \in Seq(S) /\ ss[i] \in Seq(S) /\ f[i] = f[i - 1] \o ss[i]
  <2>1. i - 1 \in 0..n
    BY <1>1
  <2> QED
    BY <2>1, <1>1, <1>3 DEF Joined
<1>4. FlattenSeq(ss) = f[n]
  <2>1. CASE n = 0
    BY <2>1, <1>3 DEF FlattenSeq, Joined
  <2>2. CASE n # 0
    <3> DEFINE h == [i \in 1..n |-> f[i]]
               T == {i \in 0..n : i # 0 => it[i] = f[i]}
    <3>1. h = flat(h)
      <4>1. ASSUME NEW i \in 1..n
            PROVE  h[i] = IF i = 1 THEN ss[i] ELSE h[i - 1] \o ss[i]
        <5>1. f[i] = f[i - 1] \o ss[i] /\ h[i] = f[i]
          BY <1>0
        <5>2. CASE i = 1
          <6>1. f[i - 1] = <<>> /\ ss[i] \in Seq(S)
            BY <1>1, <1>3, <5>2 DEF Joined
          <6> QED
            BY <5>1, <5>2, <6>1, ConcatEmptySeq
        <5>3. CASE i # 1
          <6>1. h[i - 1] = f[i - 1]
            BY <5>3
          <6> HIDE DEF h
          <6> QED
            BY <5>1, <5>3, <6>1
        <5> QED
          BY <5>2, <5>3
      <4> QED
        BY <4>1
    <3>2. it = flat(it)
      <4> HIDE DEF flat, h
      <4> QED
        BY <3>1
    <3>3. FlattenSeq(ss) = it[n]
      BY <2>2 DEF FlattenSeq
    <3> HIDE DEF it
    <3>4. 0 \in T
      BY <1>1
    <3>5. ASSUME NEW k \in Nat, k < n, k \in T  PROVE k + 1 \in T
      <4>1. k + 1 \in 1..n /\ k + 1 \in 0..n
        BY <3>5, <1>1
      <4>2. f[k + 1] = f[k] \o ss[k + 1]
        <5>1. (k + 1) - 1 = k
          BY <3>5
        <5> QED
          BY <1>0, <4>1, <5>1
      <4>3. CASE k = 0
        <5>1. it[1] = ss[1]
          BY <3>2, <4>1, <4>3
        <5>2. f[1] = ss[1]
          <6>1. f[0] = <<>> /\ ss[1] \in Seq(S)
            BY <1>1, <1>3, <4>1, <4>3 DEF Joined
          <6> QED
            BY <4>2, <4>3, <6>1, ConcatEmptySeq
        <5> QED
          BY <5>1, <5>2, <4>1, <4>3
      <4>4. CASE k # 0
        <5> DEFINE j == k + 1
        <5>0. j \in 1..n /\ j # 1 /\ j - 1 = k
          BY ONLY k \in Nat, <4>1, <4>4
        <5> HIDE DEF j
        <5>1. it[j] = it[j - 1] \o ss[j]
          BY <3>2, <5>0
        <5> QED
          BY <5>1, <5>0, <4>1, <4>2, <4>4, <3>5 DEF j
      <4> QED
        BY <4>3, <4>4
    <3> HIDE DEF T
    <3>6. n \in T
      <4>1. n \in Nat /\ 0 \in T /\ \A k \in Nat : k < n /\ k \in T => k + 1 \in T
        BY <3>4, <3>5, <1>1
      <4> HIDE DEF n
      <4>2. \A k \in 0..n : k \in T
        BY ONLY <4>1, UpTo
      <4> QED
        BY <4>1, <4>2
    <3> QED
      BY <3>3, <3>6, <2>2 DEF T
  <2> QED
    BY <2>1, <2>2
<1> QED
  BY <1>3, <1>4

\* FlattenSeq of one sequence more.
LEMMA FlattenAppend ==
  ASSUME NEW S, NEW ss \in Seq(Seq(S)), NEW s \in Seq(S)
  PROVE  /\ FlattenSeq(<<>>) = <<>> /\ FlattenSeq(ss) \in Seq(S)
         /\ FlattenSeq(Append(ss, s)) = FlattenSeq(ss) \o s
<1> DEFINE n == Len(ss)
           tt == Append(ss, s)
<1>1. /\ n \in Nat /\ tt \in Seq(Seq(S)) /\ Len(tt) = n + 1 /\ tt[n + 1] = s
      /\ \A i \in 1..n : tt[i] = ss[i]
  BY AppendProperties
<1>2. PICK f : Joined(S, ss, f) /\ FlattenSeq(ss) = f[n]
  BY FlattenJoins
<1> HIDE DEF tt
<1>3. PICK g : Joined(S, tt, g) /\ FlattenSeq(tt) = g[n + 1]
  <2>1. \E g : Joined(S, tt, g) /\ FlattenSeq(tt) = g[Len(tt)]
    BY <1>1, FlattenJoins
  <2> QED
    BY <2>1, <1>1
<1> HIDE DEF n
<1> DEFINE T == {i \in 0..n : g[i] = f[i]}
<1>0. Len(ss) = n
  BY DEF n
<1>4. 0 \in T
  BY <1>1, <1>2, <1>3 DEF Joined
<1>5. ASSUME NEW k \in Nat, k < n, k \in T  PROVE k + 1 \in T
  <2>1. k + 1 \in 1..n /\ k + 1 \in 1..(n + 1) /\ k + 1 \in 0..n /\ (k + 1) - 1 = k
    BY <1>5, <1>1
  <2>2. f[k + 1] = f[k] \o ss[k + 1]
    BY <2>1, <1>0, <1>2 DEF Joined
  <2>3. g[k + 1] = g[k] \o tt[k + 1]
    BY <2>1, <1>1, <1>3 DEF Joined
  <2> QED
    BY <2>1, <2>2, <2>3, <1>1, <1>5
<1> HIDE DEF T
<1>6. n \in T
  BY <1>4, <1>5, <1>1, UpTo
<1>7. g[n] = f[n]
  BY <1>6 DEF T
<1>8. g[n + 1] = g[n] \o s
  <2>1. n + 1 \in 1..Len(tt) /\ (n + 1) - 1 = n
    BY <1>1
  <2> QED
    BY <2>1, <1>1, <1>3 DEF Joined
<1>9. f[n] \in Seq(S)
  BY <1>0, <1>1, <1>2 DEF Joined
<1>10. FlattenSeq(<<>>) = <<>>
  BY DEF FlattenSeq
<1> QED
  BY <1>2, <1>3, <1>7, <1>8, <1>9, <1>10 DEF tt

\* SetToSeq makes a sequence that has each element once.
LEMMA SetAsSeq ==
  ASSUME NEW S, IsFiniteSet(S)
  PROVE  /\ SetToSeq(S) \in Seq(S)
         /\ \A i, j \in DOMAIN SetToSeq(S) : SetToSeq(S)[i] = SetToSeq(S)[j] => i = j
<1>1. Cardinality(S) \in Nat /\ ExistsBijection(1..Cardinality(S), S)
  BY FS_CardinalityType
<1>2. PICK f \in Bijection(1..Cardinality(S), S) : TRUE
  BY <1>1 DEF ExistsBijection
<1>3. f \in [1..Cardinality(S) -> S] /\ IsInjective(f)
  BY <1>2 DEF Bijection, Injection, Surjection, IsInjective
<1>4. SetToSeq(S) \in [1..Cardinality(S) -> S] /\ IsInjective(SetToSeq(S))
  BY <1>3 DEF SetToSeq
<1> HIDE DEF SetToSeq
<1>5. SetToSeq(S) \in Seq(S)
  BY <1>1, <1>4
<1> QED
  BY <1>4, <1>5 DEF IsInjective

\* Every element of r is one of s, and any two are in the same order there.
KeepsOrder(r, s) ==
  /\ \A i \in DOMAIN r : \E k \in DOMAIN s : r[i] = s[k]
  /\ \A i, j \in DOMAIN r :
       i < j => \E k, l \in DOMAIN s : k < l /\ r[i] = s[k] /\ r[j] = s[l]

\* What RemoveFirst leaves was there, in the same order.
LEMMA OrderStays ==
  ASSUME NEW S, NEW s \in Seq(S), NEW e
  PROVE  RemoveFirst(s, e) \in Seq(S) /\ KeepsOrder(RemoveFirst(s, e), s)
<1>1. CASE \E i \in 1..Len(s) : s[i] = e
  <2>1. PICK i \in 1..Len(s) : s[i] = e /\ RemoveFirst(s, e) = RemoveAt(s, i)
    BY <1>1, FirstGoes
  <2> DEFINE r == RemoveAt(s, i)
             was(j) == IF j < i THEN j ELSE j + 1
  <2>2. /\ r \in Seq(S) /\ Len(r) = Len(s) - 1
        /\ \A j \in 1..(Len(s) - 1) : r[j] = IF j < i THEN s[j] ELSE s[j + 1]
    BY PlacesLeft
  <2> HIDE DEF r
  <2>3. DOMAIN r = 1..(Len(s) - 1) /\ DOMAIN s = 1..Len(s) /\ Len(s) \in Nat
    BY <2>2
  <2>4. ASSUME NEW j \in DOMAIN r  PROVE was(j) \in DOMAIN s /\ r[j] = s[was(j)]
    BY <2>2, <2>3
  <2>5. ASSUME NEW j \in DOMAIN r, NEW k \in DOMAIN r, j < k  PROVE was(j) < was(k)
    BY <2>3, <2>5
  <2> HIDE DEF was
  <2>6. \A j \in DOMAIN r : \E k \in DOMAIN s : r[j] = s[k]
    BY <2>4
  <2>7. \A j, k \in DOMAIN r :
          j < k => \E l, m \in DOMAIN s : l < m /\ r[j] = s[l] /\ r[k] = s[m]
    BY <2>4, <2>5
  <2>8. KeepsOrder(r, s)
    BY <2>6, <2>7 DEF KeepsOrder
  <2> QED
    BY <2>1, <2>2, <2>8 DEF r
<1>2. CASE ~\E i \in 1..Len(s) : s[i] = e
  BY <1>2 DEF RemoveFirst, KeepsOrder
<1> QED
  BY <1>1, <1>2

\* A part of a part.
LEMMA PartOfPart ==
  ASSUME NEW S, NEW s \in Seq(S), NEW a \in Nat, NEW z \in Nat, a <= z, z <= Len(s),
         NEW m \in Nat, NEW n \in Nat, m <= n, n <= z - a
  PROVE  /\ SubSeq(SubSeq(s, a + 1, z), m + 1, n) = SubSeq(s, a + m + 1, a + n)
         /\ SubSeq(s, a + 1, z) \in Seq(S) /\ Len(SubSeq(s, a + 1, z)) = z - a
<1> DEFINE t == SubSeq(s, a + 1, z)
           u == SubSeq(t, m + 1, n)
           v == SubSeq(s, a + m + 1, a + n)
<1>0. DOMAIN s = 1..Len(s) /\ Len(s) \in Nat
  OBVIOUS
<1>1. t \in Seq(S) /\ Len(t) = z - a /\ \A i \in 1..(z - a) : t[i] = s[a + i]
  <2>1. \A i \in (a + 1)..z : s[i] \in S
    OBVIOUS
  <2>2. /\ t \in Seq(S) /\ Len(t) = IF a + 1 <= z THEN z - (a + 1) + 1 ELSE 0
        /\ \A i \in 1..(z - (a + 1) + 1) : t[i] = s[(a + 1) + i - 1]
    BY <2>1, SubSeqProperties
  <2> HIDE DEF t
  <2> QED
    BY <2>2
<1> HIDE DEF t
<1>2. u \in Seq(S) /\ Len(u) = n - m /\ \A i \in 1..(n - m) : u[i] = t[m + i]
  <2>1. \A i \in (m + 1)..n : t[i] \in S
    BY <1>1
  <2>2. /\ u \in Seq(S) /\ Len(u) = IF m + 1 <= n THEN n - (m + 1) + 1 ELSE 0
        /\ \A i \in 1..(n - (m + 1) + 1) : u[i] = t[(m + 1) + i - 1]
    BY <2>1, SubSeqProperties
  <2> HIDE DEF u
  <2> QED
    BY <2>2
<1>3. v \in Seq(S) /\ Len(v) = n - m /\ \A i \in 1..(n - m) : v[i] = s[a + m + i]
  <2>1. \A i \in (a + m + 1)..(a + n) : s[i] \in S
    OBVIOUS
  <2>2. /\ v \in Seq(S) /\ Len(v) = IF a + m + 1 <= a + n THEN (a + n) - (a + m + 1) + 1 ELSE 0
        /\ \A i \in 1..((a + n) - (a + m + 1) + 1) : v[i] = s[(a + m + 1) + i - 1]
    BY <2>1, SubSeqProperties
  <2> HIDE DEF v
  <2> QED
    BY <2>2
<1> HIDE DEF u, v
<1>4. \A i \in 1..Len(u) : u[i] = v[i]
  <2>1. ASSUME NEW i \in 1..(n - m)  PROVE u[i] = v[i]
    <3>1. m + i \in 1..(z - a) /\ a + (m + i) = a + m + i
      OBVIOUS
    <3> QED
      BY <3>1, <1>1, <1>2, <1>3
  <2> QED
    BY <2>1, <1>2
<1>5. u = v
  BY <1>2, <1>3, <1>4, SeqEqual
<1> QED
  BY <1>1, <1>5 DEF t, u, v

\* The beginning of a sequence, and of one that goes on.
LEMMA FirstPlaces ==
  ASSUME NEW S, NEW s \in Seq(S), NEW k \in 0..Len(s)
  PROVE  /\ SubSeq(s, 1, k) \in Seq(S) /\ Len(SubSeq(s, 1, k)) = k
         /\ \A i \in 1..k : SubSeq(s, 1, k)[i] = s[i]
<1>1. \A i \in 1..k : s[i] \in S
  OBVIOUS
<1>2. /\ SubSeq(s, 1, k) \in Seq(S) /\ Len(SubSeq(s, 1, k)) = IF 1 <= k THEN k - 1 + 1 ELSE 0
      /\ \A i \in 1..(k - 1 + 1) : SubSeq(s, 1, k)[i] = s[1 + i - 1]
  BY <1>1, SubSeqProperties
<1> QED
  BY <1>2

\* What comes first in a concatenation.
LEMMA FirstPart ==
  ASSUME NEW S, NEW s \in Seq(S), NEW t \in Seq(S), NEW k \in 0..Len(s)
  PROVE  SubSeq(s \o t, 1, k) = SubSeq(s, 1, k)
<1>1. /\ s \o t \in Seq(S) /\ Len(s \o t) = Len(s) + Len(t)
      /\ \A i \in 1..(Len(s) + Len(t)) : (s \o t)[i] = IF i <= Len(s) THEN s[i] ELSE t[i - Len(s)]
  BY ConcatProperties
<1>2. Len(s) \in Nat /\ Len(t) \in Nat
  OBVIOUS
<1> DEFINE st == s \o t
<1> HIDE DEF st
<1>3. st \in Seq(S) /\ k \in 0..Len(st) /\ \A i \in 1..k : st[i] = s[i]
  BY <1>1, <1>2 DEF st
<1>4. /\ SubSeq(st, 1, k) \in Seq(S) /\ Len(SubSeq(st, 1, k)) = k
      /\ \A i \in 1..k : SubSeq(st, 1, k)[i] = st[i]
  BY <1>3, FirstPlaces
<1>5. /\ SubSeq(s, 1, k) \in Seq(S) /\ Len(SubSeq(s, 1, k)) = k
      /\ \A i \in 1..k : SubSeq(s, 1, k)[i] = s[i]
  BY FirstPlaces
<1>6. SubSeq(st, 1, k) = SubSeq(s, 1, k)
  BY <1>3, <1>4, <1>5, SeqEqual
<1> QED
  BY <1>6 DEF st

-----------------------------------------------------------------------------
(* Heaps: what push_heap and pop_heap do to an array of any length, with   *)
(* any times.  They move the timers that are there, and keep the order of  *)
(* a heap, so that the first is due soonest.                               *)

(* Paths                                                                   *)

\* A half, rounded down.
LEMMA HalfIs ==
  ASSUME NEW i \in Nat
  PROVE  /\ Parent(i) \in Nat /\ 2 * Parent(i) <= i /\ i <= 2 * Parent(i) + 1
         /\ i >= 2 => Parent(i) >= 1 /\ Parent(i) < i
         /\ Parent(2 * i) = i /\ Parent(2 * i + 1) = i
  BY DEF Parent

\* The places from each i on, by way of nx, as far as it goes.
Trails(n, nx, f) ==
  /\ f \in [1..n -> SUBSET (1..n)]
  /\ \A i \in 1..n : f[i] = {i} \cup (IF nx[i] = 0 THEN {} ELSE f[nx[i]])

\* The same, for the places of a rank less than k.
TrailsBelow(n, nx, rank, k, f) ==
  /\ f \in [1..n -> SUBSET (1..n)]
  /\ \A i \in 1..n : rank[i] < k => f[i] = {i} \cup (IF nx[i] = 0 THEN {} ELSE f[nx[i]])

\* There are such places, if nx does not go round in circles.
LEMMA TrailsExist ==
  ASSUME NEW n \in Nat, NEW nx \in [1..n -> 0..n], NEW rank \in [1..n -> 0..n],
         \A i \in 1..n : nx[i] # 0 => rank[nx[i]] < rank[i]
  PROVE  \E f : Trails(n, nx, f)
<1> DEFINE T == {k \in 0..(n + 1) : \E f : TrailsBelow(n, nx, rank, k, f)}
<1>1. 0 \in T
  <2>1. TrailsBelow(n, nx, rank, 0, [i \in 1..n |-> {}])
    BY DEF TrailsBelow
  <2> QED
    BY <2>1
<1>2. ASSUME NEW k \in Nat, k < n + 1, k \in T  PROVE k + 1 \in T
  <2>1. PICK f : TrailsBelow(n, nx, rank, k, f)
    BY <1>2
  <2> DEFINE h == [i \in 1..n |-> {i} \cup (IF nx[i] = 0 THEN {} ELSE f[nx[i]])]
  <2>2. \A i \in 1..n : nx[i] # 0 => nx[i] \in 1..n
    OBVIOUS
  <2>3. h \in [1..n -> SUBSET (1..n)]
    BY <2>1, <2>2 DEF TrailsBelow
  <2>4. ASSUME NEW i \in 1..n, rank[i] < k + 1, nx[i] # 0  PROVE h[nx[i]] = f[nx[i]]
    <3>1. nx[i] \in 1..n /\ rank[nx[i]] < k
      BY <2>2, <2>4
    <3> QED
      BY <2>1, <3>1 DEF TrailsBelow
  <2>5. \A i \in 1..n : rank[i] < k + 1 =>
           h[i] = {i} \cup (IF nx[i] = 0 THEN {} ELSE h[nx[i]])
    BY <2>4
  <2> HIDE DEF h
  <2>6. TrailsBelow(n, nx, rank, k + 1, h)
    BY <2>3, <2>5 DEF TrailsBelow
  <2> QED
    BY <1>2, <2>6
<1> HIDE DEF T
<1>3. n + 1 \in T
  <2>1. n + 1 \in Nat /\ 0 \in T /\ \A k \in Nat : k < n + 1 /\ k \in T => k + 1 \in T
    BY <1>1, <1>2
  <2>2. \A k \in 0..(n + 1) : k \in T
    BY ONLY <2>1, UpTo
  <2> QED
    BY <2>2
<1>4. PICK f : TrailsBelow(n, nx, rank, n + 1, f)
  BY <1>3 DEF T
<1>5. \A i \in 1..n : rank[i] < n + 1
  OBVIOUS
<1> QED
  BY <1>4, <1>5 DEF Trails, TrailsBelow

\* From n up to the root: every parent, each once, and none left out.
IsChain(S, n) ==
  /\ S \subseteq 1..n /\ 1 \in S /\ n \in S
  /\ \A i \in S : i > 1 => Parent(i) \in S
  /\ \A i, j \in S : i < j => i <= Parent(j)
  /\ \A i \in S : i < n => \E c \in S : c > 1 /\ Parent(c) = i

\* A chain gets longer at the bottom.
LEMMA ChainGrows ==
  ASSUME NEW i \in Nat, i >= 2, NEW S, IsChain(S, Parent(i))
  PROVE  IsChain({i} \cup S, i)
<1> DEFINE p == Parent(i)
<1>1. p \in Nat /\ p >= 1 /\ p < i
  BY HalfIs
<1>2. /\ S \subseteq 1..p /\ 1 \in S /\ p \in S
      /\ \A j \in S : j > 1 => Parent(j) \in S
      /\ \A j, k \in S : j < k => j <= Parent(k)
      /\ \A j \in S : j < p => \E c \in S : c > 1 /\ Parent(c) = j
  BY DEF IsChain
<1>3. p = Parent(i)
  OBVIOUS
<1> HIDE DEF p
<1>4. {i} \cup S \subseteq 1..i /\ 1 \in {i} \cup S
  BY <1>1, <1>2
<1>5. \A j \in {i} \cup S : j > 1 => Parent(j) \in {i} \cup S
  BY <1>2, <1>3
<1>6. \A j, k \in {i} \cup S : j < k => j <= Parent(k)
  BY <1>1, <1>2, <1>3
<1>7. ASSUME NEW j \in {i} \cup S, j < i
      PROVE  \E c \in {i} \cup S : c > 1 /\ Parent(c) = j
  <2>1. j \in S /\ j \in 1..p
    BY <1>2, <1>7
  <2>2. CASE j = p
    BY <1>3, <2>2
  <2>3. CASE j < p
    BY <1>2, <2>1, <2>3
  <2> QED
    BY <1>1, <2>1, <2>2, <2>3
<1> QED
  BY <1>4, <1>5, <1>6, <1>7 DEF IsChain

\* The places that a timer added at the end may climb to.
LEMMA ChainIs ==
  ASSUME NEW n \in Nat, n >= 1
  PROVE  IsChain(Chain(n), n)
<1> DEFINE Up(f) == [i \in 1..n |-> IF i = 1 THEN {1} ELSE {i} \cup f[Parent(i)]]
           up == CHOOSE f : f = Up(f)
           nx == [i \in 1..n |-> IF i = 1 THEN 0 ELSE Parent(i)]
           rank == [i \in 1..n |-> i]
<1>1. \A i \in 1..n : i # 1 => Parent(i) \in 1..n /\ Parent(i) < i
  BY HalfIs
<1>2. PICK f : Trails(n, nx, f)
  <2>1. nx \in [1..n -> 0..n] /\ rank \in [1..n -> 0..n]
    BY <1>1
  <2>2. \A i \in 1..n : nx[i] # 0 => rank[nx[i]] < rank[i]
    BY <1>1
  <2> HIDE DEF nx, rank
  <2> QED
    BY <2>1, <2>2, TrailsExist
<1>3. f = Up(f)
  <2>1. \A i \in 1..n : f[i] = IF i = 1 THEN {1} ELSE {i} \cup f[Parent(i)]
    BY <1>1, <1>2 DEF Trails
  <2>2. f \in [1..n -> SUBSET (1..n)]
    BY <1>2 DEF Trails
  <2> QED
    BY <2>1, <2>2
<1>4. up = Up(up)
  <2> HIDE DEF Up
  <2> QED
    BY <1>3
<1>5. Chain(n) = up[n]
  BY DEF Chain
<1> HIDE DEF up
<1>6. \A i \in 1..n : up[i] = IF i = 1 THEN {1} ELSE {i} \cup up[Parent(i)]
  BY <1>4
<1> DEFINE T == {k \in 0..n : \A i \in 1..n : i <= k => IsChain(up[i], i)}
<1>7. 0 \in T
  OBVIOUS
<1>8. ASSUME NEW k \in Nat, k < n, k \in T  PROVE k + 1 \in T
  <2>1. k + 1 \in 1..n /\ \A i \in 1..n : i <= k => IsChain(up[i], i)
    BY <1>8
  <2>2. CASE k = 0
    <3>1. up[1] = {1}
      <4>1. 1 \in 1..n
        OBVIOUS
      <4> QED
        BY ONLY <1>6, <4>1
    <3>2. IsChain({1}, 1)
      BY DEF IsChain
    <3>3. \A i \in 1..n : i <= k + 1 => i = 1
      BY <2>2
    <3> QED
      BY <2>1, <3>1, <3>2, <3>3
  <2>3. CASE k > 0
    <3> DEFINE i == k + 1
    <3>1. i \in Nat /\ i >= 2 /\ Parent(i) \in 1..n /\ Parent(i) <= k
      BY <1>1, <2>1, <2>3
    <3>2. up[i] = {i} \cup up[Parent(i)]
      <4>1. i \in 1..n /\ i # 1
        BY <2>1, <3>1
      <4> HIDE DEF i
      <4> QED
        BY ONLY <1>6, <4>1
    <3>3. IsChain(up[i], i)
      BY <2>1, <3>1, <3>2, ChainGrows
    <3>4. \A j \in 1..n : j <= k + 1 => j = i \/ j <= k
      BY <1>8
    <3> HIDE DEF i
    <3>5. \A j \in 1..n : j <= k + 1 => IsChain(up[j], j)
      BY <2>1, <3>3, <3>4
    <3>6. k + 1 \in 0..n
      BY <1>8
    <3> QED
      BY <3>5, <3>6
  <2> QED
    BY <1>8, <2>2, <2>3
<1> HIDE DEF T
<1>9. n \in T
  <2>1. 0 \in T /\ \A k \in Nat : k < n /\ k \in T => k + 1 \in T
    BY <1>7, <1>8
  <2>2. \A k \in 0..n : k \in T
    BY ONLY <2>1, n \in Nat, UpTo
  <2> QED
    BY <2>2
<1> QED
  BY <1>5, <1>9 DEF T

-----------------------------------------------------------------------------
(* Arrays whose timers were moved                                          *)

\* r has the timers of s that src names, each from one place.
Rearranged(r, s, src) ==
  /\ DOMAIN r = DOMAIN src
  /\ \A i \in DOMAIN src : src[i] \in DOMAIN s /\ r[i] = s[src[i]]
  /\ \A i, j \in DOMAIN src : src[i] = src[j] => i = j

\* The timers in the array.
Within(q) == {q[i] : i \in DOMAIN q}
\* No timer is in it twice.
Once(q) == \A i, j \in DOMAIN q : q[i] = q[j] => i = j

\* What is moved is not doubled.
LEMMA RearrangedOnce ==
  ASSUME NEW r, NEW s, NEW src, Rearranged(r, s, src), Once(s)
  PROVE  Once(r)
  BY DEF Rearranged, Once

\* A number is the least of a finite set of numbers that has one.
LEMMA LowestIs ==
  ASSUME NEW n \in Nat, NEW S \in SUBSET (1..n), S # {}
  PROVE  Lowest(S) \in S /\ \A j \in S : Lowest(S) <= j
<1> DEFINE T == {k \in 0..n : \A s \in SUBSET S : s # {} /\ (\E x \in s : x <= k) =>
                                \E i \in s : \A j \in s : i <= j}
<1>1. 0 \in T
  OBVIOUS
<1>2. ASSUME NEW k \in Nat, k < n, k \in T  PROVE k + 1 \in T
  <2>1. ASSUME NEW s \in SUBSET S, NEW x \in s, x <= k + 1
        PROVE  \E i \in s : \A j \in s : i <= j
    <3>1. CASE \E y \in s : y <= k
      BY <1>2, <3>1
    <3>2. CASE ~\E y \in s : y <= k
      <4>1. \A y \in s : y \in Nat /\ x \in Nat /\ ~(y <= k)
        BY <3>2
      <4>2. \A y \in s : x <= y
        BY <2>1, <4>1
      <4> QED
        BY <4>2
    <3> QED
      BY <3>1, <3>2
  <2>2. k + 1 \in 0..n
    BY <1>2
  <2> QED
    BY <2>1, <2>2
<1> HIDE DEF T
<1>3. n \in T
  <2>1. 0 \in T /\ \A k \in Nat : k < n /\ k \in T => k + 1 \in T
    BY <1>1, <1>2
  <2>2. \A k \in 0..n : k \in T
    BY ONLY <2>1, n \in Nat, UpTo
  <2> QED
    BY <2>2
<1>4. \E i \in S : \A j \in S : i <= j
  <2>1. \E x \in S : x <= n
    <3>1. PICK x \in S : TRUE
      OBVIOUS
    <3>2. x \in 1..n
      BY <3>1
    <3> QED
      BY <3>2
  <2> QED
    BY <1>3, <2>1 DEF T
<1> QED
  BY <1>4 DEF Lowest

-----------------------------------------------------------------------------
(* push_heap                                                               *)

\* Where a new timer comes to, and where each place of the array gets its timer from.
Climbs(q, w, t, C, n) == {i \in C : \A j \in C \ {n} : i <= j => w[q[j]] > w[t]}
PushedFrom(C, n, at) ==
  [i \in 1..n |-> IF i = at THEN n ELSE IF i \in C /\ i > at THEN Parent(i) ELSE i]

\* f sends the places 1..n to each other, no two to one.
Shuffles(f, n) ==
  /\ f \in [1..n -> 1..n]
  /\ \A i, j \in 1..n : f[i] = f[j] => i = j
  /\ \A j \in 1..n : \E i \in 1..n : f[i] = j

\* A push only shuffles the places.
LEMMA PushedFromIs ==
  ASSUME NEW n \in Nat, n >= 1, NEW C, IsChain(C, n), NEW at \in C,
         NEW f, f = PushedFrom(C, n, at)
  PROVE  Shuffles(f, n)
<1>1. /\ C \subseteq 1..n /\ n \in C /\ at \in 1..n
      /\ \A i \in C : i > 1 => Parent(i) \in C
      /\ \A i, j \in C : i < j => i <= Parent(j)
      /\ \A i \in C : i < n => \E c \in C : c > 1 /\ Parent(c) = i
  BY DEF IsChain
<1>2. ASSUME NEW i \in C, i > at  PROVE Parent(i) \in C /\ at <= Parent(i) /\ Parent(i) < i
  <2>1. i \in Nat /\ i >= 2
    BY <1>1, <1>2
  <2> QED
    BY <1>1, <1>2, <2>1, HalfIs
<1>3. \A i \in 1..n : f[i] = IF i = at THEN n ELSE IF i \in C /\ i > at THEN Parent(i) ELSE i
  BY DEF PushedFrom
<1>4. f \in [1..n -> 1..n]
  BY <1>1, <1>2 DEF PushedFrom
<1>5. ASSUME NEW i \in 1..n  
      PROVE  /\ i = at => f[i] = n
             /\ i \in C /\ i > at => f[i] = Parent(i) /\ f[i] \in C /\ at <= f[i] /\ f[i] < i
             /\ ~(i = at) /\ ~(i \in C /\ i > at) => f[i] = i /\ (i \notin C \/ i < at)
  BY <1>1, <1>2, <1>3
<1>6. ASSUME NEW i \in 1..n, NEW j \in 1..n, f[i] = f[j]  PROVE i = j
  <2>1. CASE i \in C /\ i > at /\ j \in C /\ j > at
    <3>1. Parent(i) \in C /\ Parent(i) < i /\ Parent(j) < j
      BY <1>2, <2>1
    <3>2. Parent(i) = Parent(j)
      BY <1>3, <1>5, <1>6, <2>1
    <3>3. (i < j => i <= Parent(j)) /\ (j < i => j <= Parent(i))
      BY <1>1, <2>1
    <3>4. Parent(i) \in 1..n
      BY <1>1, <3>1
    <3> QED
      BY ONLY n \in Nat, i \in 1..n, j \in 1..n, <3>1, <3>2, <3>3, <3>4
  <2>2. CASE ~(i \in C /\ i > at) \/ ~(j \in C /\ j > at)
    BY <1>1, <1>5, <1>6, <2>2
  <2> QED
    BY <2>1, <2>2
<1>7. ASSUME NEW j \in 1..n  PROVE \E i \in 1..n : f[i] = j
  <2>1. CASE j = n
    BY <1>1, <1>5, <2>1
  <2>2. CASE j \notin C \/ j < at
    BY <1>1, <1>3, <2>2
  <2>3. CASE j \in C /\ j >= at /\ j < n
    <3>1. PICK c \in C : c > 1 /\ Parent(c) = j
      BY <1>1, <2>3
    <3>2. c \in Nat /\ c >= 2 /\ c \in 1..n
      BY <1>1, <3>1
    <3>3. j < c
      BY <3>1, <3>2, HalfIs
    <3>4. f[c] = j
      BY <1>1, <1>5, <2>3, <3>1, <3>2, <3>3
    <3> QED
      BY <3>2, <3>4
  <2> QED
    BY <1>1, <2>1, <2>2, <2>3
<1> QED
  BY <1>4, <1>6, <1>7 DEF Shuffles

\* r is the heap q with t added; the first timer is the same if t is not due before it.
PutsOn(S, q, w, t, r) ==
  /\ r \in Seq(S) /\ Len(r) = Len(q) + 1
  /\ Within(r) = Within(q) \cup {t}
  /\ Once(q) /\ t \notin Within(q) => Once(r)
  /\ IsHeap(q, w) => IsHeap(r, w)
  /\ q # <<>> /\ w[q[1]] <= w[t] => r[1] = q[1]

\* Push adds the timer and moves the others, and leaves a heap.
LEMMA PushIs ==
  ASSUME NEW S, NEW q \in Seq(S), NEW w \in [S -> Int], NEW t \in S, NEW r, r = Push(q, w, t)
  PROVE  PutsOn(S, q, w, t, r)
<1> DEFINE n == Len(q) + 1
           C == Chain(n)
           at == Lowest(Climbs(q, w, t, C, n))
           src == PushedFrom(C, n, at)
           s == Append(q, t)
<1>1. n \in Nat /\ n >= 1 /\ Len(q) = n - 1
  OBVIOUS
<1>2. IsChain(C, n)
  BY <1>1, ChainIs
<1>3. r = [i \in 1..n |-> IF i = at THEN t
                          ELSE IF i \in C /\ i > at THEN q[Parent(i)] ELSE q[i]]
  BY DEF Push, Climbs
<1>4. /\ s \in Seq(S) /\ Len(s) = n /\ s[n] = t /\ DOMAIN s = 1..n
      /\ \A i \in 1..(n - 1) : s[i] = q[i]
  BY AppendProperties
<1> HIDE DEF n, C, s
<1>5. /\ C \subseteq 1..n /\ n \in C
      /\ \A i \in C : i > 1 => Parent(i) \in C
      /\ \A i, j \in C : i < j => i <= Parent(j)
  BY <1>2 DEF IsChain
<1>6. n \in Climbs(q, w, t, C, n) /\ Climbs(q, w, t, C, n) \in SUBSET (1..n)
  <2>1. n \in C
    BY <1>5
  <2>2. \A j \in C \ {n} : n <= j => FALSE
    BY <1>1, <1>5
  <2> QED
    BY <1>5, <2>1, <2>2 DEF Climbs
<1>7. at \in Climbs(q, w, t, C, n) /\ \A j \in Climbs(q, w, t, C, n) : at <= j
  BY <1>1, <1>6, LowestIs
<1> HIDE DEF at
<1>8. /\ at \in C /\ at \in 1..n
      /\ \A j \in C \ {n} : at <= j => w[q[j]] > w[t]
      /\ \A i \in C : i < at => \E j \in C \ {n} : i <= j /\ ~(w[q[j]] > w[t])
  BY <1>5, <1>7 DEF Climbs
<1>9. /\ src \in [1..n -> 1..n]
      /\ \A i, j \in 1..n : src[i] = src[j] => i = j
      /\ \A j \in 1..n : \E i \in 1..n : src[i] = j
  <2> HIDE DEF src
  <2>1. src = PushedFrom(C, n, at)
    BY DEF src
  <2>2. at \in C
    BY <1>8
  <2> QED
    <3>1. n \in Nat /\ n >= 1
      BY <1>1
    <3>2. Shuffles(src, n)
      BY ONLY <1>2, <2>1, <2>2, <3>1, PushedFromIs
    <3> QED
      BY ONLY <3>2 DEF Shuffles
<1>10. \A i \in 1..n : src[i] = IF i = at THEN n ELSE IF i \in C /\ i > at THEN Parent(i) ELSE i
  BY DEF PushedFrom
<1> HIDE DEF src
<1>11. ASSUME NEW i \in 1..n  PROVE r[i] = s[src[i]]
  <2>1. CASE i = at
    BY <1>3, <1>4, <1>10, <2>1
  <2>2. CASE i # at /\ i \in C /\ i > at
    <3>1. i \in Nat /\ i >= 2
      BY <1>8, <2>2
    <3>2. Parent(i) \in Nat /\ Parent(i) >= 1 /\ Parent(i) < i
      BY <3>1, HalfIs
    <3>3. Parent(i) \in 1..(n - 1)
      BY <1>1, <3>2
    <3> QED
      BY <1>3, <1>4, <1>10, <2>2, <3>3
  <2>3. CASE i # at /\ ~(i \in C /\ i > at)
    <3>1. i # n
      BY <1>5, <1>8, <2>3
    <3>2. i \in 1..(n - 1)
      BY <1>1, <3>1
    <3> QED
      BY <1>3, <1>4, <1>10, <2>3, <3>2
  <2> QED
    BY <2>1, <2>2, <2>3
<1>12. DOMAIN r = 1..n
  BY <1>3
<1>13. r \in Seq(S) /\ Len(r) = n
  <2>1. r \in [1..n -> S]
    <3>1. \A i \in 1..n : s[src[i]] \in S
      <4>1. \A i \in 1..n : src[i] \in 1..n
        BY ONLY <1>9
      <4>2. \A i \in 1..n : s[i] \in S
        BY <1>4, ElementOfSeq
      <4> QED
        BY ONLY <4>1, <4>2
    <3> QED
      BY <1>3, <1>11, <3>1
  <2> QED
    BY <1>1, <2>1
<1>14. Rearranged(r, s, src)
  BY <1>4, <1>9, <1>11, <1>12 DEF Rearranged
<1>15. Within(r) = Within(s)
  <2>1. \A i \in 1..n : src[i] \in 1..n
    BY ONLY <1>9
  <2>2. \A j \in 1..n : \E i \in 1..n : src[i] = j
    BY ONLY <1>9
  <2>3. \A i \in 1..n : r[i] = s[src[i]]
    BY <1>11
  <2>4. DOMAIN s = 1..n
    BY <1>4
  <2>5. ASSUME NEW x \in Within(r)  PROVE x \in Within(s)
    BY ONLY <1>12, <2>1, <2>3, <2>4, <2>5 DEF Within
  <2>6. ASSUME NEW x \in Within(s)  PROVE x \in Within(r)
    <3>1. PICK j \in 1..n : x = s[j]
      BY ONLY <2>4, <2>6 DEF Within
    <3>2. PICK i \in 1..n : src[i] = j
      BY <2>2
    <3> QED
      BY ONLY <1>12, <2>3, <3>1, <3>2 DEF Within
  <2> QED
    BY ONLY <2>5, <2>6
<1>16. Within(s) = Within(q) \cup {t}
  <2>1. DOMAIN q = 1..(n - 1) /\ DOMAIN s = 1..n
    BY <1>1, <1>4
  <2>2. \A i \in 1..n : i = n \/ i \in 1..(n - 1)
    BY <1>1
  <2>3. n \in 1..n /\ \A i \in 1..(n - 1) : i \in 1..n
    BY <1>1
  <2> QED
    BY <1>4, <2>1, <2>2, <2>3 DEF Within
<1>17. Once(q) /\ t \notin Within(q) => Once(s)
  <2>1. DOMAIN q = 1..(n - 1) /\ DOMAIN s = 1..n
    BY <1>1, <1>4
  <2>2. \A i \in 1..n : i = n \/ i \in 1..(n - 1)
    BY <1>1
  <2> QED
    BY <1>4, <2>1, <2>2 DEF Once, Within
<1>18. ASSUME IsHeap(q, w)  PROVE IsHeap(r, w)
  <2>1. \A i \in 1..(n - 1) : q[i] \in S /\ w[q[i]] \in Int
    BY <1>1
  <2>2. ASSUME NEW i \in 2..(n - 1)
        PROVE  w[q[Parent(i)]] <= w[q[i]] /\ Parent(i) \in 1..(n - 1) /\ i \in 1..(n - 1)
    <3>1. i \in Nat /\ i >= 2 /\ i <= n - 1 /\ i \in 2..Len(q)
      BY <1>1
    <3>2. Parent(i) \in Nat /\ Parent(i) >= 1 /\ Parent(i) < i
      BY <3>1, HalfIs
    <3>3. w[q[Parent(i)]] <= w[q[i]]
      BY <1>18, <3>1 DEF IsHeap
    <3> QED
      BY <1>1, <3>1, <3>2, <3>3
  <2>3. ASSUME NEW i \in 2..n  PROVE w[r[Parent(i)]] <= w[r[i]]
    <3> DEFINE p == Parent(i)
    <3>1. i \in 1..n /\ p \in 1..n /\ p < i /\ p \in 1..(n - 1) /\ (i # n => i \in 2..(n - 1))
      <4>1. i \in Nat /\ i >= 2 /\ i <= n
        BY <1>1
      <4>2. p \in Nat /\ p >= 1 /\ p < i
        BY <4>1, HalfIs
      <4> HIDE DEF p
      <4> QED
        BY ONLY <1>1, <4>1, <4>2
    <3>2. w[t] \in Int
      OBVIOUS
    <3>3. p = Parent(i)
      OBVIOUS
    <3> HIDE DEF p
    <3>4. /\ r[i] = IF i = at THEN t ELSE IF i \in C /\ i > at THEN q[p] ELSE q[i]
          /\ r[p] = IF p = at THEN t ELSE IF p \in C /\ p > at THEN q[Parent(p)] ELSE q[p]
      BY <1>3, <3>1, <3>3
    <3>5. p > at => /\ Parent(p) \in 1..(n - 1) /\ w[q[Parent(p)]] <= w[q[p]]
      <4>1. p > at => p \in 2..(n - 1)
        BY <1>8, <3>1
      <4> QED
        BY <2>2, <4>1
    <3>6. p = at => w[t] < w[q[p]]
      BY <1>8, <2>1, <3>1
    <3>7. CASE i \in C /\ i > at
      <4>1. p \in C /\ p >= at /\ r[i] = q[p]
        BY <1>5, <1>8, <3>1, <3>3, <3>4, <3>7
      <4>2. CASE p = at
        BY <2>1, <3>1, <3>2, <3>3, <3>4, <3>6, <4>1, <4>2
      <4>3. CASE p > at
        BY <2>1, <3>1, <3>3, <3>4, <3>5, <4>1, <4>3
      <4> QED
        BY <1>8, <3>1, <4>1, <4>2, <4>3
    <3>8. CASE i = at
      <4>1. p \in C /\ p < at
        BY <1>5, <1>8, <3>1, <3>3, <3>8
      <4>2. PICK j \in C \ {n} : p <= j /\ ~(w[q[j]] > w[t])
        BY <1>8, <4>1
      <4>3. j < at
        <5>1. ~(at <= j)
          BY <1>8, <4>2
        <5> QED
          BY <1>5, <1>8, <5>1
      <4>4. j = p
        BY <1>5, <1>8, <3>1, <3>3, <3>8, <4>2, <4>3
      <4>5. ~(w[q[p]] > w[t]) /\ w[q[p]] \in Int
        BY <2>1, <3>1, <4>2, <4>4
      <4>6. r[i] = t /\ r[p] = q[p]
        <5>1. at \in Nat /\ p \in Nat
          BY <1>8, <3>1
        <5> QED
          BY ONLY <3>4, <3>8, <4>1, <5>1
      <4> QED
        BY ONLY <3>2, <3>3, <4>5, <4>6
    <3>9. CASE i \in C /\ i < at
      <4>1. w[q[p]] <= w[q[i]]
        BY <1>8, <2>2, <3>1, <3>3, <3>9
      <4>2. r[i] = q[i] /\ r[p] = q[p]
        <5>1. at \in Nat /\ i \in Nat /\ p \in Nat /\ p < i
          BY <1>8, <3>1
        <5> QED
          BY ONLY <3>4, <3>9, <5>1
      <4> QED
        BY ONLY <3>3, <4>1, <4>2
    <3>10. CASE i \notin C
      <4>1. w[q[p]] <= w[q[i]] /\ i \in 1..(n - 1)
        BY <1>5, <2>2, <3>1, <3>3, <3>10
      <4>2. i # at /\ r[i] = q[i]
        BY <1>8, <3>4, <3>10
      <4>3. w[q[p]] \in Int /\ w[q[i]] \in Int
        BY <2>1, <3>1, <4>1
      <4>4. p > at => w[q[Parent(p)]] \in Int
        BY <2>1, <3>5
      <4>5. w[r[p]] <= w[r[i]]
        BY ONLY <3>2, <3>4, <3>5, <3>6, <4>1, <4>2, <4>3, <4>4
      <4> QED
        BY ONLY <3>3, <4>5
    <3> QED
      <4>1. at \in Nat /\ i \in Nat
        BY <1>8, <3>1
      <4>2. i \in C \/ i \notin C
        OBVIOUS
      <4> QED
        BY ONLY <3>7, <3>8, <3>9, <3>10, <4>1, <4>2
  <2> QED
    BY <1>13, <2>3 DEF IsHeap
<1>19. ASSUME q # <<>>, w[q[1]] <= w[t]  PROVE r[1] = q[1]
  <2>1. n >= 2 /\ 1 \in 1..(n - 1)
    <3>1. Len(q) # 0
      BY <1>19, EmptySeq
    <3> QED
      BY <1>1, <3>1
  <2>2. w[q[1]] \in Int /\ w[t] \in Int
    BY <1>1, <2>1
  <2>3. 1 \in C
    BY <1>2 DEF IsChain
  <2>4. 1 \in C \ {n} /\ ~(w[q[1]] > w[t])
    BY <1>1, <1>19, <2>1, <2>2, <2>3
  <2>5. at \in Nat /\ ~(at <= 1)
    BY <1>8, <2>4
  <2>6. 1 # at /\ ~(1 > at) /\ 1 \in 1..n
    BY <1>1, <2>5
  <2> QED
    BY <1>3, <2>6
<1> QED
  BY <1>13, <1>14, <1>15, <1>16, <1>17, <1>18, <1>19, RearrangedOnce DEF n, PutsOn

-----------------------------------------------------------------------------
(* pop_heap                                                                *)

\* c names a child of each place that has one.
IsDown(c, m) ==
  /\ c \in [1..m -> 0..m]
  /\ \A x \in 1..m : c[x] # 0 => Parent(c[x]) = x /\ x < c[x]
  /\ \A x \in 1..m : c[x] = 0 <=> 2 * x > m

\* From place i down by way of c: each place but i with its parent, as far as it goes.
IsWay(c, m, i, W) ==
  /\ W \subseteq 1..m /\ i \in W
  /\ \A x \in W : i <= x
  /\ \A x \in W : x > i => Parent(x) \in W /\ c[Parent(x)] = x
  /\ \A x \in W : c[x] # 0 => c[x] \in W
  /\ \A a, b \in W : a < b => a <= Parent(b)

\* A way gets longer at the top.
LEMMA WayGrows ==
  ASSUME NEW m \in Nat, NEW c, IsDown(c, m), NEW i \in 1..m, c[i] # 0,
         NEW W, IsWay(c, m, c[i], W)
  PROVE  IsWay(c, m, i, {i} \cup W)
<1> DEFINE s == c[i]
<1>1. s \in 1..m /\ Parent(s) = i /\ i < s
  BY DEF IsDown
<1>2. /\ W \subseteq 1..m /\ s \in W
      /\ \A x \in W : s <= x
      /\ \A x \in W : x > s => Parent(x) \in W /\ c[Parent(x)] = x
      /\ \A x \in W : c[x] # 0 => c[x] \in W
      /\ \A a, b \in W : a < b => a <= Parent(b)
  BY DEF IsWay
<1>3. s = c[i]
  OBVIOUS
<1> HIDE DEF s
<1>4. \A x \in W : x > i /\ x \in Nat
  <2>1. \A x \in W : x \in 1..m /\ s <= x
    BY <1>2
  <2> QED
    BY <1>1, <2>1
<1>5. {i} \cup W \subseteq 1..m /\ i \in {i} \cup W /\ \A x \in {i} \cup W : i <= x
  BY <1>2, <1>4
<1>6. ASSUME NEW x \in {i} \cup W, x > i
      PROVE  Parent(x) \in {i} \cup W /\ c[Parent(x)] = x
  <2>1. x \in W
    BY <1>6
  <2>2. CASE x = s
    BY <1>1, <1>3, <2>2
  <2>3. CASE x > s
    BY <1>2, <2>1, <2>3
  <2> QED
    BY <1>1, <1>2, <1>4, <2>1, <2>2, <2>3
<1>7. \A x \in {i} \cup W : c[x] # 0 => c[x] \in {i} \cup W
  BY <1>2, <1>3
<1>8. ASSUME NEW a \in {i} \cup W, NEW b \in {i} \cup W, a < b  PROVE a <= Parent(b)
  <2>1. b \in W
    BY <1>4, <1>8
  <2>2. CASE a \in W
    BY <1>2, <1>8, <2>1, <2>2
  <2>3. CASE a = i /\ b = s
    BY <1>1, <2>3
  <2>4. CASE a = i /\ b # s
    <3>1. s < b /\ b \in Nat /\ b >= 2
      BY <1>1, <1>2, <1>4, <2>1, <2>4
    <3>2. s <= Parent(b) /\ Parent(b) \in Nat
      BY <1>2, <2>1, <3>1, HalfIs
    <3> QED
      BY <1>1, <2>4, <3>2
  <2> QED
    BY <2>2, <2>3, <2>4
<1> QED
  BY <1>5, <1>6, <1>7, <1>8 DEF IsWay

\* The child of each place that the way down goes to.
Sooner(q, w, m) == [i \in 1..m |-> IF 2 * i > m THEN 0 ELSE SoonerChild(q, w, m, i)]

\* That child is due no later than the other.
LEMMA SoonerIs ==
  ASSUME NEW m \in Nat, NEW q, NEW w, \A i \in 1..m : w[q[i]] \in Int,
         NEW c, c = Sooner(q, w, m)
  PROVE  /\ IsDown(c, m)
         /\ \A i \in 1..m, j \in 1..m :
              Parent(j) = i => c[i] # 0 /\ w[q[c[i]]] <= w[q[j]]
<1>1. ASSUME NEW i \in 1..m, 2 * i <= m
      PROVE  /\ c[i] \in 1..m /\ Parent(c[i]) = i /\ i < c[i]
             /\ c[i] = 2 * i \/ c[i] = 2 * i + 1
             /\ w[q[c[i]]] <= w[q[2 * i]]
             /\ 2 * i + 1 <= m => w[q[c[i]]] <= w[q[2 * i + 1]]
  <2>1. c[i] = IF 2*i + 1 <= m /\ w[q[2*i + 1]] <= w[q[2*i]] THEN 2*i + 1 ELSE 2*i
    BY <1>1 DEF Sooner, SoonerChild
  <2> DEFINE a == 2 * i
             b == 2 * i + 1
  <2>2. /\ i \in Nat /\ a \in Nat /\ a >= 1 /\ i < a /\ a <= m /\ b = a + 1
        /\ Parent(a) = i /\ Parent(b) = i
    <3>1. i \in Nat /\ i >= 1
      OBVIOUS
    <3>2. Parent(2 * i) = i /\ Parent(2 * i + 1) = i
      BY ONLY <3>1, HalfIs
    <3> QED
      BY <1>1, <3>1, <3>2
  <2>3. c[i] = IF b <= m /\ w[q[b]] <= w[q[a]] THEN b ELSE a
    BY <2>1
  <2>4. w[q[a]] \in Int /\ (b <= m => w[q[b]] \in Int)
    <3>1. a \in 1..m /\ (b <= m => b \in 1..m)
      BY <2>2
    <3> QED
      BY <3>1
  <2> HIDE DEF a, b
  <2>5. /\ c[i] \in 1..m /\ Parent(c[i]) = i /\ i < c[i]
        /\ c[i] = a \/ c[i] = b
        /\ w[q[c[i]]] <= w[q[a]]
        /\ b <= m => w[q[c[i]]] <= w[q[b]]
    BY <2>2, <2>3, <2>4
  <2> QED
    BY <2>5 DEF a, b
<1>2. ASSUME NEW i \in 1..m, 2 * i > m  PROVE c[i] = 0
  BY <1>2 DEF Sooner
<1>3. c \in [1..m -> 0..m]
  <2>1. \A i \in 1..m : c[i] \in 0..m
    BY <1>1, <1>2
  <2>2. c = [i \in 1..m |-> c[i]]
    BY DEF Sooner
  <2> QED
    BY ONLY <2>1, <2>2
<1>4. \A x \in 1..m : c[x] = 0 <=> 2 * x > m
  BY <1>1, <1>2
<1>5. \A x \in 1..m : c[x] # 0 => Parent(c[x]) = x /\ x < c[x]
  BY <1>1, <1>2
<1>6. ASSUME NEW i \in 1..m, NEW j \in 1..m, Parent(j) = i
      PROVE  c[i] # 0 /\ w[q[c[i]]] <= w[q[j]]
  <2>1. i \in Nat /\ j \in Nat /\ 2 * i <= j /\ j <= 2 * i + 1 /\ j <= m
    BY <1>6, HalfIs
  <2>2. 2 * i <= m /\ (j = 2 * i \/ (j = 2 * i + 1 /\ 2 * i + 1 <= m))
    BY <2>1
  <2> QED
    BY <1>1, <2>2
<1> QED
  BY <1>3, <1>4, <1>5, <1>6 DEF IsDown

\* The places that move up when the first timer is taken off.
LEMMA WayDownIs ==
  ASSUME NEW m \in Nat, m >= 1, NEW q, NEW w, NEW c, c = Sooner(q, w, m), IsDown(c, m)
  PROVE  IsWay(c, m, 1, WayDown(q, w, m))
<1> DEFINE Go(f) == [i \in 1..m |-> IF 2*i > m THEN {i} ELSE {i} \cup f[SoonerChild(q, w, m, i)]]
           way == CHOOSE f : f = Go(f)
           rank == [i \in 1..m |-> m - i]
<1>1. \A i \in 1..m : c[i] = IF 2*i > m THEN 0 ELSE SoonerChild(q, w, m, i)
  BY DEF Sooner
<1>2. /\ c \in [1..m -> 0..m]
      /\ \A x \in 1..m : c[x] # 0 => Parent(c[x]) = x /\ x < c[x]
      /\ \A x \in 1..m : c[x] = 0 <=> 2 * x > m
  BY DEF IsDown
<1>3. PICK f : Trails(m, c, f)
  <2>1. rank \in [1..m -> 0..m]
    OBVIOUS
  <2>2. ASSUME NEW i \in 1..m, c[i] # 0  PROVE rank[c[i]] < rank[i]
    <3>1. c[i] \in 1..m /\ i < c[i]
      BY <1>2, <2>2
    <3> QED
      BY <3>1
  <2> HIDE DEF rank
  <2> QED
    BY <1>2, <2>1, <2>2, TrailsExist
<1>4. f = Go(f)
  <2>1. \A i \in 1..m : f[i] = {i} \cup (IF c[i] = 0 THEN {} ELSE f[c[i]])
    BY <1>3 DEF Trails
  <2>2. \A i \in 1..m : f[i] = IF 2*i > m THEN {i} ELSE {i} \cup f[SoonerChild(q, w, m, i)]
    BY <1>1, <1>2, <2>1
  <2>3. f \in [1..m -> SUBSET (1..m)]
    BY <1>3 DEF Trails
  <2> QED
    BY <2>2, <2>3
<1>5. way = Go(way)
  <2> HIDE DEF Go
  <2> QED
    BY <1>4
<1>6. WayDown(q, w, m) = way[1]
  BY DEF WayDown
<1> HIDE DEF way
<1>7. \A i \in 1..m : way[i] = IF c[i] = 0 THEN {i} ELSE {i} \cup way[c[i]]
  BY <1>1, <1>2, <1>5
<1> DEFINE T == {k \in 0..m : \A i \in 1..m : i > m - k => IsWay(c, m, i, way[i])}
<1>8. 0 \in T
  OBVIOUS
<1>9. ASSUME NEW k \in Nat, k < m, k \in T  PROVE k + 1 \in T
  <2>1. \A i \in 1..m : i > m - k => IsWay(c, m, i, way[i])
    BY <1>9
  <2>2. ASSUME NEW i \in 1..m, i > m - (k + 1)  PROVE IsWay(c, m, i, way[i])
    <3>1. CASE c[i] = 0
      <4>1. way[i] = {i}
        BY <1>7, <3>1
      <4> QED
        BY <3>1, <4>1 DEF IsWay
    <3>2. CASE c[i] # 0
      <4>1. c[i] \in 1..m /\ i < c[i]
        BY <1>2, <3>2
      <4>2. c[i] > m - k
        BY <1>9, <2>2, <4>1
      <4>3. IsWay(c, m, c[i], way[c[i]])
        BY <2>1, <4>1, <4>2
      <4>4. way[i] = {i} \cup way[c[i]]
        BY <1>7, <3>2
      <4> QED
        BY <3>2, <4>3, <4>4, WayGrows
    <3> QED
      BY <3>1, <3>2
  <2>3. k + 1 \in 0..m
    BY <1>9
  <2> QED
    BY <2>2, <2>3
<1> HIDE DEF T
<1>10. m \in T
  <2>1. 0 \in T /\ \A k \in Nat : k < m /\ k \in T => k + 1 \in T
    BY <1>8, <1>9
  <2>2. \A k \in 0..m : k \in T
    BY ONLY <2>1, m \in Nat, UpTo
  <2> QED
    BY <2>2
<1>11. 1 \in 1..m /\ 1 > m - m
  OBVIOUS
<1> QED
  BY <1>6, <1>10, <1>11 DEF T

\* The lowest place of the way where the last timer may be put, and where each
\* place of the array then gets its timer from.
Stays(q, w, last, i) == i = 1 \/ w[q[i]] <= w[last]
Drops(q, w, last, W) ==
  CHOOSE i \in W : Stays(q, w, last, i) /\ \A j \in W : Stays(q, w, last, j) => j <= i
PoppedFrom(c, m, W, at) ==
  [i \in 1..m |-> IF i = at THEN m + 1 ELSE IF i \in W /\ i < at THEN c[i] ELSE i]

\* f has for each of the places 1..m another one of 2..m+1, and leaves none out.
Advances(f, m) ==
  /\ f \in [1..m -> 2..(m + 1)]
  /\ \A i, j \in 1..m : f[i] = f[j] => i = j
  /\ \A j \in 2..(m + 1) : \E i \in 1..m : f[i] = j

\* There is such a place.
LEMMA DropsIs ==
  ASSUME NEW m \in Nat, m >= 1, NEW W \in SUBSET (1..m), 1 \in W,
         NEW q, NEW w, NEW last, NEW at, at = Drops(q, w, last, W)
  PROVE  /\ at \in W /\ (at = 1 \/ w[q[at]] <= w[last])
         /\ \A j \in W : at < j => ~(w[q[j]] <= w[last])
<1> DEFINE S == {k \in 1..m : m + 1 - k \in W /\ Stays(q, w, last, m + 1 - k)}
<1>1. m \in S
  <2>1. m \in 1..m /\ m + 1 - m = 1
    OBVIOUS
  <2> QED
    BY <2>1 DEF Stays
<1>2. Lowest(S) \in S /\ \A k \in S : Lowest(S) <= k
  <2>1. S \in SUBSET (1..m) /\ S # {}
    BY <1>1
  <2> HIDE DEF S
  <2> QED
    BY ONLY <2>1, m \in Nat, LowestIs
<1> DEFINE l == Lowest(S)
           x == m + 1 - l
<1>3. l \in 1..m /\ x \in W /\ Stays(q, w, last, x) /\ \A k \in S : l <= k
  BY <1>2
<1>4. ASSUME NEW j \in W, Stays(q, w, last, j)  PROVE j <= x
  <2> DEFINE k == m + 1 - j
  <2>1. k \in 1..m /\ m + 1 - k = j
    OBVIOUS
  <2>2. k \in S
    BY <1>4, <2>1
  <2>3. l <= k
    BY <1>3, <2>2
  <2> HIDE DEF l
  <2> QED
    BY <1>3, <2>3
<1> HIDE DEF l
<1>5. \E i \in W : Stays(q, w, last, i) /\ \A j \in W : Stays(q, w, last, j) => j <= i
  <2> HIDE DEF x
  <2> QED
    BY <1>3, <1>4
<1>6. at \in W /\ Stays(q, w, last, at) /\ \A j \in W : Stays(q, w, last, j) => j <= at
  BY <1>5 DEF Drops
<1>7. ASSUME NEW j \in W, at < j  PROVE ~(w[q[j]] <= w[last])
  <2>1. at \in 1..m /\ j \in 1..m
    BY <1>6
  <2>2. ~(j <= at)
    BY <1>7, <2>1
  <2> QED
    BY <1>6, <2>2 DEF Stays
<1> QED
  BY <1>6, <1>7 DEF Stays

\* A pop uses each place but the first once.
LEMMA PoppedFromIs ==
  ASSUME NEW m \in Nat, m >= 1, NEW c, IsDown(c, m), NEW W, IsWay(c, m, 1, W),
         NEW at \in W, NEW f, f = PoppedFrom(c, m, W, at)
  PROVE  /\ \A i \in W : i < at => c[i] \in W /\ c[i] <= at
         /\ Advances(f, m)
<1>1. /\ W \subseteq 1..m /\ 1 \in W /\ at \in 1..m
      /\ \A x \in W : x > 1 => Parent(x) \in W /\ c[Parent(x)] = x
      /\ \A x \in W : c[x] # 0 => c[x] \in W
      /\ \A a, b \in W : a < b => a <= Parent(b)
  BY DEF IsWay
<1>2. /\ c \in [1..m -> 0..m]
      /\ \A x \in 1..m : c[x] # 0 => Parent(c[x]) = x /\ x < c[x]
      /\ \A x \in 1..m : c[x] = 0 <=> 2 * x > m
  BY DEF IsDown
<1>3. ASSUME NEW i \in W, i < at
      PROVE  c[i] \in W /\ c[i] \in 2..m /\ c[i] <= at /\ Parent(c[i]) = i
  <2>1. i \in Nat /\ i >= 1 /\ at \in Nat /\ at >= 2 /\ at <= m /\ i \in 1..m
    BY <1>1, <1>3
  <2>2. i <= Parent(at) /\ Parent(at) \in Nat /\ 2 * Parent(at) <= at
    <3>1. i <= Parent(at)
      BY <1>1, <1>3
    <3>2. Parent(at) \in Nat /\ 2 * Parent(at) <= at
      BY ONLY <2>1, HalfIs
    <3> QED
      BY <3>1, <3>2
  <2>3. ~(2 * i > m)
    BY <2>1, <2>2
  <2>4. c[i] # 0 /\ c[i] \in W /\ Parent(c[i]) = i /\ i < c[i]
    BY <1>1, <1>2, <2>1, <2>3
  <2>5. c[i] \in 1..m
    BY <1>1, <2>4
  <2>6. ~(at < c[i])
    <3>1. at < c[i] => at <= Parent(c[i])
      BY <1>1, <2>4
    <3> QED
      BY <1>3, <2>1, <2>4, <3>1
  <2> QED
    BY <2>1, <2>4, <2>5, <2>6
<1>4. ASSUME NEW i \in 1..m
      PROVE  /\ i = at => f[i] = m + 1
             /\ i \in W /\ i < at => f[i] = c[i]
             /\ ~(i = at) /\ ~(i \in W /\ i < at) => f[i] = i /\ i \in 2..m /\ (i \notin W \/ at < i)
  <2>1. f[i] = IF i = at THEN m + 1 ELSE IF i \in W /\ i < at THEN c[i] ELSE i
    BY DEF PoppedFrom
  <2> QED
    BY <1>1, <2>1
<1>5. f \in [1..m -> 2..(m + 1)]
  <2>1. ASSUME NEW i \in 1..m  PROVE f[i] \in 2..(m + 1)
    <3>1. CASE i = at
      BY <1>4, <3>1
    <3>2. CASE i \in W /\ i < at
      BY <1>3, <1>4, <3>2
    <3>3. CASE ~(i = at) /\ ~(i \in W /\ i < at)
      BY <1>4, <3>3
    <3> QED
      BY <3>1, <3>2, <3>3
  <2>2. f = [i \in 1..m |-> f[i]]
    BY DEF PoppedFrom
  <2> QED
    BY ONLY <2>1, <2>2
<1>6. ASSUME NEW i \in 1..m, NEW j \in 1..m, f[i] = f[j], i \in W, i < at  PROVE i = j
  <2>1. f[i] = c[i] /\ c[i] \in W /\ c[i] \in 2..m /\ c[i] <= at /\ Parent(c[i]) = i
    BY <1>3, <1>4, <1>6
  <2>2. CASE j = at
    <3>1. f[j] = m + 1
      BY <1>4, <2>2
    <3>2. c[i] = m + 1 /\ c[i] \in 2..m /\ m \in Nat
      BY <1>6, <2>1, <3>1
    <3> QED
      BY ONLY <3>2
  <2>3. CASE j \in W /\ j < at
    <3>1. f[j] = c[j] /\ Parent(c[j]) = j
      BY <1>3, <1>4, <2>3
    <3> QED
      BY <1>6, <2>1, <3>1
  <2>4. CASE ~(j = at) /\ ~(j \in W /\ j < at)
    <3>1. f[j] = j /\ (j \notin W \/ at < j)
      BY <1>4, <2>4
    <3>2. j = c[i]
      BY <1>6, <2>1, <3>1
    <3>3. at \in Nat /\ j \in Nat
      BY <1>1
    <3> QED
      BY ONLY <2>1, <3>1, <3>2, <3>3
  <2> QED
    BY <2>2, <2>3, <2>4
<1>7. ASSUME NEW i \in 1..m, NEW j \in 1..m, f[i] = f[j]  PROVE i = j
  <2>1. CASE i \in W /\ i < at
    BY <1>6, <1>7, <2>1
  <2>2. CASE j \in W /\ j < at
    BY <1>6, <1>7, <2>2
  <2>3. CASE ~(i \in W /\ i < at) /\ ~(j \in W /\ j < at)
    <3>1. /\ i = at => f[i] = m + 1
          /\ i # at => f[i] = i
          /\ j = at => f[j] = m + 1
          /\ j # at => f[j] = j
      BY <1>4, <2>3
    <3> QED
      BY <1>7, <3>1
  <2> QED
    BY <2>1, <2>2, <2>3
<1>8. ASSUME NEW j \in 2..(m + 1)  PROVE \E i \in 1..m : f[i] = j
  <2>1. CASE j = m + 1
    BY <1>1, <1>4, <2>1
  <2>2. CASE j \in W /\ j <= at
    <3>1. j \in Nat /\ j >= 2
      OBVIOUS
    <3>2. Parent(j) \in W /\ c[Parent(j)] = j
      BY <1>1, <2>2, <3>1
    <3>3. Parent(j) < j
      BY ONLY <3>1, HalfIs
    <3>4. Parent(j) \in 1..m /\ Parent(j) < at
      <4>1. W \subseteq 1..m /\ at \in 1..m
        BY <1>1
      <4>2. Parent(j) \in 1..m
        BY ONLY <3>2, <4>1
      <4> QED
        BY ONLY m \in Nat, <2>2, <3>1, <3>3, <4>1, <4>2
    <3>5. f[Parent(j)] = j
      BY <1>4, <3>2, <3>4
    <3> QED
      BY <3>4, <3>5
  <2>3. CASE j <= m /\ ~(j \in W /\ j <= at)
    <3>1. j \in 1..m /\ at \in 1..m
      BY <1>1, <2>3
    <3>2. ~(j = at) /\ ~(j \in W /\ j < at)
      BY <2>3, <3>1
    <3> QED
      BY <1>4, <3>1, <3>2
  <2>4. j <= m \/ j = m + 1
    OBVIOUS
  <2> QED
    BY <2>1, <2>2, <2>3, <2>4
<1> QED
  BY <1>3, <1>5, <1>7, <1>8 DEF Advances

\* r is the heap q without its first timer.
TakesOff(S, q, w, r) ==
  /\ r \in Seq(S) /\ Len(r) = Len(q) - 1
  /\ Within(q) = {q[1]} \cup Within(r)
  /\ Once(q) => Once(r) /\ q[1] \notin Within(r)
  /\ IsHeap(q, w) => IsHeap(r, w)

\* Pop takes the first timer off and moves the others, and leaves a heap.
LEMMA PopIs ==
  ASSUME NEW S, NEW q \in Seq(S), q # <<>>, NEW w \in [S -> Int], NEW r, r = Pop(q, w)
  PROVE  TakesOff(S, q, w, r)
<1> DEFINE m == Len(q) - 1
           last == q[Len(q)]
           W == WayDown(q, w, m)
           at == Drops(q, w, last, W)
           c == Sooner(q, w, m)
           src == PoppedFrom(c, m, W, at)
<1>1. /\ m \in Nat /\ Len(q) = m + 1 /\ last = q[m + 1]
      /\ DOMAIN q = 1..(m + 1) /\ \A i \in 1..(m + 1) : q[i] \in S
  BY EmptySeq
<1>2. CASE m = 0
  <2>1. r = <<>>
    BY <1>2 DEF Pop
  <2>2. DOMAIN q = {1}
    <3>1. m + 1 = 1
      BY <1>2
    <3>2. DOMAIN q = 1..1
      BY ONLY <1>1, <3>1
    <3>3. 1..1 = {1}
      OBVIOUS
    <3> QED
      BY ONLY <3>2, <3>3
  <2>3. DOMAIN r = {} /\ r \in Seq(S) /\ Len(r) = 0
    BY <2>1, EmptySeq
  <2>4. IsHeap(r, w)
    BY <2>3 DEF IsHeap
  <2> QED
    BY <1>1, <1>2, <2>2, <2>3, <2>4 DEF Within, Once, TakesOff
<1>3. CASE m # 0
  <2>1. m >= 1
    BY <1>1, <1>3
  <2>2. r = [i \in 1..m |-> IF i = at THEN last
                            ELSE IF i \in W /\ i < at THEN q[CHOOSE j \in W : Parent(j) = i]
                            ELSE q[i]]
    BY <1>3 DEF Pop, Drops, Stays
  <2> HIDE DEF m, last, W
  <2>3. /\ IsDown(c, m)
        /\ \A i \in 1..m, j \in 1..m : Parent(j) = i => c[i] # 0 /\ w[q[c[i]]] <= w[q[j]]
    <3>1. \A i \in 1..m : w[q[i]] \in Int
      BY <1>1
    <3> HIDE DEF c
    <3>2. c = Sooner(q, w, m)
      BY DEF c
    <3> QED
      BY ONLY <1>1, <3>1, <3>2, SoonerIs
  <2>4. c = Sooner(q, w, m)
    OBVIOUS
  <2> HIDE DEF c
  <2>5. IsWay(c, m, 1, W)
    <3>1. W = WayDown(q, w, m)
      BY DEF W
    <3>2. IsWay(c, m, 1, WayDown(q, w, m))
      BY ONLY <1>1, <2>1, <2>3, <2>4, WayDownIs
    <3> QED
      BY ONLY <3>1, <3>2
  <2>6. /\ W \subseteq 1..m /\ 1 \in W
        /\ \A x \in W : x > 1 => Parent(x) \in W /\ c[Parent(x)] = x
        /\ \A x \in W : c[x] # 0 => c[x] \in W
        /\ \A a, b \in W : a < b => a <= Parent(b)
    BY <2>5 DEF IsWay
  <2>7. at = Drops(q, w, last, W)
    OBVIOUS
  <2> HIDE DEF at
  <2>8. /\ at \in W /\ (at = 1 \/ w[q[at]] <= w[last])
        /\ \A j \in W : at < j => ~(w[q[j]] <= w[last])
    <3>1. W \in SUBSET (1..m) /\ 1 \in W /\ m \in Nat
      BY <1>1, <2>6
    <3> QED
      BY ONLY <2>1, <2>7, <3>1, DropsIs
  <2>9. src = PoppedFrom(c, m, W, at)
    OBVIOUS
  <2>10. \A i \in 1..m : src[i] = IF i = at THEN m + 1 ELSE IF i \in W /\ i < at THEN c[i] ELSE i
    BY DEF PoppedFrom
  <2> HIDE DEF src
  <2>11. (\A i \in W : i < at => c[i] \in W /\ c[i] <= at) /\ Advances(src, m)
    <3>1. at \in W /\ m \in Nat
      BY <1>1, <2>8
    <3> QED
      BY ONLY <2>1, <2>3, <2>5, <2>9, <3>1, PoppedFromIs
  <2>12. /\ src \in [1..m -> 2..(m + 1)]
         /\ \A i, j \in 1..m : src[i] = src[j] => i = j
         /\ \A j \in 2..(m + 1) : \E i \in 1..m : src[i] = j
    BY ONLY <2>11 DEF Advances
  <2>13. ASSUME NEW i \in W, i < at  PROVE (CHOOSE j \in W : Parent(j) = i) = c[i]
    <3>1. c[i] \in W /\ c[i] \in 1..m /\ c[i] # 0
      <4>1. c[i] \in W
        BY <2>11, <2>13
      <4>2. c[i] \in 1..m
        BY <2>6, <4>1
      <4> QED
        BY <4>1, <4>2
    <3>2. Parent(c[i]) = i
      BY <2>3, <2>6, <3>1 DEF IsDown
    <3>3. ASSUME NEW j \in W, Parent(j) = i  PROVE j = c[i]
      <4>1. j # 1
        <5>1. Parent(1) = 0
          BY DEF Parent
        <5>2. i # 0
          BY <2>6
        <5> QED
          BY <3>3, <5>1, <5>2
      <4>2. j > 1
        BY <2>6, <4>1
      <4> QED
        BY <2>6, <3>3, <4>2
    <3> QED
      BY ONLY <3>1, <3>2, <3>3
  <2>14. ASSUME NEW i \in 1..m  PROVE r[i] = q[src[i]]
    <3>1. r[i] = IF i = at THEN last
                 ELSE IF i \in W /\ i < at THEN q[CHOOSE j \in W : Parent(j) = i] ELSE q[i]
      BY <2>2
    <3> QED
      BY <1>1, <2>10, <2>13, <3>1
  <2>15. DOMAIN r = 1..m
    BY <2>2
  <2>16. \A i \in 1..m : src[i] \in 2..(m + 1) /\ src[i] \in 1..(m + 1) /\ src[i] # 1
    <3>1. \A i \in 1..m : src[i] \in 2..(m + 1)
      BY ONLY <2>12
    <3> QED
      BY <1>1, <3>1
  <2>17. r \in Seq(S) /\ Len(r) = m
    <3>1. \A i \in 1..m : r[i] \in S
      BY <1>1, <2>14, <2>16
    <3>2. r = [i \in 1..m |-> r[i]]
      BY <2>2
    <3>3. r \in [1..m -> S]
      BY ONLY <3>1, <3>2
    <3> QED
      BY <1>1, <3>3
  <2>18. ASSUME NEW x \in Within(q)  PROVE x = q[1] \/ x \in Within(r)
    <3>1. PICK j \in 1..(m + 1) : x = q[j]
      BY ONLY <1>1, <2>18 DEF Within
    <3>2. j = 1 \/ j \in 2..(m + 1)
      BY <1>1
    <3>3. ASSUME j \in 2..(m + 1)  PROVE x \in Within(r)
      <4>1. PICK i \in 1..m : src[i] = j
        BY ONLY <2>12, <3>3
      <4>2. r[i] = x
        BY <2>14, <3>1, <4>1
      <4> QED
        BY ONLY <2>15, <4>2 DEF Within
    <3> QED
      BY <3>1, <3>2, <3>3
  <2>19. \A i \in 1..m : r[i] \in Within(q)
    BY <1>1, <2>14, <2>16 DEF Within
  <2>20. Within(q) = {q[1]} \cup Within(r)
    <3>1. q[1] \in Within(q)
      <4>1. 1 \in 1..(m + 1)
        BY <1>1
      <4> QED
        BY <1>1, <4>1 DEF Within
    <3>2. \A x \in Within(r) : x \in Within(q)
      BY ONLY <2>15, <2>19 DEF Within
    <3> QED
      BY ONLY <2>18, <3>1, <3>2
  <2>21. Rearranged(r, q, src)
    <3>1. DOMAIN src = 1..m
      BY <2>12
    <3>2. \A i, j \in 1..m : src[i] = src[j] => i = j
      BY <2>12
    <3> QED
      BY <1>1, <2>14, <2>15, <2>16, <3>1, <3>2 DEF Rearranged
  <2>22. ASSUME Once(q)  PROVE q[1] \notin Within(r)
    <3>1. 1 \in 1..(m + 1)
      BY <1>1
    <3>2. \A i \in 1..m : r[i] # q[1]
      BY <1>1, <2>14, <2>16, <2>22, <3>1 DEF Once
    <3> QED
      BY <2>15, <3>2 DEF Within
  <2>23. ASSUME IsHeap(q, w)  PROVE IsHeap(r, w)
    <3>1. \A i \in 1..(m + 1) : w[q[i]] \in Int
      BY <1>1
    <3>2. ASSUME NEW i \in 2..(m + 1)
          PROVE  Parent(i) \in 1..(m + 1) /\ Parent(i) < i /\ w[q[Parent(i)]] <= w[q[i]]
      <4>1. i \in Nat /\ i >= 2 /\ i <= m + 1 /\ i \in 2..Len(q)
        BY <1>1
      <4>2. Parent(i) \in Nat /\ Parent(i) >= 1 /\ Parent(i) < i
        BY <4>1, HalfIs
      <4>3. w[q[Parent(i)]] <= w[q[i]]
        BY <2>23, <4>1 DEF IsHeap
      <4> QED
        BY <1>1, <4>1, <4>2, <4>3
    <3>3. \A i \in 1..m : r[i] = IF i = at THEN q[m + 1] ELSE IF i \in W /\ i < at THEN q[c[i]] ELSE q[i]
      BY <1>1, <2>10, <2>14
    <3>4. ASSUME NEW i \in 2..m  PROVE w[r[Parent(i)]] <= w[r[i]]
      <4> DEFINE p == Parent(i)
      <4>1. p = Parent(i)
        OBVIOUS
      <4>2. i \in Nat /\ i >= 2 /\ i \in 1..m /\ i \in 2..(m + 1)
        BY <1>1
      <4>3. p \in 1..m /\ p < i /\ w[q[p]] <= w[q[i]]
        BY <1>1, <3>2, <4>2
      <4> HIDE DEF p
      <4>4. /\ r[i] = IF i = at THEN q[m + 1] ELSE IF i \in W /\ i < at THEN q[c[i]] ELSE q[i]
            /\ r[p] = IF p = at THEN q[m + 1] ELSE IF p \in W /\ p < at THEN q[c[p]] ELSE q[p]
        BY <3>3, <4>2, <4>3
      <4>5. at \in Nat /\ at \in 1..m /\ p \in Nat
        BY <2>6, <2>8, <4>3
      <4>6. /\ w[q[m + 1]] \in Int /\ w[q[i]] \in Int /\ w[q[p]] \in Int
            /\ \A j \in W : w[q[j]] \in Int
        <5>1. m + 1 \in 1..(m + 1) /\ i \in 1..(m + 1) /\ p \in 1..(m + 1)
          BY <1>1, <4>2, <4>3
        <5>2. \A j \in W : j \in 1..(m + 1)
          BY <1>1, <2>6
        <5> QED
          BY <3>1, <5>1, <5>2
      <4>7. CASE i \in W
        <5>1. p \in W /\ c[p] = i /\ (at < i => at <= p)
          BY <2>6, <2>8, <4>1, <4>2, <4>7
        <5>2. CASE i < at
          <6>1. c[i] \in W /\ c[i] # 0 /\ c[i] \in 1..m
            <7>1. c[i] \in W
              BY <2>11, <4>7, <5>2
            <7>2. c[i] \in 1..m
              BY <2>6, <7>1
            <7> QED
              BY <7>1, <7>2
          <6>2. Parent(c[i]) = i /\ i < c[i]
            BY <2>3, <4>2, <6>1 DEF IsDown
          <6>3. c[i] \in 2..(m + 1)
            BY <1>1, <4>2, <6>1, <6>2
          <6>4. w[q[i]] <= w[q[c[i]]]
            BY <3>2, <6>2, <6>3
          <6>5. r[i] = q[c[i]] /\ r[p] = q[i]
            BY ONLY <4>2, <4>3, <4>4, <4>5, <4>7, <5>1, <5>2
          <6> QED
            BY ONLY <4>1, <6>4, <6>5
        <5>3. CASE i = at
          <6>1. r[i] = q[m + 1] /\ r[p] = q[i]
            BY ONLY <4>2, <4>3, <4>4, <4>5, <5>1, <5>3
          <6>2. w[q[i]] <= w[q[m + 1]]
            BY <1>1, <2>8, <4>2, <5>3
          <6> QED
            BY ONLY <4>1, <6>1, <6>2
        <5>4. CASE i > at
          <6>1. ~(w[q[i]] <= w[q[m + 1]])
            BY <1>1, <2>8, <4>5, <4>7, <5>4
          <6>2. r[i] = q[i] /\ (r[p] = q[m + 1] \/ r[p] = q[p])
            BY ONLY <4>2, <4>4, <4>5, <5>1, <5>4
          <6> QED
            BY ONLY <4>1, <4>3, <4>6, <6>1, <6>2
        <5> QED
          BY ONLY <4>2, <4>5, <5>2, <5>3, <5>4
      <4>8. CASE i \notin W
        <5>1. r[i] = q[i]
          BY <2>8, <4>4, <4>8
        <5>2. CASE p \notin W
          <6>1. r[p] = q[p]
            BY <2>8, <4>4, <5>2
          <6> QED
            BY ONLY <4>1, <4>3, <5>1, <6>1
        <5>3. CASE p \in W
          <6>1. c[p] # 0 /\ w[q[c[p]]] <= w[q[i]]
            BY <2>3, <4>1, <4>2, <4>3
          <6>2. c[p] \in W
            BY <2>6, <5>3, <6>1
          <6>3. p < c[p] /\ c[p] \in Nat
            <7>1. p < c[p]
              BY <2>3, <4>3, <6>1 DEF IsDown
            <7>2. c[p] \in 1..m
              BY <2>6, <6>2
            <7> QED
              BY <7>1, <7>2
          <6>4. p = at => ~(w[q[c[p]]] <= w[q[m + 1]])
            BY <1>1, <2>8, <6>2, <6>3
          <6>5. w[q[c[p]]] \in Int
            BY <4>6, <6>2
          <6> QED
            BY ONLY <4>1, <4>3, <4>4, <4>6, <5>1, <6>1, <6>4, <6>5, SMTT(30)
        <5> QED
          BY <5>2, <5>3
      <4> QED
        BY <4>7, <4>8
    <3> QED
      BY <2>17, <3>4 DEF IsHeap
  <2> QED
    BY <1>1, <2>17, <2>20, <2>21, <2>22, <2>23, RearrangedOnce DEF m, TakesOff
<1> QED
  BY <1>2, <1>3

\* The first timer of a heap is due no later than any other.
LEMMA FirstIsSoonest ==
  ASSUME NEW S, NEW q \in Seq(S), NEW w \in [S -> Int], IsHeap(q, w)
  PROVE  \A i \in 1..Len(q) : w[q[1]] <= w[q[i]]
<1> DEFINE n == Len(q)
           T == {k \in 0..n : \A i \in 1..n : i <= k => w[q[1]] <= w[q[i]]}
<1>1. n \in Nat /\ \A i \in 1..n : q[i] \in S /\ w[q[i]] \in Int
  OBVIOUS
<1>2. 0 \in T
  BY <1>1
<1>3. ASSUME NEW k \in Nat, k < n, k \in T  PROVE k + 1 \in T
  <2>1. \A i \in 1..n : i <= k => w[q[1]] <= w[q[i]]
    BY <1>3
  <2>2. ASSUME NEW i \in 1..n, i <= k + 1  PROVE w[q[1]] <= w[q[i]]
    <3>1. CASE i <= k
      BY <2>1, <3>1
    <3>2. CASE i = 1
      BY <1>1, <3>2
    <3>3. CASE i >= 2
      <4>1. i \in Nat /\ i <= n /\ i \in 2..n
        BY <1>1, <3>3
      <4>2. Parent(i) \in Nat /\ Parent(i) >= 1 /\ Parent(i) < i
        BY <3>3, <4>1, HalfIs
      <4>3. Parent(i) \in 1..n /\ Parent(i) <= k
        BY <1>1, <2>2, <4>1, <4>2
      <4>4. w[q[1]] <= w[q[Parent(i)]]
        BY <2>1, <4>3
      <4>5. w[q[Parent(i)]] <= w[q[i]]
        BY <4>1 DEF IsHeap
      <4>6. w[q[1]] \in Int /\ w[q[Parent(i)]] \in Int /\ w[q[i]] \in Int
        <5>1. 1 \in 1..n
          BY <1>1, <4>1
        <5> QED
          BY <1>1, <4>3, <5>1
      <4> QED
        BY ONLY <4>4, <4>5, <4>6
    <3> QED
      BY <1>1, <3>1, <3>2, <3>3
  <2>3. k + 1 \in 0..n
    BY <1>1, <1>3
  <2> QED
    BY <2>2, <2>3
<1> HIDE DEF T
<1>4. n \in T
  <2>1. 0 \in T /\ \A k \in Nat : k < n /\ k \in T => k + 1 \in T
    BY <1>2, <1>3
  <2>2. \A k \in 0..n : k \in T
    BY ONLY <1>1, <2>1, UpTo
  <2> QED
    BY <1>1, <2>2
<1> QED
  BY <1>1, <1>4 DEF T
=============================================================================
