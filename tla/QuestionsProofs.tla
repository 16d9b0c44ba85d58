-------------------------- MODULE QuestionsProofs --------------------------
(***************************************************************************)
(* Theorems about Questions, for texts of every length.                     *)
(*                                                                          *)
(* What the texts of a question compute is an induction over their lines    *)
(* and their number.  Each induction is stated with the numbers it fails    *)
(* for, a set that has a least member if it has one.                        *)
(***************************************************************************)
EXTENDS Questions, FiniteSetTheorems, SequenceTheorems, WellFoundedInduction, TLAPS

Texts == Seq(Lines) \ {<<>>}
-----------------------------------------------------------------------------
(* Numbers. *)

LEMMA LeastOf ==
    ASSUME NEW S \in SUBSET Nat, S # {}
    PROVE  \E i \in S : \A j \in S : i <= j
PROOF
<1> DEFINE R == OpToRel(<, Nat)
<1>1. IsWellFoundedOn(R, Nat)  BY NatLessThanWellFounded
<1>2. PICK i \in S : \A j \in S : <<j, i>> \notin R
  <2> HIDE DEF R
  <2> QED  BY <1>1, WFMin
<1>3. \A j \in S : ~(j < i)  BY <1>2 DEF OpToRel
<1> QED  BY <1>3

LEMMA MinMax ==
    ASSUME NEW n \in Nat, NEW S \in SUBSET (1..n), S # {}
    PROVE  /\ Min(S) \in S /\ \A j \in S : Min(S) <= j
           /\ Max(S) \in S /\ \A j \in S : j <= Max(S)
PROOF
<1>1. \E i \in S : \A j \in S : i <= j  BY LeastOf
<1>2. \E i \in S : \A j \in S : i >= j
  <2> DEFINE T == {n - i : i \in S}
  <2>0. \A i \in 1..n : n - i \in Nat  OBVIOUS
  <2>1. T \in SUBSET Nat /\ T # {}  BY <2>0
  <2>2. PICK x \in T : \A y \in T : x <= y  BY <2>1, LeastOf
  <2>3. PICK i \in S : x = n - i  OBVIOUS
  <2>4. \A j \in S : n - i <= n - j  BY <2>2, <2>3
  <2> QED  BY <2>4
<1>3. Min(S) \in S /\ \A j \in S : Min(S) <= j  BY <1>1 DEF Min
<1>4. Max(S) \in S /\ \A j \in S : Max(S) >= j  BY <1>2 DEF Max
<1> QED  BY <1>3, <1>4

LEMMA Squeeze ==
    ASSUME NEW n \in Nat, NEW p \in 1..n, NEW q \in 1..n, p <= 1, n <= q
    PROVE  p = 1 /\ q = n
OBVIOUS

LEMMA StepInside ==
    ASSUME NEW n \in Nat, NEW x \in 1..n, NEW y \in 1..n, NEW i \in x..y, i # y
    PROVE  i # n /\ i + 1 \in x..y
OBVIOUS

\* a is the numbers of S in increasing order.
Enumerates(a, n, S) ==
    /\ n \in Nat
    /\ a \in [1..n -> S]
    /\ \A j, k \in 1..n : j < k => a[j] < a[k]
    /\ \A i \in S : \E k \in 1..n : a[k] = i

\* The numbers of S before the k-th are k - 1.
LEMMA RankOf ==
    ASSUME NEW S \in SUBSET Nat, NEW n, NEW a, Enumerates(a, n, S), NEW k \in 1..n
    PROVE  Cardinality({j \in S : j < a[k]}) = k - 1
PROOF
<1> DEFINE Before == {j \in S : j < a[k]}
           f == [j \in 1..(k - 1) |-> a[j]]
<1>0. n \in Nat /\ k \in Nat /\ k - 1 \in Nat /\ 1..(k - 1) \subseteq 1..n
  BY DEF Enumerates
<1>1. f \in [1..(k - 1) -> Before]
  BY <1>0 DEF Enumerates
<1>2. \A i, j \in 1..(k - 1) : f[i] = f[j] => i = j
  <2> SUFFICES ASSUME NEW i \in 1..(k - 1), NEW j \in 1..(k - 1), i # j PROVE f[i] # f[j]
    OBVIOUS
  <2>1. i \in 1..n /\ j \in 1..n  BY <1>0
  <2>2. a[i] \in Nat /\ a[j] \in Nat  BY <2>1 DEF Enumerates
  <2>3. i < j \/ j < i  BY <1>0
  <2> QED  BY <2>1, <2>2, <2>3 DEF Enumerates
<1>3. \A x \in Before : \E j \in 1..(k - 1) : f[j] = x
  <2> SUFFICES ASSUME NEW x \in Before PROVE \E j \in 1..(k - 1) : f[j] = x
    OBVIOUS
  <2>1. PICK j \in 1..n : a[j] = x  BY DEF Enumerates
  <2>2. a[j] < a[k] /\ a[j] \in Nat /\ a[k] \in Nat  BY <2>1 DEF Enumerates
  <2>3. j < k
    <3> SUFFICES ASSUME k <= j PROVE FALSE  BY <1>0
    <3>1. k = j \/ k < j  BY <1>0
    <3> QED  BY <3>1, <2>2 DEF Enumerates
  <2>4. j \in 1..(k - 1)  BY <2>3, <1>0
  <2> QED  BY <2>1, <2>4
<1>4. f \in Bijection(1..(k - 1), Before)
  <2> HIDE DEF f, Before
  <2> QED  BY <1>1, <1>2, <1>3 DEF Bijection, Injection, Surjection, IsInjective
<1>5. ExistsBijection(1..(k - 1), Before)
  BY <1>4 DEF ExistsBijection
<1>6. IsFiniteSet(1..(k - 1)) /\ Cardinality(1..(k - 1)) = k - 1
  BY <1>0, FS_Interval
<1> HIDE DEF Before
<1>7. Cardinality(Before) = Cardinality(1..(k - 1))
  BY <1>5, <1>6, FS_Bijection
<1> QED  BY <1>6, <1>7 DEF Before

LEMMA OrderedIs ==
    ASSUME NEW S \in SUBSET Nat, NEW n, NEW a, Enumerates(a, n, S)
    PROVE  /\ IsFiniteSet(S) /\ Cardinality(S) = n
           /\ Ordered(S) = a
PROOF
<1>1. \A i, j \in 1..n : a[i] = a[j] => i = j
  <2> SUFFICES ASSUME NEW i \in 1..n, NEW j \in 1..n, i # j PROVE a[i] # a[j]
    OBVIOUS
  <2>0. n \in Nat /\ a \in [1..n -> S]  BY DEF Enumerates
  <2>1. a[i] \in Nat /\ a[j] \in Nat  BY <2>0
  <2>2. i < j \/ j < i  BY <2>0
  <2> QED  BY <2>1, <2>2 DEF Enumerates
<1>2. a \in Bijection(1..n, S)
  BY <1>1 DEF Enumerates, Bijection, Injection, Surjection, IsInjective
<1>3. IsFiniteSet(1..n) /\ Cardinality(1..n) = n
  BY FS_Interval DEF Enumerates
<1>4. IsFiniteSet(S) /\ Cardinality(S) = n
  BY <1>2, <1>3, FS_Bijection DEF ExistsBijection
<1>5. ASSUME NEW k \in 1..n
      PROVE  (CHOOSE i \in S : Cardinality({j \in S : j < i}) = k - 1) = a[k]
  <2>0. a[k] \in S  BY DEF Enumerates
  <2>1. a[k] \in S /\ Cardinality({j \in S : j < a[k]}) = k - 1
    BY <2>0, RankOf
  <2>2. ASSUME NEW i \in S, Cardinality({j \in S : j < i}) = k - 1 PROVE i = a[k]
    <3>1. PICK m \in 1..n : a[m] = i  BY DEF Enumerates
    <3>2. Cardinality({j \in S : j < a[m]}) = m - 1  BY RankOf
    <3>3. m - 1 = k - 1  BY <2>2, <3>1, <3>2
    <3> QED  BY <3>1, <3>3 DEF Enumerates
  <2> QED  BY <2>1, <2>2
<1>6. Ordered(S) = [k \in 1..n |-> a[k]]
  BY <1>4, <1>5 DEF Ordered
<1>7. a = [k \in 1..n |-> a[k]]  BY DEF Enumerates
<1> QED  BY <1>4, <1>6, <1>7

HasOrder(m) == \A S \in SUBSET (1..m) : \E n \in Nat : \E a : Enumerates(a, n, S)

LEMMA OrderStep ==
    ASSUME NEW m \in Nat, HasOrder(m)
    PROVE  HasOrder(m + 1)
PROOF
<1> SUFFICES ASSUME NEW S \in SUBSET (1..(m + 1))
             PROVE  \E n \in Nat : \E a : Enumerates(a, n, S)
  BY DEF HasOrder
<1>1. CASE m + 1 \notin S
  <2>1. S \in SUBSET (1..m)  BY <1>1
  <2> QED  BY <2>1 DEF HasOrder
<1>2. CASE m + 1 \in S
  <2> DEFINE Rest == S \ {m + 1}
  <2>1. Rest \in SUBSET (1..m)  OBVIOUS
  <2>2. PICK n \in Nat : \E a : Enumerates(a, n, Rest)  BY <2>1 DEF HasOrder
  <2>3. PICK a : Enumerates(a, n, Rest)  BY <2>2
  <2> DEFINE b == [k \in 1..(n + 1) |-> IF k = n + 1 THEN m + 1 ELSE a[k]]
  <2>4. a \in [1..n -> Rest]  BY <2>3 DEF Enumerates
  <2>5. \A k \in 1..n : b[k] = a[k] /\ b[k] \in Rest /\ b[k] \in 1..m
    <3>1. \A k \in 1..n : k \in 1..(n + 1) /\ k # n + 1  OBVIOUS
    <3>2. \A k \in 1..n : b[k] = a[k]  BY <3>1
    <3> HIDE DEF b
    <3> QED  BY <2>1, <2>4, <3>2
  <2>6. b[n + 1] = m + 1  OBVIOUS
  <2>7. b \in [1..(n + 1) -> S]
    BY <1>2, <2>4
  <2>8. \A j, k \in 1..(n + 1) : j < k => b[j] < b[k]
    <3> SUFFICES ASSUME NEW j \in 1..(n + 1), NEW k \in 1..(n + 1), j < k PROVE b[j] < b[k]
      OBVIOUS
    <3>1. j \in 1..n  OBVIOUS
    <3> HIDE DEF b
    <3>2. CASE k = n + 1  BY <3>1, <3>2, <2>5, <2>6
    <3>3. CASE k # n + 1
      <4>1. k \in 1..n  BY <3>3
      <4> QED  BY <3>1, <4>1, <2>3, <2>5 DEF Enumerates
    <3> QED  BY <3>2, <3>3
  <2>9. \A i \in S : \E k \in 1..(n + 1) : b[k] = i
    <3> SUFFICES ASSUME NEW i \in S PROVE \E k \in 1..(n + 1) : b[k] = i
      OBVIOUS
    <3> HIDE DEF b
    <3>1. CASE i = m + 1  BY <3>1, <2>6
    <3>2. CASE i # m + 1
      <4>1. PICK k \in 1..n : a[k] = i  BY <3>2, <2>3 DEF Enumerates
      <4> QED  BY <4>1, <2>5
    <3> QED  BY <3>1, <3>2
  <2>10. Enumerates(b, n + 1, S)
    <3> HIDE DEF b
    <3> QED  BY <2>7, <2>8, <2>9 DEF Enumerates
  <2> QED  BY <2>10
<1> QED  BY <1>1, <1>2

LEMMA OrderExists == \A m \in Nat : HasOrder(m)
PROOF
<1> DEFINE Fails == {m \in Nat : ~HasOrder(m)}
<1> SUFFICES ASSUME Fails # {} PROVE FALSE
  OBVIOUS
<1>1. PICK m \in Fails : \A k \in Fails : m <= k
  BY LeastOf
<1>2. HasOrder(0)
  <2>1. ASSUME NEW S \in SUBSET (1..0) PROVE Enumerates(<<>>, 0, S)
    <3>1. S = {} /\ 1..0 = {}  OBVIOUS
    <3>2. <<>> \in [1..0 -> S]  BY <3>1
    <3> QED  BY <3>1, <3>2 DEF Enumerates
  <2> QED  BY <2>1 DEF HasOrder
<1>3. m # 0 /\ m - 1 \in Nat  BY <1>2
<1>4. HasOrder(m - 1)  BY <1>1, <1>3
<1>5. HasOrder((m - 1) + 1)  BY <1>3, <1>4, OrderStep
<1>6. (m - 1) + 1 = m  OBVIOUS
<1> QED  BY <1>5, <1>6

\* The numbers of a set of positions can be put in order, and Ordered does.
LEMMA OrderedEnumerates ==
    ASSUME NEW m \in Nat, NEW S \in SUBSET (1..m)
    PROVE  /\ IsFiniteSet(S) /\ Cardinality(S) \in Nat
           /\ Enumerates(Ordered(S), Cardinality(S), S)
PROOF
<1>1. PICK n \in Nat : \E a : Enumerates(a, n, S)
  BY OrderExists DEF HasOrder
<1>2. PICK a : Enumerates(a, n, S)  BY <1>1
<1>3. S \in SUBSET Nat  OBVIOUS
<1> QED  BY <1>2, <1>3, OrderedIs
-----------------------------------------------------------------------------
(* The paragraphs of a text, and the blocks that Blocks makes of them. *)

\* The first m lines of t have content in the n intervals a[k]..b[k] and nowhere
\* else, and a blank line or more lies between two of them.
Splits(t, m, n, a, b) ==
    /\ n \in Nat
    /\ a \in [1..n -> 1..m]
    /\ b \in [1..n -> 1..m]
    /\ \A k \in 1..n : a[k] <= b[k]
    /\ \A j, k \in 1..n : j < k => b[j] + 1 < a[k]
    /\ \A k \in 1..n : \A i \in a[k]..b[k] : t[i] # Blank
    /\ \A i \in 1..m : t[i] # Blank => \E k \in 1..n : i \in a[k]..b[k]

IsSplit(t, m) == \E n \in Nat : \E a, b : Splits(t, m, n, a, b)

\* A line with content begins a paragraph or continues the last one.
LEMMA SplitStep ==
    ASSUME NEW t, NEW m \in Nat, IsSplit(t, m)
    PROVE  IsSplit(t, m + 1)
PROOF
<1>1n. PICK n \in Nat : \E a, b : Splits(t, m, n, a, b)  BY DEF IsSplit
<1>1. PICK a, b : Splits(t, m, n, a, b)  BY <1>1n
<1>2. /\ a \in [1..n -> 1..m] /\ b \in [1..n -> 1..m]
      /\ a \in [1..n -> 1..(m + 1)] /\ b \in [1..n -> 1..(m + 1)]
  BY <1>1 DEF Splits
<1>3. CASE t[m + 1] = Blank
  <2>1. Splits(t, m + 1, n, a, b)
    <3>1. ASSUME NEW i \in 1..(m + 1), t[i] # Blank PROVE \E k \in 1..n : i \in a[k]..b[k]
      <4>1. i \in 1..m  BY <1>3, <3>1
      <4> QED  BY <1>1, <3>1, <4>1 DEF Splits
    <3> QED  BY <1>1, <1>2, <3>1 DEF Splits
  <2> QED  BY <2>1 DEF IsSplit
<1>4. CASE t[m + 1] # Blank /\ \E k \in 1..n : b[k] = m
  <2>1. PICK l \in 1..n : b[l] = m  BY <1>4
  <2>2. \A k \in 1..n : k # l => k < l
    <3> SUFFICES ASSUME NEW k \in 1..n, l < k PROVE FALSE  OBVIOUS
    <3>1. b[l] + 1 < a[k]  BY <1>1 DEF Splits
    <3>2. a[k] \in 1..m  BY <1>2
    <3> QED  BY <2>1, <3>1, <3>2
  <2> DEFINE c == [b EXCEPT ![l] = m + 1]
  <2>3. c \in [1..n -> 1..(m + 1)]  BY <1>2
  <2>4. \A k \in 1..n : c[k] = IF k = l THEN m + 1 ELSE b[k]  BY <1>2
  <2> HIDE DEF c
  <2>5. \A k \in 1..n : a[k] <= c[k]
    <3> TAKE k \in 1..n
    <3>1. a[k] \in 1..m /\ b[k] \in 1..m /\ a[k] <= b[k]  BY <1>1, <1>2 DEF Splits
    <3> QED  BY <2>4, <3>1
  <2>6. \A j, k \in 1..n : j < k => c[j] + 1 < a[k]
    <3> SUFFICES ASSUME NEW j \in 1..n, NEW k \in 1..n, j < k PROVE c[j] + 1 < a[k]
      OBVIOUS
    <3>1. j # l  BY <2>2
    <3> QED  BY <1>1, <2>4, <3>1 DEF Splits
  <2>7. \A k \in 1..n : \A i \in a[k]..c[k] : t[i] # Blank
    <3> TAKE k \in 1..n
    <3> TAKE i \in a[k]..c[k]
    <3>1. CASE k = l /\ i = m + 1  BY <1>4, <3>1
    <3>2. CASE ~(k = l /\ i = m + 1)
      <4>1. a[k] \in 1..m /\ b[k] \in 1..m  BY <1>2
      <4>2. i \in a[k]..b[k]  BY <2>1, <2>4, <3>2, <4>1
      <4> QED  BY <1>1, <4>2 DEF Splits
    <3> QED  BY <3>1, <3>2
  <2>8. ASSUME NEW i \in 1..(m + 1), t[i] # Blank PROVE \E k \in 1..n : i \in a[k]..c[k]
    <3>1. CASE i = m + 1
      <4>1. a[l] \in 1..m  BY <1>2
      <4>2. i \in a[l]..c[l]  BY <2>4, <3>1, <4>1
      <4> QED  BY <4>2
    <3>2. CASE i # m + 1
      <4>1. i \in 1..m  BY <3>2
      <4>2. PICK k \in 1..n : i \in a[k]..b[k]  BY <1>1, <2>8, <4>1 DEF Splits
      <4>3. a[k] \in 1..m /\ b[k] \in 1..m  BY <1>2
      <4>4. i \in a[k]..c[k]  BY <2>4, <4>2, <4>3
      <4> QED  BY <4>4
    <3> QED  BY <3>1, <3>2
  <2>9. Splits(t, m + 1, n, a, c)
    BY <1>2, <2>3, <2>5, <2>6, <2>7, <2>8 DEF Splits
  <2> QED  BY <2>9 DEF IsSplit
<1>5. CASE t[m + 1] # Blank /\ ~ \E k \in 1..n : b[k] = m
  <2> DEFINE d == [k \in 1..(n + 1) |-> IF k = n + 1 THEN m + 1 ELSE a[k]]
             e == [k \in 1..(n + 1) |-> IF k = n + 1 THEN m + 1 ELSE b[k]]
  <2>1. \A k \in 1..n : k \in 1..(n + 1) /\ k # n + 1  OBVIOUS
  <2>2. \A k \in 1..n : d[k] = a[k] /\ e[k] = b[k]  BY <2>1
  <2>3. d[n + 1] = m + 1 /\ e[n + 1] = m + 1  OBVIOUS
  <2>4. d \in [1..(n + 1) -> 1..(m + 1)] /\ e \in [1..(n + 1) -> 1..(m + 1)]
    BY <1>2
  <2> HIDE DEF d, e
  <2>5. \A k \in 1..n : b[k] \in 1..m /\ b[k] # m  BY <1>2, <1>5
  <2>6. \A k \in 1..(n + 1) : k \in 1..n \/ k = n + 1  OBVIOUS
  <2>7. \A k \in 1..(n + 1) : d[k] <= e[k]
    <3> TAKE k \in 1..(n + 1)
    <3>1. CASE k = n + 1  BY <2>3, <3>1
    <3>2. CASE k \in 1..n  BY <1>1, <2>2, <3>2 DEF Splits
    <3> QED  BY <2>6, <3>1, <3>2
  <2>8. \A j, k \in 1..(n + 1) : j < k => e[j] + 1 < d[k]
    <3> SUFFICES ASSUME NEW j \in 1..(n + 1), NEW k \in 1..(n + 1), j < k PROVE e[j] + 1 < d[k]
      OBVIOUS
    <3>1. j \in 1..n  OBVIOUS
    <3>2. CASE k = n + 1
      <4>1. b[j] \in 1..m /\ b[j] # m  BY <2>5, <3>1
      <4> QED  BY <2>2, <2>3, <3>1, <3>2, <4>1
    <3>3. CASE k \in 1..n
      BY <1>1, <2>2, <3>1, <3>3 DEF Splits
    <3> QED  BY <2>6, <3>2, <3>3
  <2>9. \A k \in 1..(n + 1) : \A i \in d[k]..e[k] : t[i] # Blank
    <3> TAKE k \in 1..(n + 1)
    <3> TAKE i \in d[k]..e[k]
    <3>1. CASE k = n + 1
      <4>1. i = m + 1  BY <2>3, <3>1
      <4> QED  BY <1>5, <4>1
    <3>2. CASE k \in 1..n
      <4>1. i \in a[k]..b[k]  BY <2>2, <3>2
      <4> QED  BY <1>1, <3>2, <4>1 DEF Splits
    <3> QED  BY <2>6, <3>1, <3>2
  <2>10. ASSUME NEW i \in 1..(m + 1), t[i] # Blank
         PROVE  \E k \in 1..(n + 1) : i \in d[k]..e[k]
    <3>1. CASE i = m + 1
      <4>1. n + 1 \in 1..(n + 1) /\ i \in d[n + 1]..e[n + 1]  BY <2>3, <3>1
      <4> QED  BY <4>1
    <3>2. CASE i # m + 1
      <4>1. i \in 1..m  BY <3>2
      <4>2. PICK k \in 1..n : i \in a[k]..b[k]  BY <1>1, <2>10, <4>1 DEF Splits
      <4>3. k \in 1..(n + 1) /\ i \in d[k]..e[k]  BY <2>1, <2>2, <4>2
      <4> QED  BY <4>3
    <3> QED  BY <3>1, <3>2
  <2>11. Splits(t, m + 1, n + 1, d, e)
    BY <2>4, <2>7, <2>8, <2>9, <2>10 DEF Splits
  <2> QED  BY <2>11 DEF IsSplit
<1> QED  BY <1>3, <1>4, <1>5

LEMMA SplitExists == \A t : \A m \in Nat : IsSplit(t, m)
PROOF
<1> TAKE t
<1> DEFINE Fails == {m \in Nat : ~IsSplit(t, m)}
<1> SUFFICES ASSUME Fails # {} PROVE FALSE
  OBVIOUS
<1>1. PICK m \in Fails : \A k \in Fails : m <= k
  BY LeastOf
<1>2. IsSplit(t, 0)
  <2>1. Splits(t, 0, 0, <<>>, <<>>)
    <3>1. 1..0 = {}  OBVIOUS
    <3>2. <<>> \in [1..0 -> 1..0]  BY <3>1
    <3> QED  BY <3>1, <3>2 DEF Splits
  <2> QED  BY <2>1 DEF IsSplit
<1>3. m # 0 /\ m - 1 \in Nat  BY <1>2
<1>4. IsSplit(t, m - 1)  BY <1>1, <1>3
<1>5. IsSplit(t, (m - 1) + 1)  BY <1>3, <1>4, SplitStep
<1>6. (m - 1) + 1 = m  OBVIOUS
<1> QED  BY <1>5, <1>6

Starts(t) == {i \in DOMAIN t : t[i] # Blank /\ (i = 1 \/ t[i - 1] = Blank)}
Ends(t) == {i \in DOMAIN t : t[i] # Blank /\ (i = Len(t) \/ t[i + 1] = Blank)}

LEMMA StartsAreEnumerated ==
    ASSUME NEW t \in Seq(Lines), NEW n, NEW a, NEW b, Splits(t, Len(t), n, a, b)
    PROVE  Enumerates(a, n, Starts(t))
PROOF
<1>1. Len(t) \in Nat /\ DOMAIN t = 1..Len(t)  BY LenProperties
<1>2. /\ n \in Nat /\ a \in [1..n -> 1..Len(t)] /\ b \in [1..n -> 1..Len(t)]
  BY DEF Splits
<1>3. ASSUME NEW k \in 1..n PROVE a[k] \in Starts(t)
  <2>1. a[k] \in 1..Len(t) /\ b[k] \in 1..Len(t)  BY <1>2
  <2>2. a[k] <= b[k]  BY DEF Splits
  <2>3. t[a[k]] # Blank
    <3>1. a[k] \in a[k]..b[k]  BY <1>1, <2>1, <2>2
    <3> QED  BY <3>1 DEF Splits
  <2>4. ASSUME a[k] # 1, t[a[k] - 1] # Blank PROVE FALSE
    <3>1. a[k] - 1 \in 1..Len(t)  BY <1>1, <2>1, <2>4
    <3>2. PICK l \in 1..n : a[k] - 1 \in a[l]..b[l]  BY <2>4, <3>1 DEF Splits
    <3>3. a[l] \in 1..Len(t) /\ b[l] \in 1..Len(t)  BY <1>2
    <3>4. l < k \/ k < l \/ l = k  BY <1>2
    <3>5. CASE l < k
      <4>1. b[l] + 1 < a[k]  BY <3>5 DEF Splits
      <4> QED  BY <1>1, <2>1, <3>2, <3>3, <4>1
    <3>6. CASE k < l
      <4>1. b[k] + 1 < a[l]  BY <3>6 DEF Splits
      <4> QED  BY <1>1, <2>1, <2>2, <3>2, <3>3, <4>1
    <3>7. CASE l = k  BY <1>1, <2>1, <3>2, <3>7
    <3> QED  BY <3>4, <3>5, <3>6, <3>7
  <2> QED  BY <1>1, <2>1, <2>3, <2>4 DEF Starts
<1>4. ASSUME NEW j \in 1..n, NEW k \in 1..n, j < k PROVE a[j] < a[k]
  <2>1. a[j] <= b[j] /\ b[j] + 1 < a[k]  BY <1>4 DEF Splits
  <2>2. a[j] \in 1..Len(t) /\ b[j] \in 1..Len(t) /\ a[k] \in 1..Len(t)  BY <1>2
  <2> QED  BY <1>1, <2>1, <2>2
<1>5. ASSUME NEW i \in Starts(t) PROVE \E k \in 1..n : a[k] = i
  <2>1. i \in 1..Len(t) /\ t[i] # Blank /\ (i = 1 \/ t[i - 1] = Blank)
    BY <1>1 DEF Starts
  <2>2. PICK k \in 1..n : i \in a[k]..b[k]  BY <2>1 DEF Splits
  <2>3. a[k] \in 1..Len(t) /\ b[k] \in 1..Len(t)  BY <1>2
  <2>4. ASSUME a[k] # i PROVE FALSE
    <3>1. i # 1 /\ i - 1 \in a[k]..b[k]  BY <1>1, <2>1, <2>2, <2>3, <2>4
    <3>2. t[i - 1] # Blank  BY <3>1 DEF Splits
    <3> QED  BY <2>1, <3>1, <3>2
  <2> QED  BY <2>4
<1>6. a \in [1..n -> Starts(t)]  BY <1>2, <1>3
<1> QED  BY <1>2, <1>4, <1>5, <1>6 DEF Enumerates

LEMMA EndsAreEnumerated ==
    ASSUME NEW t \in Seq(Lines), NEW n, NEW a, NEW b, Splits(t, Len(t), n, a, b)
    PROVE  Enumerates(b, n, Ends(t))
PROOF
<1>1. Len(t) \in Nat /\ DOMAIN t = 1..Len(t)  BY LenProperties
<1>2. /\ n \in Nat /\ a \in [1..n -> 1..Len(t)] /\ b \in [1..n -> 1..Len(t)]
  BY DEF Splits
<1>3. ASSUME NEW k \in 1..n PROVE b[k] \in Ends(t)
  <2>1. a[k] \in 1..Len(t) /\ b[k] \in 1..Len(t)  BY <1>2
  <2>2. a[k] <= b[k]  BY DEF Splits
  <2>3. t[b[k]] # Blank
    <3>1. b[k] \in a[k]..b[k]  BY <1>1, <2>1, <2>2
    <3> QED  BY <3>1 DEF Splits
  <2>4. ASSUME b[k] # Len(t), t[b[k] + 1] # Blank PROVE FALSE
    <3>1. b[k] + 1 \in 1..Len(t)  BY <1>1, <2>1, <2>4
    <3>2. PICK l \in 1..n : b[k] + 1 \in a[l]..b[l]  BY <2>4, <3>1 DEF Splits
    <3>3. a[l] \in 1..Len(t) /\ b[l] \in 1..Len(t)  BY <1>2
    <3>4. l < k \/ k < l \/ l = k  BY <1>2
    <3>5. CASE l < k
      <4>1. b[l] + 1 < a[k]  BY <3>5 DEF Splits
      <4> QED  BY <1>1, <2>1, <2>2, <3>2, <3>3, <4>1
    <3>6. CASE k < l
      <4>1. b[k] + 1 < a[l]  BY <3>6 DEF Splits
      <4> QED  BY <1>1, <2>1, <3>2, <3>3, <4>1
    <3>7. CASE l = k  BY <1>1, <2>1, <3>2, <3>7
    <3> QED  BY <3>4, <3>5, <3>6, <3>7
  <2> QED  BY <1>1, <2>1, <2>3, <2>4 DEF Ends
<1>4. ASSUME NEW j \in 1..n, NEW k \in 1..n, j < k PROVE b[j] < b[k]
  <2>1. b[j] + 1 < a[k] /\ a[k] <= b[k]  BY <1>4 DEF Splits
  <2>2. b[j] \in 1..Len(t) /\ b[k] \in 1..Len(t) /\ a[k] \in 1..Len(t)  BY <1>2
  <2> QED  BY <1>1, <2>1, <2>2
<1>5. ASSUME NEW i \in Ends(t) PROVE \E k \in 1..n : b[k] = i
  <2>1. i \in 1..Len(t) /\ t[i] # Blank /\ (i = Len(t) \/ t[i + 1] = Blank)
    BY <1>1 DEF Ends
  <2>2. PICK k \in 1..n : i \in a[k]..b[k]  BY <2>1 DEF Splits
  <2>3. a[k] \in 1..Len(t) /\ b[k] \in 1..Len(t)  BY <1>2
  <2>4. ASSUME b[k] # i PROVE FALSE
    <3>1. i # Len(t) /\ i + 1 \in a[k]..b[k]
      BY <1>1, <2>1, <2>2, <2>3, <2>4, StepInside, Zenon
    <3>2. i + 1 \in a[k]..b[k]  BY <3>1
    <3>3. t[i + 1] # Blank  BY <3>2 DEF Splits
    <3>4. t[i + 1] = Blank  BY <2>1, <3>1, Zenon
    <3> QED  BY <3>3, <3>4
  <2> QED  BY <2>4
<1>6. b \in [1..n -> Ends(t)]  BY <1>2, <1>3
<1> QED  BY <1>2, <1>4, <1>5, <1>6 DEF Enumerates

\* The blocks of a text are its paragraphs, and there are as many.
LEMMA BlocksOfSplit ==
    ASSUME NEW t \in Seq(Lines), NEW n, NEW a, NEW b, Splits(t, Len(t), n, a, b)
    PROVE  /\ Blocks(t) = [k \in 1..n |-> SubSeq(t, a[k], b[k])]
           /\ Paragraphs(t) = n
PROOF
<1>1. Len(t) \in Nat /\ DOMAIN t = 1..Len(t)  BY LenProperties
<1>2. Starts(t) \in SUBSET Nat /\ Ends(t) \in SUBSET Nat
  BY <1>1 DEF Starts, Ends
<1>3. Ordered(Starts(t)) = a  BY <1>2, StartsAreEnumerated, OrderedIs
<1>4. Ordered(Ends(t)) = b /\ Cardinality(Ends(t)) = n
  BY <1>2, EndsAreEnumerated, OrderedIs
<1>5. DOMAIN a = 1..n  BY DEF Splits
<1>6. Blocks(t) = [k \in DOMAIN a |-> SubSeq(t, a[k], b[k])]
  BY <1>3, <1>4 DEF Blocks, Starts, Ends
<1>7. Paragraphs(t) = n  BY <1>4 DEF Paragraphs, Ends
<1> QED  BY <1>5, <1>6, <1>7

\* A text of lines with content: a block.
IsBlock(t) == t \in Texts /\ \A i \in 1..Len(t) : t[i] # Blank

LEMMA BlocksAreBlocks ==
    ASSUME NEW t \in Seq(Lines)
    PROVE  /\ Paragraphs(t) \in Nat
           /\ Blocks(t) \in Seq(Texts)
           /\ Len(Blocks(t)) = Paragraphs(t)
           /\ \A k \in 1..Len(Blocks(t)) : IsBlock(Blocks(t)[k])
PROOF
<1>1. Len(t) \in Nat /\ t \in [1..Len(t) -> Lines]  BY LenProperties
<1>2n. PICK n \in Nat : \E a, b : Splits(t, Len(t), n, a, b)
  BY <1>1, SplitExists DEF IsSplit
<1>2. PICK a, b : Splits(t, Len(t), n, a, b)  BY <1>2n
<1>3. Blocks(t) = [k \in 1..n |-> SubSeq(t, a[k], b[k])] /\ Paragraphs(t) = n
  BY <1>2, BlocksOfSplit
<1>4. ASSUME NEW k \in 1..n PROVE IsBlock(SubSeq(t, a[k], b[k]))
  <2>1. a[k] \in 1..Len(t) /\ b[k] \in 1..Len(t) /\ a[k] <= b[k]  BY <1>2 DEF Splits
  <2>2. \A i \in a[k]..b[k] : t[i] \in Lines  BY <1>1, <2>1
  <2> DEFINE s == SubSeq(t, a[k], b[k])
  <2>3. a[k] \in Int /\ b[k] \in Int  BY <1>1, <2>1
  <2>4. /\ s \in Seq(Lines) /\ Len(s) = b[k] - a[k] + 1
        /\ \A i \in 1..(b[k] - a[k] + 1) : s[i] = t[a[k] + i - 1]
    BY <2>1, <2>2, <2>3, SubSeqProperties, SMTT(30)
  <2> HIDE DEF s
  <2>5. s # <<>>  BY <2>1, <2>3, <2>4
  <2>6. ASSUME NEW i \in 1..Len(s) PROVE s[i] # Blank
    <3>1. a[k] + i - 1 \in a[k]..b[k]  BY <2>3, <2>4
    <3>2. t[a[k] + i - 1] # Blank  BY <1>2, <3>1 DEF Splits
    <3> QED  BY <2>3, <2>4, <3>2
  <2>7. IsBlock(s)  BY <2>4, <2>5, <2>6 DEF IsBlock, Texts
  <2> QED  BY <2>7 DEF s
<1>5. Blocks(t) \in [1..n -> Texts]  BY <1>3, <1>4 DEF IsBlock
<1>6. Blocks(t) \in Seq(Texts) /\ Len(Blocks(t)) = n
  BY <1>5, SeqDef
<1> QED  BY <1>3, <1>4, <1>6
-----------------------------------------------------------------------------
(* Trimming. *)

LEMMA TrimIs ==
    ASSUME NEW t \in Texts
    PROVE  /\ IsBlank(t) => Trim(t) = EmptyText
           /\ ~IsBlank(t) =>
                 \E p, q \in 1..Len(t) :
                    /\ p <= q
                    /\ Trim(t) = SubSeq(t, p, q)
                    /\ t[p] # Blank /\ t[q] # Blank
                    /\ \A i \in 1..Len(t) : t[i] # Blank => p <= i /\ i <= q
PROOF
<1> DEFINE lines == {i \in DOMAIN t : t[i] # Blank}
<1>1. t \in Seq(Lines) /\ Len(t) \in Nat /\ DOMAIN t = 1..Len(t)
  BY LenProperties DEF Texts
<1>2. IsBlank(t) <=> lines = {}  BY DEF IsBlank
<1>3. CASE IsBlank(t)  BY <1>2, <1>3 DEF Trim
<1>4. CASE ~IsBlank(t)
  <2>1. lines # {} /\ lines \in SUBSET (1..Len(t))  BY <1>1, <1>2, <1>4
  <2>2. Trim(t) = SubSeq(t, Min(lines), Max(lines))  BY <2>1 DEF Trim
  <2>3. /\ Min(lines) \in lines /\ \A j \in lines : Min(lines) <= j
        /\ Max(lines) \in lines /\ \A j \in lines : j <= Max(lines)
    <3> HIDE DEF lines
    <3> QED  BY <1>1, <2>1, MinMax
  <2>4. /\ Min(lines) \in 1..Len(t) /\ t[Min(lines)] # Blank
        /\ Max(lines) \in 1..Len(t) /\ t[Max(lines)] # Blank
    BY <1>1, <2>3
  <2>5. Min(lines) <= Max(lines)  BY <2>3
  <2>6. \A i \in 1..Len(t) : t[i] # Blank => Min(lines) <= i /\ i <= Max(lines)
    BY <1>1, <2>3
  <2> QED  BY <1>4, <2>2, <2>4, <2>5, <2>6
<1> QED  BY <1>3, <1>4

LEMMA EmptyTextFacts ==
    /\ EmptyText \in Texts /\ Blank \in Lines
    /\ IsBlank(EmptyText) /\ Len(EmptyText) = 1 /\ EmptyText[1] = Blank
PROOF
<1>1. EmptyText \in Seq(Lines)  BY QuestionsAssumption
<1>2. EmptyText # <<>> /\ Len(EmptyText) = 1 /\ EmptyText[1] = Blank /\ DOMAIN EmptyText = {1}
  BY DEF EmptyText
<1>3. Blank \in Lines
  <2>1. 1 \in 1..Len(EmptyText)  BY <1>2
  <2>2. EmptyText[1] \in Lines  BY <1>1, <2>1, ElementOfSeq
  <2> QED  BY <1>2, <2>2
<1> QED  BY <1>1, <1>2, <1>3 DEF IsBlank, Texts

\* A part of a text.
LEMMA PartOf ==
    ASSUME NEW t \in Seq(Lines), NEW p \in 1..Len(t), NEW q \in 1..Len(t), p <= q
    PROVE  /\ SubSeq(t, p, q) \in Texts
           /\ Len(SubSeq(t, p, q)) = q - p + 1
           /\ \A i \in 1..(q - p + 1) : SubSeq(t, p, q)[i] = t[p + i - 1]
PROOF
<1>1. Len(t) \in Nat /\ t \in [1..Len(t) -> Lines]  BY LenProperties
<1>2. p \in Int /\ q \in Int  BY <1>1
<1>3. \A i \in p..q : t[i] \in Lines  BY <1>1, <1>2
<1>4. /\ SubSeq(t, p, q) \in Seq(Lines) /\ Len(SubSeq(t, p, q)) = q - p + 1
      /\ \A i \in 1..(q - p + 1) : SubSeq(t, p, q)[i] = t[p + i - 1]
  BY <1>2, <1>3, SubSeqProperties
<1>5. SubSeq(t, p, q) # <<>>  BY <1>2, <1>4
<1> QED  BY <1>4, <1>5 DEF Texts

LEMMA TrimFacts ==
    ASSUME NEW t \in Texts
    PROVE  /\ Trim(t) \in Texts
           /\ IsBlank(Trim(t)) <=> IsBlank(t)
           /\ Trim(Trim(t)) = Trim(t)
PROOF
<1>0. t \in Seq(Lines) /\ Len(t) \in Nat /\ DOMAIN t = 1..Len(t)
  BY LenProperties DEF Texts
<1>1. CASE IsBlank(t)
  <2>1. Trim(t) = EmptyText  BY <1>1, TrimIs
  <2>2. Trim(EmptyText) = EmptyText  BY TrimIs, EmptyTextFacts
  <2> QED  BY <1>1, <2>1, <2>2, EmptyTextFacts
<1>2. CASE ~IsBlank(t)
  <2>1. PICK p \in 1..Len(t), q \in 1..Len(t) :
           /\ p <= q
           /\ Trim(t) = SubSeq(t, p, q)
           /\ t[p] # Blank /\ t[q] # Blank
    BY <1>2, TrimIs
  <2> DEFINE s == SubSeq(t, p, q)
  <2>2. /\ s \in Texts /\ Len(s) = q - p + 1
        /\ \A i \in 1..(q - p + 1) : s[i] = t[p + i - 1]
    BY <1>0, <2>1, PartOf
  <2>3. p \in Int /\ q \in Int  BY <1>0
  <2> HIDE DEF s
  <2>4. s[1] # Blank /\ s[Len(s)] # Blank /\ Len(s) \in Nat /\ 1 \in 1..Len(s) /\ Len(s) \in 1..Len(s)
    <3>1. q - p + 1 \in Nat /\ 1 \in 1..(q - p + 1) /\ q - p + 1 \in 1..(q - p + 1)
      BY <2>1, <2>3
    <3>2. s[1] = t[p + 1 - 1] /\ s[q - p + 1] = t[p + (q - p + 1) - 1]  BY <2>2, <3>1
    <3>3. p + 1 - 1 = p /\ p + (q - p + 1) - 1 = q  BY <2>3
    <3> QED  BY <2>1, <2>2, <3>1, <3>2, <3>3
  <2>5. s \in Seq(Lines) /\ DOMAIN s = 1..Len(s)  BY <2>2, LenProperties DEF Texts
  <2>6. ~IsBlank(s)  BY <2>4, <2>5 DEF IsBlank
  <2>7. PICK x \in 1..Len(s), y \in 1..Len(s) :
           /\ Trim(s) = SubSeq(s, x, y)
           /\ \A i \in 1..Len(s) : s[i] # Blank => x <= i /\ i <= y
    BY <2>2, <2>6, TrimIs
  <2>8. x = 1 /\ y = Len(s)
    <3>1. x <= 1 /\ Len(s) <= y  BY <2>4, <2>7
    <3> QED  BY <2>4, <3>1
  <2>9. Trim(s) = s  BY <2>5, <2>7, <2>8, SubSeqFull
  <2>10. Trim(t) = s  BY <2>1 DEF s
  <2> QED  BY <1>2, <2>2, <2>6, <2>9, <2>10
<1> QED  BY <1>1, <1>2

\* A block is trimmed and is one paragraph.
LEMMA BlockFacts ==
    ASSUME NEW t, IsBlock(t)
    PROVE  t \in Texts /\ ~IsBlank(t) /\ Trim(t) = t /\ Paragraphs(t) = 1
PROOF
<1>0. /\ t \in Texts /\ t \in Seq(Lines) /\ Len(t) \in Nat /\ DOMAIN t = 1..Len(t) /\ t # <<>>
      /\ \A i \in 1..Len(t) : t[i] # Blank
  BY LenProperties DEF IsBlock, Texts
<1>1. 1 \in 1..Len(t) /\ Len(t) \in 1..Len(t)  BY <1>0, EmptySeq
<1>2. ~IsBlank(t)  BY <1>0, <1>1 DEF IsBlank
<1>3. PICK p \in 1..Len(t), q \in 1..Len(t) :
         /\ Trim(t) = SubSeq(t, p, q)
         /\ \A i \in 1..Len(t) : t[i] # Blank => p <= i /\ i <= q
  BY <1>0, <1>2, TrimIs
<1>4. p <= 1 /\ Len(t) <= q  BY <1>0, <1>1, <1>3
<1>5. p = 1 /\ q = Len(t)
  BY <1>0, <1>4, Squeeze
<1>6. Trim(t) = t  BY <1>0, <1>3, <1>5, SubSeqFull
<1>7. Splits(t, Len(t), 1, [k \in 1..1 |-> 1], [k \in 1..1 |-> Len(t)])
  <2> DEFINE a == [k \in 1..1 |-> 1]
             b == [k \in 1..1 |-> Len(t)]
  <2>1. a \in [1..1 -> 1..Len(t)] /\ b \in [1..1 -> 1..Len(t)]  BY <1>1
  <2>2. \A k \in 1..1 : a[k] = 1 /\ b[k] = Len(t)  OBVIOUS
  <2>3. 1 \in 1..1  OBVIOUS
  <2> HIDE DEF a, b
  <2>4. \A j, k \in 1..1 : ~(j < k)  OBVIOUS
  <2>5. Splits(t, Len(t), 1, a, b)
    BY <1>0, <1>1, <2>1, <2>2, <2>3, <2>4 DEF Splits
  <2> QED  BY <2>5 DEF a, b
<1>8. Paragraphs(t) = 1  BY <1>0, <1>7, BlocksOfSplit
<1> QED  BY <1>0, <1>2, <1>6, <1>8

\* Trimming takes no paragraph and adds none.
LEMMA TrimKeepsBlocks ==
    ASSUME NEW t \in Texts
    PROVE  Blocks(Trim(t)) = Blocks(t) /\ Paragraphs(Trim(t)) = Paragraphs(t)
PROOF
<1>0. t \in Seq(Lines) /\ Len(t) \in Nat /\ DOMAIN t = 1..Len(t)
  BY LenProperties DEF Texts
<1>1n. PICK n \in Nat : \E a, b : Splits(t, Len(t), n, a, b)
  BY <1>0, SplitExists DEF IsSplit
<1>1. PICK a, b : Splits(t, Len(t), n, a, b)  BY <1>1n
<1>2. Blocks(t) = [k \in 1..n |-> SubSeq(t, a[k], b[k])] /\ Paragraphs(t) = n
  BY <1>0, <1>1, BlocksOfSplit
<1>3. a \in [1..n -> 1..Len(t)] /\ b \in [1..n -> 1..Len(t)]  BY <1>1 DEF Splits
<1>4. CASE IsBlank(t)
  <2>1. Trim(t) = EmptyText  BY <1>4, TrimIs
  <2>2. n = 0
    <3> SUFFICES ASSUME n # 0 PROVE FALSE  OBVIOUS
    <3>1. 1 \in 1..n  BY <1>1
    <3>2. a[1] \in 1..Len(t) /\ b[1] \in 1..Len(t) /\ a[1] <= b[1]  BY <1>1, <1>3, <3>1 DEF Splits
    <3>3. a[1] \in a[1]..b[1]  BY <1>0, <3>2
    <3>4. t[a[1]] # Blank  BY <1>1, <3>1, <3>3 DEF Splits
    <3> QED  BY <1>0, <1>4, <3>2, <3>4 DEF IsBlank
  <2>3. Splits(EmptyText, 1, 0, <<>>, <<>>)
    <3>1. 1..0 = {}  OBVIOUS
    <3>2. <<>> \in [1..0 -> 1..1]  BY <3>1
    <3>3. \A i \in 1..1 : EmptyText[i] = Blank  BY EmptyTextFacts
    <3> QED  BY <3>1, <3>2, <3>3 DEF Splits
  <2>4. EmptyText \in Seq(Lines) /\ Len(EmptyText) = 1  BY EmptyTextFacts DEF Texts
  <2>5. /\ Blocks(EmptyText) = [k \in 1..0 |-> SubSeq(EmptyText, <<>>[k], <<>>[k])]
        /\ Paragraphs(EmptyText) = 0
    BY <2>3, <2>4, BlocksOfSplit
  <2>6. 1..0 = {}  OBVIOUS
  <2>7. Blocks(EmptyText) = [k \in {} |-> k] /\ Blocks(t) = [k \in {} |-> k]
    BY <1>2, <2>2, <2>5, <2>6
  <2> QED  BY <1>2, <2>1, <2>2, <2>5, <2>7
<1>5. CASE ~IsBlank(t)
  <2>1. PICK p \in 1..Len(t), q \in 1..Len(t) :
           /\ p <= q
           /\ Trim(t) = SubSeq(t, p, q)
           /\ \A i \in 1..Len(t) : t[i] # Blank => p <= i /\ i <= q
    BY <1>5, TrimIs
  <2> DEFINE s == SubSeq(t, p, q)
             c == [k \in 1..n |-> a[k] - p + 1]
             d == [k \in 1..n |-> b[k] - p + 1]
  <2>2. /\ s \in Texts /\ Len(s) = q - p + 1
        /\ \A i \in 1..(q - p + 1) : s[i] = t[p + i - 1]
    BY <1>0, <2>1, PartOf
  <2>3. s \in Seq(Lines)  BY <2>2 DEF Texts
  <2>4. p \in Int /\ q \in Int  BY <1>0
  <2>5. \A k \in 1..n : /\ a[k] \in Int /\ b[k] \in Int /\ a[k] <= b[k]
                        /\ a[k] \in 1..Len(t) /\ b[k] \in 1..Len(t)
                        /\ p <= a[k] /\ b[k] <= q
    <3> TAKE k \in 1..n
    <3>1. /\ a[k] \in 1..Len(t) /\ b[k] \in 1..Len(t) /\ a[k] <= b[k]
      BY <1>1, <1>3 DEF Splits
    <3>2. a[k] \in a[k]..b[k] /\ b[k] \in a[k]..b[k]  BY <1>0, <3>1
    <3>3. t[a[k]] # Blank /\ t[b[k]] # Blank  BY <1>1, <3>2 DEF Splits
    <3> QED  BY <1>0, <2>1, <3>1, <3>3
  <2>6. \A k \in 1..n : c[k] = a[k] - p + 1 /\ d[k] = b[k] - p + 1  OBVIOUS
  <2>7. \A k \in 1..n : c[k] \in 1..Len(s) /\ d[k] \in 1..Len(s)
    <3> TAKE k \in 1..n
    <3> HIDE DEF c, d, s
    <3>1. c[k] = a[k] - p + 1 /\ d[k] = b[k] - p + 1  BY <2>6
    <3>2. /\ a[k] \in Int /\ b[k] \in Int /\ a[k] <= b[k]
          /\ p <= a[k] /\ b[k] <= q
      BY <2>5
    <3> QED  BY <2>2, <2>4, <3>1, <3>2, SMTT(30)
  <2>8. c \in [1..n -> 1..Len(s)] /\ d \in [1..n -> 1..Len(s)]
    <3> HIDE DEF s
    <3> QED  BY <2>7
  <2> HIDE DEF c, d, s
  <2>9. \A k \in 1..n : c[k] <= d[k]
    <3> TAKE k \in 1..n
    <3>1. c[k] = a[k] - p + 1 /\ d[k] = b[k] - p + 1  BY <2>6
    <3>2. a[k] \in Int /\ b[k] \in Int /\ a[k] <= b[k]  BY <2>5
    <3> QED  BY <2>4, <3>1, <3>2
  <2>10. \A j, k \in 1..n : j < k => d[j] + 1 < c[k]
    <3> SUFFICES ASSUME NEW j \in 1..n, NEW k \in 1..n, j < k PROVE d[j] + 1 < c[k]
      OBVIOUS
    <3>1. b[j] + 1 < a[k]  BY <1>1 DEF Splits
    <3> QED  BY <2>4, <2>5, <2>6, <3>1, SMTT(30)
  <2>11. ASSUME NEW k \in 1..n, NEW i \in c[k]..d[k] PROVE s[i] # Blank
    <3>1. i \in 1..(q - p + 1) /\ p + i - 1 \in a[k]..b[k]  BY <2>4, <2>5, <2>6
    <3>2. t[p + i - 1] # Blank  BY <1>1, <3>1 DEF Splits
    <3> QED  BY <2>2, <3>1, <3>2
  <2>12. ASSUME NEW i \in 1..Len(s), s[i] # Blank PROVE \E k \in 1..n : i \in c[k]..d[k]
    <3>1. i \in 1..(q - p + 1)  BY <2>2
    <3>2. t[p + i - 1] # Blank  BY <2>2, <2>12, <3>1
    <3>3. p + i - 1 \in 1..Len(t)  BY <1>0, <2>4, <3>1
    <3>4. PICK k \in 1..n : p + i - 1 \in a[k]..b[k]  BY <1>1, <3>2, <3>3 DEF Splits
    <3>5. i \in c[k]..d[k]  BY <2>4, <2>5, <2>6, <3>1, <3>4, SMTT(30)
    <3> QED  BY <3>5
  <2>13. Splits(s, Len(s), n, c, d)
    BY <2>8, <2>9, <2>10, <2>11, <2>12 DEF Splits
  <2>14. Blocks(s) = [k \in 1..n |-> SubSeq(s, c[k], d[k])] /\ Paragraphs(s) = n
    BY <2>3, <2>13, BlocksOfSplit
  <2>15. ASSUME NEW k \in 1..n PROVE SubSeq(s, c[k], d[k]) = SubSeq(t, a[k], b[k])
    <3>1. c[k] \in 1..Len(s) /\ d[k] \in 1..Len(s) /\ c[k] <= d[k]  BY <2>7, <2>9
    <3>2. /\ SubSeq(s, c[k], d[k]) \in Seq(Lines)
          /\ Len(SubSeq(s, c[k], d[k])) = d[k] - c[k] + 1
          /\ \A i \in 1..(d[k] - c[k] + 1) : SubSeq(s, c[k], d[k])[i] = s[c[k] + i - 1]
      BY <2>3, <3>1, PartOf DEF Texts
    <3>3. /\ SubSeq(t, a[k], b[k]) \in Seq(Lines)
          /\ Len(SubSeq(t, a[k], b[k])) = b[k] - a[k] + 1
          /\ \A i \in 1..(b[k] - a[k] + 1) : SubSeq(t, a[k], b[k])[i] = t[a[k] + i - 1]
      <4>1. a[k] \in 1..Len(t) /\ b[k] \in 1..Len(t) /\ a[k] <= b[k]  BY <2>5
      <4>2. t \in Seq(Lines)  BY <1>0
      <4>3. /\ SubSeq(t, a[k], b[k]) \in Texts
            /\ Len(SubSeq(t, a[k], b[k])) = b[k] - a[k] + 1
            /\ \A i \in 1..(b[k] - a[k] + 1) : SubSeq(t, a[k], b[k])[i] = t[a[k] + i - 1]
        BY <4>1, <4>2, PartOf
      <4> QED  BY <4>3 DEF Texts
    <3>4. d[k] - c[k] + 1 = b[k] - a[k] + 1  BY <2>4, <2>5, <2>6
    <3>5. ASSUME NEW i \in 1..(b[k] - a[k] + 1) PROVE s[c[k] + i - 1] = t[a[k] + i - 1]
      <4>0. /\ a[k] \in Int /\ b[k] \in Int /\ p <= a[k] /\ b[k] <= q
            /\ c[k] = a[k] - p + 1 /\ i \in Int /\ 1 <= i /\ i <= b[k] - a[k] + 1
        BY <2>5, <2>6
      <4>1. c[k] + i - 1 \in 1..(q - p + 1)  BY <2>4, <4>0, SMTT(30)
      <4>2. p + (c[k] + i - 1) - 1 = a[k] + i - 1  BY <2>4, <2>5, <2>6, SMTT(30)
      <4> QED  BY <2>2, <4>1, <4>2
    <3> DEFINE x == SubSeq(s, c[k], d[k])
               y == SubSeq(t, a[k], b[k])
    <3> HIDE DEF x, y
    <3>6. x \in Seq(Lines) /\ y \in Seq(Lines) /\ Len(x) = b[k] - a[k] + 1 /\ Len(y) = Len(x)
      BY <3>2, <3>3, <3>4 DEF x, y
    <3>7. \A i \in 1..Len(x) : x[i] = y[i]  BY <3>2, <3>3, <3>4, <3>5, <3>6 DEF x, y
    <3>8. x = y  BY <3>6, <3>7, SeqEqual
    <3> QED  BY <3>8 DEF x, y
  <2>16. Blocks(s) = Blocks(t) /\ Paragraphs(s) = Paragraphs(t)
    BY <1>2, <2>14, <2>15
  <2> QED  BY <2>1, <2>16 DEF s
<1> QED  BY <1>4, <1>5

\* A text of one paragraph is trimmed to that paragraph.
LEMMA OneParagraph ==
    ASSUME NEW t \in Texts, Paragraphs(t) = 1
    PROVE  \E p, q \in 1..Len(t) :
              /\ p <= q /\ Trim(t) = SubSeq(t, p, q)
              /\ \A i \in 1..Len(t) : t[i] # Blank <=> i \in p..q
PROOF
<1>0. t \in Seq(Lines) /\ Len(t) \in Nat /\ DOMAIN t = 1..Len(t)
  BY LenProperties DEF Texts
<1>1n. PICK n \in Nat : \E a, b : Splits(t, Len(t), n, a, b)
  BY <1>0, SplitExists DEF IsSplit
<1>1. PICK a, b : Splits(t, Len(t), n, a, b)  BY <1>1n
<1>2. n = 1  BY <1>0, <1>1, BlocksOfSplit
<1>3. 1 \in 1..n  BY <1>2
<1>4. a[1] \in 1..Len(t) /\ b[1] \in 1..Len(t) /\ a[1] <= b[1]
  BY <1>1, <1>3 DEF Splits
<1>5. \A i \in a[1]..b[1] : t[i] # Blank  BY <1>1, <1>3 DEF Splits
<1>6. ASSUME NEW i \in 1..Len(t), t[i] # Blank PROVE i \in a[1]..b[1]
  <2>1. PICK k \in 1..n : i \in a[k]..b[k]  BY <1>1, <1>6 DEF Splits
  <2>2. k = 1  BY <1>2
  <2> QED  BY <2>1, <2>2
<1>7. a[1] \in a[1]..b[1] /\ b[1] \in a[1]..b[1]  BY <1>0, <1>4
<1>8. ~IsBlank(t)  BY <1>0, <1>4, <1>5, <1>7 DEF IsBlank
<1>9. PICK p \in 1..Len(t), q \in 1..Len(t) :
         /\ p <= q
         /\ Trim(t) = SubSeq(t, p, q)
         /\ t[p] # Blank /\ t[q] # Blank
         /\ \A i \in 1..Len(t) : t[i] # Blank => p <= i /\ i <= q
  BY <1>8, TrimIs
<1>10. p \in a[1]..b[1] /\ q \in a[1]..b[1]  BY <1>6, <1>9
<1>11. p <= a[1] /\ b[1] <= q  BY <1>4, <1>5, <1>7, <1>9
<1>12. p = a[1] /\ q = b[1]  BY <1>0, <1>4, <1>10, <1>11
<1> QED  BY <1>5, <1>6, <1>9, <1>12
-----------------------------------------------------------------------------
(* Joining. *)

\* The text after its first m parts.
Joins(f, m, texts) ==
    /\ f \in [1..m -> Seq(Lines)]
    /\ \A k \in 1..m :
          f[k] = IF k = 1 THEN texts[1] ELSE f[k - 1] \o EmptyText \o texts[k]

LEMMA AppendText ==
    ASSUME NEW j \in Seq(Lines), NEW t \in Seq(Lines)
    PROVE  /\ j \o EmptyText \o t \in Seq(Lines)
           /\ Len(j \o EmptyText \o t) = Len(j) + 1 + Len(t)
           /\ \A i \in 1..Len(j) : (j \o EmptyText \o t)[i] = j[i]
           /\ (j \o EmptyText \o t)[Len(j) + 1] = Blank
           /\ \A i \in 1..Len(t) : (j \o EmptyText \o t)[Len(j) + 1 + i] = t[i]
PROOF
<1>0. Len(j) \in Nat /\ Len(t) \in Nat  BY LenProperties
<1>1. EmptyText \in Seq(Lines) /\ Len(EmptyText) = 1 /\ EmptyText[1] = Blank
  BY EmptyTextFacts DEF Texts
<1> DEFINE g == j \o EmptyText
<1>2. /\ g \in Seq(Lines) /\ Len(g) = Len(j) + 1
      /\ \A i \in 1..(Len(j) + 1) : g[i] = IF i <= Len(j) THEN j[i] ELSE EmptyText[i - Len(j)]
  <2>1. /\ g \in Seq(Lines) /\ Len(g) = Len(j) + Len(EmptyText)
        /\ \A i \in 1..(Len(j) + Len(EmptyText)) :
              g[i] = IF i <= Len(j) THEN j[i] ELSE EmptyText[i - Len(j)]
    BY <1>1, ConcatProperties
  <2> HIDE DEF g
  <2> QED  BY <1>1, <2>1
<1> HIDE DEF g
<1>3. (\A i \in 1..Len(j) : g[i] = j[i]) /\ g[Len(j) + 1] = Blank
  <2>1. \A i \in 1..Len(j) : i \in 1..(Len(j) + 1) /\ i <= Len(j)  BY <1>0
  <2>2. /\ Len(j) + 1 \in 1..(Len(j) + 1) /\ ~(Len(j) + 1 <= Len(j))
        /\ (Len(j) + 1) - Len(j) = 1
    BY <1>0
  <2> QED  BY <1>1, <1>2, <2>1, <2>2
<1> DEFINE h == g \o t
<1>4. /\ h \in Seq(Lines) /\ Len(h) = Len(g) + Len(t)
      /\ \A i \in 1..(Len(g) + Len(t)) : h[i] = IF i <= Len(g) THEN g[i] ELSE t[i - Len(g)]
  <2>1. g \in Seq(Lines)  BY <1>2
  <2> QED  BY <2>1, ConcatProperties
<1> HIDE DEF h
<1>5. \A i \in 1..(Len(j) + 1) : h[i] = g[i]
  <2>1. \A i \in 1..(Len(j) + 1) : i \in 1..(Len(g) + Len(t)) /\ i <= Len(g)  BY <1>0, <1>2
  <2> QED  BY <1>4, <2>1
<1>6. \A i \in 1..Len(t) : h[Len(j) + 1 + i] = t[i]
  <2> TAKE i \in 1..Len(t)
  <2>1. /\ Len(j) + 1 + i \in 1..(Len(g) + Len(t)) /\ ~(Len(j) + 1 + i <= Len(g))
        /\ (Len(j) + 1 + i) - Len(g) = i
    BY <1>0, <1>2
  <2> QED  BY <1>4, <2>1
<1>7. (\A i \in 1..Len(j) : h[i] = j[i]) /\ h[Len(j) + 1] = Blank
  <2>1. \A i \in 1..Len(j) : i \in 1..(Len(j) + 1)  BY <1>0
  <2>2. Len(j) + 1 \in 1..(Len(j) + 1)  BY <1>0
  <2> QED  BY <1>3, <1>5, <2>1, <2>2
<1>8. h = j \o EmptyText \o t  BY DEF h, g
<1> QED  BY <1>2, <1>4, <1>6, <1>7, <1>8

LEMMA JoinsStep ==
    ASSUME NEW texts, NEW m \in Nat, NEW f, Joins(f, m, texts),
           \A k \in 1..(m + 1) : texts[k] \in Seq(Lines)
    PROVE  \E g : Joins(g, m + 1, texts)
PROOF
<1> DEFINE last == IF m + 1 = 1 THEN texts[1] ELSE f[m] \o EmptyText \o texts[m + 1]
           g == [k \in 1..(m + 1) |-> IF k = m + 1 THEN last ELSE f[k]]
<1>1. f \in [1..m -> Seq(Lines)]  BY DEF Joins
<1>2. last \in Seq(Lines)
  <2>1. 1 \in 1..(m + 1) /\ m + 1 \in 1..(m + 1)  OBVIOUS
  <2>2. CASE m = 0  BY <2>1, <2>2
  <2>3. CASE m # 0
    <3>1. m \in 1..m /\ m + 1 # 1  BY <2>3
    <3>2. f[m] \in Seq(Lines)  BY <1>1, <3>1
    <3> QED  BY <2>1, <3>1, <3>2, AppendText
  <2> QED  BY <2>2, <2>3
<1>3. /\ g[m + 1] = last
      /\ \A k \in 1..m : g[k] = f[k]
  <2>1. m + 1 \in 1..(m + 1) /\ \A k \in 1..m : k \in 1..(m + 1) /\ k # m + 1  OBVIOUS
  <2> HIDE DEF last
  <2> QED  BY <2>1
<1>4. g \in [1..(m + 1) -> Seq(Lines)]
  <2>1. \A k \in 1..(m + 1) : k = m + 1 \/ k \in 1..m  OBVIOUS
  <2> HIDE DEF last
  <2> QED  BY <1>1, <1>2, <2>1
<1> HIDE DEF g
<1>5. ASSUME NEW k \in 1..(m + 1)
      PROVE  g[k] = IF k = 1 THEN texts[1] ELSE g[k - 1] \o EmptyText \o texts[k]
  <2>1. CASE k = m + 1
    <3>1. CASE k = 1  BY <1>3, <2>1, <3>1
    <3>2. CASE k # 1
      <4>1. k - 1 = m /\ m \in 1..m  BY <2>1, <3>2
      <4>2. g[k - 1] = f[m]  BY <1>3, <4>1
      <4> QED  BY <1>3, <2>1, <3>2, <4>2
    <3> QED  BY <3>1, <3>2
  <2>2. CASE k # m + 1
    <3>1. k \in 1..m  BY <2>2
    <3>2. g[k] = IF k = 1 THEN texts[1] ELSE f[k - 1] \o EmptyText \o texts[k]
      BY <1>3, <3>1 DEF Joins
    <3>3. k # 1 => g[k - 1] = f[k - 1]
      <4>1. k # 1 => k - 1 \in 1..m  BY <3>1
      <4> QED  BY <1>3, <4>1
    <3> QED  BY <3>2, <3>3
  <2> QED  BY <2>1, <2>2
<1>6. Joins(g, m + 1, texts)  BY <1>4, <1>5 DEF Joins
<1> QED  BY <1>6

LEMMA JoinsExists ==
    ASSUME NEW texts, NEW n \in Nat, \A k \in 1..n : texts[k] \in Seq(Lines)
    PROVE  \E f : Joins(f, n, texts)
PROOF
<1> DEFINE Fails == {m \in Nat : m <= n /\ ~ \E f : Joins(f, m, texts)}
<1> SUFFICES ASSUME Fails # {} PROVE FALSE
  <2>1. n \in Nat /\ n <= n  OBVIOUS
  <2> QED  BY <2>1
<1>1. PICK m \in Fails : \A k \in Fails : m <= k
  BY LeastOf
<1>2. Joins(<<>>, 0, texts)
  <2>1. 1..0 = {}  OBVIOUS
  <2>2. <<>> \in [1..0 -> Seq(Lines)]  BY <2>1
  <2> QED  BY <2>1, <2>2 DEF Joins
<1>3. m # 0 /\ m - 1 \in Nat /\ m \in Nat /\ m <= n  BY <1>2
<1>4. ~(m <= m - 1) /\ m - 1 <= n  BY <1>3
<1>5. PICK f : Joins(f, m - 1, texts)  BY <1>1, <1>3, <1>4
<1>6. (m - 1) + 1 = m  BY <1>3
<1>7. \A k \in 1..m : texts[k] \in Seq(Lines)  BY <1>3
<1>8. \E g : Joins(g, (m - 1) + 1, texts)  BY <1>3, <1>5, <1>6, <1>7, JoinsStep
<1>9. ~ \E g : Joins(g, m, texts)  OBVIOUS
<1> QED  BY <1>6, <1>8, <1>9

\* Join is what its recursion says.
LEMMA JoinIs ==
    ASSUME NEW texts \in Seq(Texts), texts # <<>>
    PROVE  \E f : Joins(f, Len(texts), texts) /\ Join(texts) = f[Len(texts)]
PROOF
<1> DEFINE Eq(f) == f = [n \in DOMAIN texts |->
                           IF n = 1 THEN texts[1] ELSE f[n - 1] \o EmptyText \o texts[n]]
<1>1. Len(texts) \in Nat /\ DOMAIN texts = 1..Len(texts)  BY LenProperties
<1>2. \A k \in 1..Len(texts) : texts[k] \in Seq(Lines)
  BY ElementOfSeq DEF Texts
<1>3. PICK g : Joins(g, Len(texts), texts)  BY <1>1, <1>2, JoinsExists
<1>4. Eq(g)
  <2>1. g = [k \in 1..Len(texts) |-> g[k]]  BY <1>3 DEF Joins
  <2>2. \A k \in 1..Len(texts) :
           g[k] = IF k = 1 THEN texts[1] ELSE g[k - 1] \o EmptyText \o texts[k]
    BY <1>3 DEF Joins
  <2> QED  BY <1>1, <2>1, <2>2
<1> DEFINE f == CHOOSE f : Eq(f)
<1>5. Eq(f)  BY <1>4
<1>6. Join(texts) = f[Len(texts)]  BY DEF Join
<1> HIDE DEF f
<1>7. DOMAIN f = 1..Len(texts)  BY <1>1, <1>5
<1>8. \A k \in 1..Len(texts) :
         f[k] = IF k = 1 THEN texts[1] ELSE f[k - 1] \o EmptyText \o texts[k]
  BY <1>1, <1>5
<1>9. \A k \in 1..Len(texts) : f[k] \in Seq(Lines)
  <2> DEFINE Fails == {k \in 1..Len(texts) : f[k] \notin Seq(Lines)}
  <2> SUFFICES ASSUME Fails # {} PROVE FALSE
    OBVIOUS
  <2>1. Fails \in SUBSET Nat  BY <1>1
  <2>2. PICK k \in Fails : \A l \in Fails : k <= l  BY <2>1, LeastOf
  <2>3. k \in 1..Len(texts) /\ f[k] \notin Seq(Lines) /\ k \in Nat  BY <1>1
  <2>4. k # 1  BY <1>2, <1>8, <2>3
  <2>5. k - 1 \in 1..Len(texts) /\ ~(k <= k - 1)  BY <1>1, <2>3, <2>4
  <2>6. f[k - 1] \in Seq(Lines)  BY <2>2, <2>5
  <2>7. f[k] = f[k - 1] \o EmptyText \o texts[k]  BY <1>8, <2>3, <2>4
  <2> QED  BY <1>2, <2>3, <2>6, <2>7, AppendText
<1>10. f = [k \in DOMAIN f |-> f[k]]  BY <1>5
<1>11. f \in [1..Len(texts) -> Seq(Lines)]  BY <1>7, <1>9, <1>10
<1>12. Joins(f, Len(texts), texts)  BY <1>8, <1>11 DEF Joins
<1> QED  BY <1>6, <1>12

\* Where the first m texts are in the joined text j: text i after the line off[i],
\* each after the one before and a blank line, with nothing but blank lines elsewhere.
Placed(j, m, off, texts) ==
    /\ off \in [1..m -> Nat]
    /\ \A i \in 1..m : off[i] + Len(texts[i]) <= Len(j)
    /\ \A i, k \in 1..m : i < k => off[i] + Len(texts[i]) < off[k]
    /\ \A i \in 1..m : \A x \in 1..Len(texts[i]) : j[off[i] + x] = texts[i][x]
    /\ \A y \in 1..Len(j) :
          j[y] = Blank \/ \E i \in 1..m : off[i] < y /\ y <= off[i] + Len(texts[i])

LEMMA PlaceFirst ==
    ASSUME NEW texts \in Seq(Texts), texts # <<>>
    PROVE  Placed(texts[1], 1, [i \in 1..1 |-> 0], texts)
PROOF
<1>1. 1 \in 1..Len(texts)  BY EmptySeq
<1>2. texts[1] \in Seq(Lines)  BY <1>1, ElementOfSeq DEF Texts
<1>3. Len(texts[1]) \in Nat  BY <1>2, LenProperties
<1> DEFINE off == [i \in 1..1 |-> 0]
<1>4. off \in [1..1 -> Nat] /\ \A i \in 1..1 : i = 1 /\ off[i] = 0  OBVIOUS
<1> HIDE DEF off
<1>5. \A i \in 1..1 : off[i] + Len(texts[i]) <= Len(texts[1])  BY <1>3, <1>4
<1>6. \A i, k \in 1..1 : ~(i < k)  OBVIOUS
<1>7. \A i \in 1..1 : \A x \in 1..Len(texts[i]) : texts[1][off[i] + x] = texts[i][x]
  <2> TAKE i \in 1..1
  <2> TAKE x \in 1..Len(texts[i])
  <2>1. i = 1 /\ off[i] + x = x  BY <1>3, <1>4
  <2> QED  BY <2>1
<1>8. \A y \in 1..Len(texts[1]) : \E i \in 1..1 : off[i] < y /\ y <= off[i] + Len(texts[i])
  <2> TAKE y \in 1..Len(texts[1])
  <2>1. 1 \in 1..1 /\ off[1] = 0  BY <1>4
  <2>2. off[1] < y /\ y <= off[1] + Len(texts[1])  BY <1>3, <2>1
  <2> QED  BY <2>1, <2>2
<1>9. Placed(texts[1], 1, off, texts)  BY <1>4, <1>5, <1>6, <1>7, <1>8 DEF Placed
<1> QED  BY <1>9 DEF off

LEMMA PlaceNext ==
    ASSUME NEW texts \in Seq(Texts), NEW m \in Nat, m + 1 \in 1..Len(texts),
           NEW j \in Seq(Lines), NEW off, Placed(j, m, off, texts)
    PROVE  \E new : Placed(j \o EmptyText \o texts[m + 1], m + 1, new, texts)
PROOF
<1> DEFINE t == texts[m + 1]
           h == j \o EmptyText \o t
           new == [i \in 1..(m + 1) |-> IF i = m + 1 THEN Len(j) + 1 ELSE off[i]]
<1>1. \A i \in 1..(m + 1) : texts[i] \in Seq(Lines) /\ Len(texts[i]) \in Nat
  <2>1. Len(texts) \in Nat  BY LenProperties
  <2>2. \A i \in 1..(m + 1) : i \in 1..Len(texts)  BY <2>1
  <2> QED  BY <2>2, ElementOfSeq, LenProperties DEF Texts
<1>2. t \in Seq(Lines) /\ Len(t) \in Nat /\ Len(j) \in Nat
  <2>1. m + 1 \in 1..(m + 1)  OBVIOUS
  <2> QED  BY <1>1, <2>1, LenProperties
<1>3. /\ h \in Seq(Lines) /\ Len(h) = Len(j) + 1 + Len(t)
      /\ \A i \in 1..Len(j) : h[i] = j[i]
      /\ h[Len(j) + 1] = Blank
      /\ \A i \in 1..Len(t) : h[Len(j) + 1 + i] = t[i]
  <2> HIDE DEF t
  <2> QED  BY <1>2, AppendText
<1> DEFINE lj == Len(j)
           lt == Len(texts[m + 1])
<1>3a. lj \in Nat /\ lt \in Nat /\ Len(h) = lj + 1 + lt  BY <1>2, <1>3
<1>4. off \in [1..m -> Nat]  BY DEF Placed
<1>5. \A i \in 1..(m + 1) : i = m + 1 \/ i \in 1..m  OBVIOUS
<1>6. new[m + 1] = Len(j) + 1 /\ \A i \in 1..m : new[i] = off[i] /\ off[i] \in Nat
  <2>1. m + 1 \in 1..(m + 1) /\ \A k \in 1..m : k \in 1..(m + 1) /\ k # m + 1  OBVIOUS
  <2> QED  BY <1>4, <2>1
<1>7. new \in [1..(m + 1) -> Nat]  BY <1>2, <1>4, <1>5
<1> HIDE DEF new, h
<1>8. \A i \in 1..m : /\ off[i] + Len(texts[i]) <= Len(j)
                      /\ i \in 1..(m + 1) /\ Len(texts[i]) \in Nat
  BY <1>1 DEF Placed
<1>9. \A i \in 1..(m + 1) : new[i] + Len(texts[i]) <= Len(h)
  <2> TAKE i \in 1..(m + 1)
  <2>1. CASE i = m + 1
    <3>1. new[i] = lj + 1 /\ Len(texts[i]) = lt  BY <1>6, <2>1
    <3> HIDE DEF lj, lt
    <3> QED  BY <1>3a, <3>1
  <2>2. CASE i \in 1..m
    <3>1. off[i] + Len(texts[i]) <= Len(j) /\ Len(texts[i]) \in Nat /\ new[i] = off[i] /\ off[i] \in Nat
      BY <1>6, <1>8, <2>2
    <3> HIDE DEF t
    <3> QED  BY <1>2, <1>3, <3>1
  <2> QED  BY <1>5, <2>1, <2>2
<1>10. \A i, k \in 1..(m + 1) : i < k => new[i] + Len(texts[i]) < new[k]
  <2> SUFFICES ASSUME NEW i \in 1..(m + 1), NEW k \in 1..(m + 1), i < k
               PROVE  new[i] + Len(texts[i]) < new[k]
    OBVIOUS
  <2>1. i \in 1..m  OBVIOUS
  <2>2. off[i] + Len(texts[i]) <= Len(j) /\ Len(texts[i]) \in Nat /\ new[i] = off[i] /\ off[i] \in Nat
    BY <1>6, <1>8, <2>1
  <2>3. CASE k = m + 1
    <3>1. new[k] = Len(j) + 1  BY <1>6, <2>3
    <3> QED  BY <1>2, <2>2, <3>1
  <2>4. CASE k \in 1..m
    <3>1. off[i] + Len(texts[i]) < off[k]  BY <2>1, <2>4 DEF Placed
    <3>2. new[k] = off[k]  BY <1>6, <2>4
    <3> QED  BY <2>2, <3>1, <3>2
  <2> QED  BY <1>5, <2>3, <2>4
<1>11. \A i \in 1..(m + 1) : \A x \in 1..Len(texts[i]) : h[new[i] + x] = texts[i][x]
  <2> TAKE i \in 1..(m + 1)
  <2> TAKE x \in 1..Len(texts[i])
  <2>1. CASE i = m + 1  BY <1>3, <1>6, <2>1
  <2>2. CASE i \in 1..m
    <3>1. off[i] + Len(texts[i]) <= Len(j) /\ Len(texts[i]) \in Nat /\ new[i] = off[i] /\ off[i] \in Nat
      BY <1>6, <1>8, <2>2
    <3>2. off[i] + x \in 1..Len(j)  BY <1>2, <3>1, SMTT(30)
    <3>3. h[off[i] + x] = j[off[i] + x]  BY <1>3, <3>2
    <3>4. j[off[i] + x] = texts[i][x]  BY <2>2 DEF Placed
    <3> QED  BY <3>1, <3>3, <3>4
  <2> QED  BY <1>5, <2>1, <2>2
<1>12. \A y \in 1..Len(h) :
          h[y] = Blank \/ \E i \in 1..(m + 1) : new[i] < y /\ y <= new[i] + Len(texts[i])
  <2> TAKE y \in 1..Len(h)
  <2> SUFFICES ASSUME h[y] # Blank
               PROVE  \E i \in 1..(m + 1) : new[i] < y /\ y <= new[i] + Len(texts[i])
    OBVIOUS
  <2>1. y \in Nat /\ 1 <= y /\ y <= lj + 1 + lt
    <3> HIDE DEF lj, lt
    <3> QED  BY <1>3a
  <2>2. CASE y <= Len(j)
    <3>1. y \in 1..Len(j)  BY <1>2, <2>1, <2>2
    <3>2. j[y] # Blank  BY <1>3, <3>1
    <3>3. PICK i \in 1..m : off[i] < y /\ y <= off[i] + Len(texts[i])
      BY <3>1, <3>2 DEF Placed
    <3> QED  BY <1>6, <1>8, <3>3
  <2>3. CASE ~(y <= Len(j))
    <3>1. y # Len(j) + 1  BY <1>3
    <3>2. m + 1 \in 1..(m + 1)  OBVIOUS
    <3>3. new[m + 1] < y /\ y <= new[m + 1] + Len(texts[m + 1])
      <4>1. new[m + 1] = lj + 1 /\ ~(y <= lj) /\ y # lj + 1  BY <1>6, <2>3, <3>1
      <4>2. lj + 1 < y /\ y <= (lj + 1) + lt
        <5> HIDE DEF lj, lt
        <5> QED  BY <1>3a, <2>1, <4>1
      <4> QED  BY <4>1, <4>2
    <3> QED  BY <3>2, <3>3
  <2> QED  BY <2>2, <2>3
<1>13. Placed(h, m + 1, new, texts)  BY <1>7, <1>9, <1>10, <1>11, <1>12 DEF Placed
<1> QED  BY <1>13 DEF h

LEMMA JoinPlaces ==
    ASSUME NEW texts \in Seq(Texts), texts # <<>>
    PROVE  /\ Join(texts) \in Seq(Lines)
           /\ \E off : Placed(Join(texts), Len(texts), off, texts)
PROOF
<1>1. PICK f : Joins(f, Len(texts), texts) /\ Join(texts) = f[Len(texts)]  BY JoinIs
<1>2. Len(texts) \in Nat /\ 1 \in 1..Len(texts) /\ Len(texts) \in 1..Len(texts)  BY EmptySeq
<1>3. f \in [1..Len(texts) -> Seq(Lines)]  BY <1>1 DEF Joins
<1> DEFINE Fails == {k \in 1..Len(texts) : ~ \E off : Placed(f[k], k, off, texts)}
<1>4. Fails = {}
  <2> SUFFICES ASSUME Fails # {} PROVE FALSE
    OBVIOUS
  <2>1. Fails \in SUBSET Nat  BY <1>2
  <2>2. PICK k \in Fails : \A l \in Fails : k <= l  BY <2>1, LeastOf
  <2>3. k \in 1..Len(texts) /\ k \in Nat /\ ~ \E off : Placed(f[k], k, off, texts)
    BY <1>2
  <2>4. k # 1
    <3>1. f[1] = texts[1]  BY <1>1, <1>2 DEF Joins
    <3>2. Placed(texts[1], 1, [i \in 1..1 |-> 0], texts)  BY PlaceFirst
    <3> QED  BY <2>3, <3>1, <3>2
  <2>5. k - 1 \in 1..Len(texts) /\ k - 1 \in Nat /\ ~(k <= k - 1) /\ (k - 1) + 1 = k
    BY <1>2, <2>3, <2>4
  <2>6. PICK off : Placed(f[k - 1], k - 1, off, texts)  BY <2>2, <2>5
  <2>7. f[k] = f[k - 1] \o EmptyText \o texts[k]  BY <1>1, <2>3, <2>4 DEF Joins
  <2>8. f[k - 1] \in Seq(Lines)  BY <1>3, <2>5
  <2>9. \E new : Placed(f[k - 1] \o EmptyText \o texts[(k - 1) + 1], (k - 1) + 1, new, texts)
    BY <2>3, <2>5, <2>6, <2>8, PlaceNext
  <2> QED  BY <2>3, <2>5, <2>7, <2>9
<1>5. \E off : Placed(f[Len(texts)], Len(texts), off, texts)  BY <1>2, <1>4
<1> QED  BY <1>1, <1>2, <1>3, <1>5

\* Texts of one paragraph each, joined: their paragraphs are the blocks.
LEMMA JoinedParagraphs ==
    ASSUME NEW texts \in Seq(Texts), texts # <<>>,
           \A i \in 1..Len(texts) : Paragraphs(texts[i]) = 1
    PROVE  Blocks(Join(texts)) = [i \in 1..Len(texts) |-> Trim(texts[i])]
PROOF
<1> DEFINE j == Join(texts)
           n == Len(texts)
<1>1. n \in Nat /\ j \in Seq(Lines) /\ Len(j) \in Nat  BY JoinPlaces, LenProperties
<1>2. PICK off : Placed(j, n, off, texts)  BY JoinPlaces
<1>3. \A i \in 1..n : texts[i] \in Texts /\ texts[i] \in Seq(Lines) /\ Len(texts[i]) \in Nat
  BY ElementOfSeq, LenProperties DEF Texts
<1> HIDE DEF j, n
<1> DEFINE OnlyIn(i, p, q) == /\ p \in 1..Len(texts[i]) /\ q \in 1..Len(texts[i]) /\ p <= q
                              /\ Trim(texts[i]) = SubSeq(texts[i], p, q)
                              /\ \A x \in 1..Len(texts[i]) : texts[i][x] # Blank <=> x \in p..q
           from == [i \in 1..n |-> CHOOSE p \in Nat : \E q \in Nat : OnlyIn(i, p, q)]
           to == [i \in 1..n |-> CHOOSE q \in Nat : OnlyIn(i, from[i], q)]
<1>4. ASSUME NEW i \in 1..n PROVE OnlyIn(i, from[i], to[i])
  <2>1. PICK p \in 1..Len(texts[i]), q \in 1..Len(texts[i]) : OnlyIn(i, p, q)
    BY <1>3, OneParagraph DEF n
  <2>2. p \in Nat /\ q \in Nat  BY <1>3
  <2>3. \E x \in Nat : \E y \in Nat : OnlyIn(i, x, y)  BY <2>1, <2>2
  <2> HIDE DEF OnlyIn
  <2>4. \E y \in Nat : OnlyIn(i, from[i], y)  BY <2>3
  <2> HIDE DEF from
  <2> QED  BY <2>4
<1> HIDE DEF from, to
<1> DEFINE a == [i \in 1..n |-> off[i] + from[i]]
           b == [i \in 1..n |-> off[i] + to[i]]
<1>5. off \in [1..n -> Nat]  BY <1>2 DEF Placed
<1>6. \A i \in 1..n : /\ a[i] = off[i] + from[i] /\ b[i] = off[i] + to[i]
                      /\ off[i] \in Nat /\ from[i] \in Nat /\ to[i] \in Nat
                      /\ 1 <= from[i] /\ from[i] <= to[i] /\ to[i] <= Len(texts[i])
                      /\ off[i] + Len(texts[i]) <= Len(j)
                      /\ Len(texts[i]) \in Nat
  <2> TAKE i \in 1..n
  <2>1. OnlyIn(i, from[i], to[i])  BY <1>4
  <2>2. from[i] \in 1..Len(texts[i]) /\ to[i] \in 1..Len(texts[i]) /\ from[i] <= to[i]
    BY <2>1
  <2>3. off[i] \in Nat /\ off[i] + Len(texts[i]) <= Len(j)  BY <1>2, <1>5 DEF Placed
  <2> QED  BY <1>3, <2>2, <2>3
<1>7. \A i \in 1..n : a[i] \in 1..Len(j) /\ b[i] \in 1..Len(j) /\ a[i] <= b[i]
  <2> TAKE i \in 1..n
  <2> HIDE DEF a, b
  <2>1. /\ a[i] = off[i] + from[i] /\ b[i] = off[i] + to[i]
        /\ off[i] \in Nat /\ from[i] \in Nat /\ to[i] \in Nat
        /\ 1 <= from[i] /\ from[i] <= to[i] /\ to[i] <= Len(texts[i])
        /\ off[i] + Len(texts[i]) <= Len(j) /\ Len(texts[i]) \in Nat
    BY <1>6
  <2> QED  BY <1>1, <2>1, SMTT(30)
<1>8. a \in [1..n -> 1..Len(j)] /\ b \in [1..n -> 1..Len(j)]  BY <1>7
<1> HIDE DEF a, b
<1>9. \A i, k \in 1..n : i < k => b[i] + 1 < a[k]
  <2> SUFFICES ASSUME NEW i \in 1..n, NEW k \in 1..n, i < k PROVE b[i] + 1 < a[k]
    OBVIOUS
  <2>1. off[i] + Len(texts[i]) < off[k]  BY <1>2 DEF Placed
  <2>2. /\ b[i] = off[i] + to[i] /\ to[i] <= Len(texts[i]) /\ off[i] \in Nat /\ to[i] \in Nat
        /\ Len(texts[i]) \in Nat
    BY <1>6
  <2>3. a[k] = off[k] + from[k] /\ 1 <= from[k] /\ off[k] \in Nat /\ from[k] \in Nat  BY <1>6
  <2> QED  BY <2>1, <2>2, <2>3, SMTT(30)
<1>10. \A i \in 1..n : \A y \in 1..Len(j) :
          off[i] < y /\ y <= off[i] + Len(texts[i]) =>
             /\ y - off[i] \in 1..Len(texts[i])
             /\ j[y] = texts[i][y - off[i]]
  <2> TAKE i \in 1..n
  <2> TAKE y \in 1..Len(j)
  <2> HAVE off[i] < y /\ y <= off[i] + Len(texts[i])
  <2>1. off[i] \in Nat /\ Len(texts[i]) \in Nat  BY <1>6
  <2>2. y - off[i] \in 1..Len(texts[i]) /\ off[i] + (y - off[i]) = y  BY <1>1, <2>1
  <2> QED  BY <1>2, <2>2 DEF Placed
<1>11. ASSUME NEW i \in 1..n, NEW y \in a[i]..b[i]
       PROVE  /\ y \in 1..Len(j) /\ off[i] < y /\ y <= off[i] + Len(texts[i])
              /\ y - off[i] \in from[i]..to[i]
  <2>1. /\ a[i] = off[i] + from[i] /\ b[i] = off[i] + to[i]
        /\ off[i] \in Nat /\ from[i] \in Nat /\ to[i] \in Nat
        /\ 1 <= from[i] /\ from[i] <= to[i] /\ to[i] <= Len(texts[i])
        /\ off[i] + Len(texts[i]) <= Len(j)
        /\ Len(texts[i]) \in Nat
    BY <1>6
  <2> QED  BY <1>1, <2>1, SMTT(30)
<1>12. ASSUME NEW i \in 1..n, NEW y \in a[i]..b[i] PROVE j[y] # Blank
  <2>1. y - off[i] \in 1..Len(texts[i]) /\ j[y] = texts[i][y - off[i]]
    BY <1>10, <1>11
  <2>2. texts[i][y - off[i]] # Blank  BY <1>4, <1>11, <2>1
  <2> QED  BY <2>1, <2>2
<1>13. ASSUME NEW y \in 1..Len(j), j[y] # Blank PROVE \E i \in 1..n : y \in a[i]..b[i]
  <2>1. PICK i \in 1..n : off[i] < y /\ y <= off[i] + Len(texts[i])
    BY <1>2, <1>13 DEF Placed
  <2>2. y - off[i] \in 1..Len(texts[i]) /\ j[y] = texts[i][y - off[i]]
    BY <1>10, <2>1
  <2>3. y - off[i] \in from[i]..to[i]  BY <1>4, <1>13, <2>2
  <2>4. /\ a[i] = off[i] + from[i] /\ b[i] = off[i] + to[i]
        /\ off[i] \in Nat /\ from[i] \in Nat /\ to[i] \in Nat
    BY <1>6
  <2>5. y \in a[i]..b[i]  BY <1>1, <2>3, <2>4
  <2> QED  BY <2>5
<1>14. Splits(j, Len(j), n, a, b)
  BY <1>1, <1>7, <1>8, <1>9, <1>12, <1>13 DEF Splits
<1>15. Blocks(j) = [i \in 1..n |-> SubSeq(j, a[i], b[i])]
  BY <1>1, <1>14, BlocksOfSplit
<1>16. ASSUME NEW i \in 1..n PROVE SubSeq(j, a[i], b[i]) = Trim(texts[i])
  <2> DEFINE x == SubSeq(j, a[i], b[i])
             y == SubSeq(texts[i], from[i], to[i])
  <2>1. /\ a[i] = off[i] + from[i] /\ b[i] = off[i] + to[i]
        /\ off[i] \in Nat /\ from[i] \in Nat /\ to[i] \in Nat
    BY <1>6
  <2>2. /\ x \in Seq(Lines) /\ Len(x) = b[i] - a[i] + 1
        /\ \A k \in 1..(b[i] - a[i] + 1) : x[k] = j[a[i] + k - 1]
    <3>1. a[i] \in 1..Len(j) /\ b[i] \in 1..Len(j) /\ a[i] <= b[i]  BY <1>7
    <3> QED  BY <1>1, <3>1, PartOf DEF Texts
  <2>3. /\ y \in Seq(Lines) /\ Len(y) = to[i] - from[i] + 1
        /\ \A k \in 1..(to[i] - from[i] + 1) : y[k] = texts[i][from[i] + k - 1]
    <3>1. from[i] \in 1..Len(texts[i]) /\ to[i] \in 1..Len(texts[i]) /\ from[i] <= to[i]  BY <1>4
    <3>2. texts[i] \in Seq(Lines)  BY <1>3
    <3> QED  BY <3>1, <3>2, PartOf DEF Texts
  <2> HIDE DEF x, y
  <2>4. b[i] - a[i] + 1 = to[i] - from[i] + 1  BY <2>1
  <2>5. ASSUME NEW k \in 1..Len(x) PROVE x[k] = y[k]
    <3>1. k \in 1..(b[i] - a[i] + 1) /\ k \in 1..(to[i] - from[i] + 1)  BY <2>2, <2>4
    <3>2. a[i] + k - 1 \in a[i]..b[i] /\ (a[i] + k - 1) - off[i] = from[i] + k - 1
      BY <2>1, <3>1, SMTT(30)
    <3>3. j[a[i] + k - 1] = texts[i][from[i] + k - 1]
      BY <1>10, <1>11, <3>2
    <3> QED  BY <2>2, <2>3, <3>1, <3>3
  <2>6. x = y
    <3>1. Len(x) = Len(y)  BY <2>2, <2>3, <2>4
    <3> QED  BY <2>2, <2>3, <2>5, <3>1, SeqEqual
  <2>7. y = Trim(texts[i])  BY <1>4 DEF y
  <2> QED  BY <2>6, <2>7 DEF x
<1>17. Blocks(j) = [i \in 1..n |-> Trim(texts[i])]  BY <1>15, <1>16
<1> QED  BY <1>17 DEF j, n

\* A text that is joined is still there.
LEMMA JoinKeeps ==
    ASSUME NEW texts \in Seq(Texts), texts # <<>>
    PROVE  /\ Join(texts) \in Texts
           /\ \A i \in 1..Len(texts) : ~IsBlank(texts[i]) => ~IsBlank(Join(texts))
PROOF
<1>1. Join(texts) \in Seq(Lines)  BY JoinPlaces
<1>2. PICK off : Placed(Join(texts), Len(texts), off, texts)  BY JoinPlaces
<1>3. Len(Join(texts)) \in Nat /\ DOMAIN Join(texts) = 1..Len(Join(texts))
  BY <1>1, LenProperties
<1>4. ASSUME NEW i \in 1..Len(texts), NEW x \in 1..Len(texts[i])
      PROVE  off[i] + x \in 1..Len(Join(texts)) /\ Join(texts)[off[i] + x] = texts[i][x]
  <2>1. texts[i] \in Seq(Lines) /\ Len(texts[i]) \in Nat
    BY ElementOfSeq, LenProperties DEF Texts
  <2>2. off[i] \in Nat /\ off[i] + Len(texts[i]) <= Len(Join(texts))  BY <1>2 DEF Placed
  <2>3. off[i] + x \in 1..Len(Join(texts))  BY <1>3, <2>1, <2>2
  <2> QED  BY <1>2, <2>3 DEF Placed
<1>5. Join(texts) # <<>>
  <2>1. 1 \in 1..Len(texts)  BY EmptySeq
  <2>2. texts[1] \in Seq(Lines) /\ texts[1] # <<>>  BY <2>1, ElementOfSeq DEF Texts
  <2>3. 1 \in 1..Len(texts[1])  BY <2>2, EmptySeq
  <2>4. off[1] + 1 \in 1..Len(Join(texts))  BY <1>4, <2>1, <2>3
  <2>5. 1..0 = {}  OBVIOUS
  <2>6. Len(Join(texts)) # 0  BY <2>4, <2>5
  <2> QED  BY <2>6, EmptySeq
<1>6. ASSUME NEW i \in 1..Len(texts), ~IsBlank(texts[i]) PROVE ~IsBlank(Join(texts))
  <2>1. DOMAIN texts[i] = 1..Len(texts[i])  BY ElementOfSeq, LenProperties DEF Texts
  <2>2. PICK x \in 1..Len(texts[i]) : texts[i][x] # Blank  BY <1>6, <2>1 DEF IsBlank
  <2> QED  BY <1>3, <1>4, <2>2 DEF IsBlank
<1> QED  BY <1>1, <1>5, <1>6 DEF Texts

LEMMA JoinOne ==
    ASSUME NEW texts \in Seq(Texts), Len(texts) = 1
    PROVE  Join(texts) = texts[1]
PROOF
<1>1. texts # <<>>  BY EmptySeq
<1>2. PICK f : Joins(f, Len(texts), texts) /\ Join(texts) = f[Len(texts)]  BY <1>1, JoinIs
<1>3. 1 \in 1..Len(texts)  OBVIOUS
<1> QED  BY <1>2, <1>3 DEF Joins
-----------------------------------------------------------------------------
(* Cards and cases. *)

Card == [input : Texts, expected : Texts]

LEMMA CardFacts ==
    ASSUME NEW c \in Card
    PROVE  /\ c.input \in Texts /\ c.expected \in Texts
           /\ c = [input |-> c.input, expected |-> c.expected]
           /\ [c EXCEPT !.input = Trim(@)] = [input |-> Trim(c.input), expected |-> c.expected]
BY DEF Card

LEMMA StoredFacts ==
    ASSUME NEW input \in Texts, NEW expected \in Texts, ~IsBlank(expected)
    PROVE  LET q == Stored(input, expected)
           IN  /\ q \in Card /\ q # NoQuestion
               /\ ~IsBlank(q.expected)
               /\ q = [input |-> Trim(q.input), expected |-> Trim(q.expected)]
PROOF
<1> DEFINE q == Stored(input, expected)
<1>1. q = [input |-> Trim(input), expected |-> Trim(expected)]  BY DEF Stored
<1>2. q.input = Trim(input) /\ q.expected = Trim(expected)  BY <1>1
<1>3. /\ Trim(input) \in Texts /\ Trim(expected) \in Texts
      /\ ~IsBlank(Trim(expected))
      /\ Trim(Trim(input)) = Trim(input) /\ Trim(Trim(expected)) = Trim(expected)
  BY TrimFacts
<1>4. q \in Card  BY <1>1, <1>3 DEF Card
<1>5. q # NoQuestion
  <2>1. q.input # <<>>  BY <1>2, <1>3 DEF Texts
  <2>2. NoQuestion.input = <<>>  BY DEF NoQuestion
  <2> QED  BY <2>1, <2>2
<1>6. ~IsBlank(q.expected)  BY <1>2, <1>3
<1>7. q = [input |-> Trim(q.input), expected |-> Trim(q.expected)]  BY <1>1, <1>2, <1>3
<1> QED  BY <1>4, <1>5, <1>6, <1>7

\* What build_testcases returns: block by block, or everything as one case.
LEMMA TestcasesAre ==
    ASSUME NEW q \in Card
    PROVE  LET ins == Blocks(q.input)
               outs == Blocks(q.expected)
           IN  \/ /\ Len(outs) > 1 /\ Len(ins) = Len(outs)
                  /\ Cases(q) = [i \in 1..Len(outs) |-> [input |-> ins[i], expected |-> outs[i]]]
                  /\ Cases(q) \in Seq(Card) /\ Len(Cases(q)) = Len(outs)
               \/ /\ ~(Len(outs) > 1 /\ Len(ins) = Len(outs))
                  /\ Cases(q) = <<[input |-> q.input, expected |-> Trim(q.expected)]>>
                  /\ Cases(q) \in Seq(Card) /\ Len(Cases(q)) = 1
PROOF
<1> DEFINE ins == Blocks(q.input)
           outs == Blocks(q.expected)
<1>1. /\ q.input \in Texts /\ q.expected \in Texts
      /\ q.input \in Seq(Lines) /\ q.expected \in Seq(Lines)
  BY DEF Card, Texts
<1>2. ins \in Seq(Texts) /\ outs \in Seq(Texts)  BY <1>1, BlocksAreBlocks
<1> HIDE DEF ins, outs
<1>3. Len(outs) \in Nat /\ DOMAIN outs = 1..Len(outs)  BY <1>2, LenProperties
<1>4. CASE Len(outs) > 1 /\ Len(ins) = Len(outs)
  <2> DEFINE all == [i \in 1..Len(outs) |-> [input |-> ins[i], expected |-> outs[i]]]
  <2>1. Cases(q) = all  BY <1>3, <1>4 DEF Cases, Testcases, ins, outs
  <2>2. \A i \in 1..Len(outs) : ins[i] \in Texts /\ outs[i] \in Texts
    BY <1>2, <1>4, ElementOfSeq
  <2>3. all \in [1..Len(outs) -> Card]  BY <2>2 DEF Card
  <2> HIDE DEF all
  <2>4. all \in Seq(Card) /\ Len(all) = Len(outs)  BY <1>3, <2>3, SeqDef
  <2> QED  BY <1>4, <2>1, <2>4 DEF all, ins, outs
<1>5. CASE ~(Len(outs) > 1 /\ Len(ins) = Len(outs))
  <2> DEFINE c == [input |-> q.input, expected |-> Trim(q.expected)]
  <2>1. Cases(q) = <<c>>  BY <1>5 DEF Cases, Testcases, ins, outs
  <2>2. c \in Card  BY <1>1, TrimFacts DEF Card
  <2> HIDE DEF c
  <2>3. <<c>> \in Seq(Card) /\ Len(<<c>>) = 1  BY <2>2
  <2> QED  BY <1>5, <2>1, <2>3 DEF c, ins, outs
<1> QED  BY <1>4, <1>5

LEMMA SomeParagraph ==
    ASSUME NEW t \in Texts, ~IsBlank(t)
    PROVE  Paragraphs(t) \in Nat /\ Paragraphs(t) >= 1
PROOF
<1>0. t \in Seq(Lines) /\ Len(t) \in Nat /\ DOMAIN t = 1..Len(t)
  BY LenProperties DEF Texts
<1>1n. PICK n \in Nat : \E a, b : Splits(t, Len(t), n, a, b)
  BY <1>0, SplitExists DEF IsSplit
<1>1. PICK a, b : Splits(t, Len(t), n, a, b)  BY <1>1n
<1>2. Paragraphs(t) = n  BY <1>0, <1>1, BlocksOfSplit
<1>3. PICK i \in 1..Len(t) : t[i] # Blank  BY <1>0 DEF IsBlank
<1>4. PICK k \in 1..n : i \in a[k]..b[k]  BY <1>1, <1>3 DEF Splits
<1> QED  BY <1>2, <1>4

LEMMA ColumnFacts ==
    ASSUME NEW list \in Seq(Card), NEW field \in {"input", "expected"}
    PROVE  /\ Column(list, field) \in Seq(Texts)
           /\ Len(Column(list, field)) = Len(list)
           /\ \A i \in 1..Len(list) : Column(list, field)[i] = list[i][field]
PROOF
<1>1. Len(list) \in Nat /\ DOMAIN list = 1..Len(list)  BY LenProperties
<1>2. \A i \in 1..Len(list) : list[i][field] \in Texts
  <2> TAKE i \in 1..Len(list)
  <2>1. list[i] \in Card  BY ElementOfSeq
  <2>2. list[i].input \in Texts /\ list[i].expected \in Texts  BY <2>1 DEF Card
  <2> QED  BY <2>2
<1>3. Column(list, field) = [i \in 1..Len(list) |-> list[i][field]]  BY <1>1 DEF Column
<1>4. Column(list, field) \in [1..Len(list) -> Texts]  BY <1>2, <1>3
<1>5. Column(list, field) \in Seq(Texts) /\ Len(Column(list, field)) = Len(list)
  BY <1>1, <1>3, <1>4, SeqDef
<1> QED  BY <1>3, <1>5

\* Cards with their inputs trimmed.
Trimmed(list) == [i \in DOMAIN list |-> [list[i] EXCEPT !.input = Trim(@)]]

\* Cards that are saved, as they are saved: with some output each, which is trimmed.
Saved(list) ==
    /\ list \in Seq(Card) /\ list # <<>>
    /\ \A i \in 1..Len(list) : ~IsBlank(list[i].expected) /\ Trim(list[i].expected) = list[i].expected

LEMMA SerializedFacts ==
    ASSUME NEW list, Saved(list)
    PROVE  /\ Len(list) \in Nat /\ Len(list) >= 1 /\ DOMAIN list = 1..Len(list)
           /\ Serialized(list) = [input |-> Trim(Join(Column(list, "input"))),
                                  expected |-> Trim(Join(Column(list, "expected")))]
           /\ Serialized(list) \in Card /\ Serialized(list) # NoQuestion
           /\ ~IsBlank(Serialized(list).expected)
           /\ Serialized(list) = [input |-> Trim(Serialized(list).input),
                                  expected |-> Trim(Serialized(list).expected)]
           /\ Blocks(Serialized(list).input) = Blocks(Join(Column(list, "input")))
           /\ Blocks(Serialized(list).expected) = Blocks(Join(Column(list, "expected")))
PROOF
<1> DEFINE ins == Column(list, "input")
           outs == Column(list, "expected")
<1>1. list \in Seq(Card) /\ list # <<>>  BY DEF Saved
<1>2. Len(list) \in Nat /\ Len(list) >= 1 /\ DOMAIN list = 1..Len(list) /\ 1 \in 1..Len(list)
  <2>1. Len(list) \in Nat \ {0} /\ DOMAIN list = 1..Len(list)  BY <1>1, EmptySeq, LenProperties
  <2> QED  BY <2>1
<1>3. /\ ins \in Seq(Texts) /\ outs \in Seq(Texts)
      /\ Len(ins) = Len(list) /\ Len(outs) = Len(list)
      /\ outs[1] = list[1].expected
  BY <1>1, <1>2, ColumnFacts
<1> HIDE DEF ins, outs
<1>4. ins # <<>> /\ outs # <<>>  BY <1>2, <1>3
<1>5. Join(ins) \in Texts /\ Join(outs) \in Texts  BY <1>3, <1>4, JoinKeeps
<1>6. ~IsBlank(Join(outs))
  <2>1. ~IsBlank(outs[1])  BY <1>2, <1>3 DEF Saved
  <2> QED  BY <1>2, <1>3, <1>4, <2>1, JoinKeeps
<1> DEFINE q == Stored(Join(ins), Join(outs))
<1>7. q = Serialized(list)  BY DEF Serialized, ins, outs
<1>8. q = [input |-> Trim(Join(ins)), expected |-> Trim(Join(outs))]  BY DEF Stored
<1>9. /\ q \in Card /\ q # NoQuestion
      /\ ~IsBlank(q.expected)
      /\ q = [input |-> Trim(q.input), expected |-> Trim(q.expected)]
  BY <1>5, <1>6, StoredFacts
<1>10. Blocks(q.input) = Blocks(Join(ins)) /\ Blocks(q.expected) = Blocks(Join(outs))
  BY <1>5, <1>8, TrimKeepsBlocks
<1> HIDE DEF q
<1> QED  BY <1>2, <1>7, <1>8, <1>9, <1>10 DEF ins, outs

\* Saved cards are the cases of the question exactly if they are plain.
LEMMA PlainIsWhatIsJudged ==
    ASSUME NEW list, Saved(list)
    PROVE  Plain(list) <=> Cases(Serialized(list)) = Trimmed(list)
PROOF
<1> DEFINE n == Len(list)
           q == Serialized(list)
           ins == Column(list, "input")
           outs == Column(list, "expected")
<1>1. list \in Seq(Card)  BY DEF Saved
<1>2. /\ n \in Nat /\ n >= 1 /\ DOMAIN list = 1..n
      /\ q = [input |-> Trim(Join(ins)), expected |-> Trim(Join(outs))]
      /\ q \in Card
      /\ Blocks(q.input) = Blocks(Join(ins)) /\ Blocks(q.expected) = Blocks(Join(outs))
  BY SerializedFacts
<1>3. /\ ins \in Seq(Texts) /\ outs \in Seq(Texts) /\ Len(ins) = n /\ Len(outs) = n
      /\ \A i \in 1..n : ins[i] = list[i].input /\ outs[i] = list[i].expected
  BY <1>1, ColumnFacts
<1>4. \A i \in 1..n : /\ list[i] \in Card
                      /\ list[i].input \in Texts /\ list[i].expected \in Texts
                      /\ list[i] = [input |-> list[i].input, expected |-> list[i].expected]
                      /\ ~IsBlank(list[i].expected) /\ Trim(list[i].expected) = list[i].expected
  <2> TAKE i \in 1..n
  <2>1. list[i] \in Card  BY <1>1, ElementOfSeq
  <2>2. ~IsBlank(list[i].expected) /\ Trim(list[i].expected) = list[i].expected  BY DEF Saved
  <2> QED  BY <2>1, <2>2, CardFacts
<1>5. Trimmed(list) = [i \in 1..n |-> [input |-> Trim(list[i].input), expected |-> list[i].expected]]
  <2>1. Trimmed(list) = [i \in 1..n |-> [list[i] EXCEPT !.input = Trim(@)]]  BY <1>2 DEF Trimmed
  <2>2. \A i \in 1..n : [list[i] EXCEPT !.input = Trim(@)]
                           = [input |-> Trim(list[i].input), expected |-> list[i].expected]
    BY <1>4, CardFacts
  <2> QED  BY <2>1, <2>2
<1>6. /\ q.input \in Texts /\ q.expected \in Texts
      /\ q.input \in Seq(Lines) /\ q.expected \in Seq(Lines)
  BY <1>2 DEF Card, Texts
<1> DEFINE bi == Blocks(q.input)
           bo == Blocks(q.expected)
           Each == Len(bo) > 1 /\ Len(bi) = Len(bo)
<1>7. \/ /\ Each
         /\ Cases(q) = [i \in 1..Len(bo) |-> [input |-> bi[i], expected |-> bo[i]]]
         /\ Cases(q) \in Seq(Card) /\ Len(Cases(q)) = Len(bo)
      \/ /\ ~Each
         /\ Cases(q) = <<[input |-> q.input, expected |-> Trim(q.expected)]>>
         /\ Cases(q) \in Seq(Card) /\ Len(Cases(q)) = 1
  BY <1>2, TestcasesAre
<1>8. /\ bi \in Seq(Texts) /\ bo \in Seq(Texts) /\ Len(bi) \in Nat /\ Len(bo) \in Nat
      /\ Len(bi) = Paragraphs(q.input) /\ Len(bo) = Paragraphs(q.expected)
      /\ \A i \in 1..Len(bi) : Paragraphs(bi[i]) = 1
      /\ \A i \in 1..Len(bo) : Paragraphs(bo[i]) = 1
  BY <1>6, BlocksAreBlocks, BlockFacts
<1>9. Len(Trimmed(list)) = n  BY <1>2, <1>5
<1>10. CASE n > 1
  <2>1. ASSUME Plain(list) PROVE Cases(q) = Trimmed(list)
    <3>1. \A i \in 1..n : Paragraphs(ins[i]) = 1 /\ Paragraphs(outs[i]) = 1
      BY <1>2, <1>3, <1>10, <2>1 DEF Plain
    <3>2. ins # <<>> /\ outs # <<>>  BY <1>3, <1>10
    <3>3. bi = [i \in 1..n |-> Trim(ins[i])] /\ bo = [i \in 1..n |-> Trim(outs[i])]
      BY <1>2, <1>3, <3>1, <3>2, JoinedParagraphs
    <3> HIDE DEF bi, bo, n, q, ins, outs
    <3>4. Len(bi) = n /\ Len(bo) = n  BY <1>2, <3>3
    <3>5. Cases(q) = [i \in 1..n |-> [input |-> bi[i], expected |-> bo[i]]]
      BY <1>7, <1>10, <3>4
    <3>6. \A i \in 1..n : bi[i] = Trim(list[i].input) /\ bo[i] = list[i].expected
      BY <1>3, <1>4, <3>3
    <3> QED  BY <1>5, <3>5, <3>6
  <2>2. ASSUME Cases(q) = Trimmed(list) PROVE Plain(list)
    <3>1. Each /\ Cases(q) = [i \in 1..Len(bo) |-> [input |-> bi[i], expected |-> bo[i]]] /\ Len(bo) = n
      <4> HIDE DEF bi, bo, n, q
      <4> QED  BY <1>7, <1>9, <1>10, <2>2
    <3> SUFFICES ASSUME NEW i \in 1..n
                 PROVE  Paragraphs(list[i].input) = 1 /\ Paragraphs(list[i].expected) = 1
      BY <1>2, <1>10 DEF Plain
    <3>2. [input |-> bi[i], expected |-> bo[i]]
             = [input |-> Trim(list[i].input), expected |-> list[i].expected]
      <4> HIDE DEF bi, bo, n, q
      <4>1. Cases(q)[i] = [input |-> bi[i], expected |-> bo[i]]  BY <3>1
      <4>2. Trimmed(list)[i] = [input |-> Trim(list[i].input), expected |-> list[i].expected]
        BY <1>5
      <4> QED  BY <2>2, <4>1, <4>2
    <3>3. bi[i] = Trim(list[i].input) /\ bo[i] = list[i].expected
      <4> HIDE DEF bi, bo
      <4> QED  BY <3>2
    <3>4. Paragraphs(bi[i]) = 1 /\ Paragraphs(bo[i]) = 1
      <4> HIDE DEF bi, bo
      <4> QED  BY <1>8, <3>1
    <3>5. Paragraphs(Trim(list[i].input)) = Paragraphs(list[i].input)
      BY <1>4, TrimKeepsBlocks
    <3> QED  BY <3>3, <3>4, <3>5
  <2> QED  BY <2>1, <2>2
<1>11. CASE n = 1
  <2>1. 1 \in 1..n  BY <1>11
  <2>2. Join(ins) = list[1].input /\ Join(outs) = list[1].expected
    BY <1>3, <1>11, <2>1, JoinOne
  <2>3. q.input = Trim(list[1].input) /\ q.expected = list[1].expected
    BY <1>2, <1>4, <2>1, <2>2
  <2>4. Len(bi) = Paragraphs(list[1].input) /\ Len(bo) = Paragraphs(list[1].expected)
    BY <1>4, <1>8, <2>1, <2>3, TrimKeepsBlocks
  <2>5. Paragraphs(list[1].expected) \in Nat /\ Paragraphs(list[1].expected) >= 1
    BY <1>4, <2>1, SomeParagraph
  <2>6. Plain(list) <=> Len(bo) = 1 \/ Len(bi) # Len(bo)
    BY <1>11, <2>4 DEF Plain
  <2>7. Plain(list) <=> ~Each
    <3> HIDE DEF bi, bo
    <3> QED  BY <2>4, <2>5, <2>6
  <2>8. ASSUME ~Each PROVE Cases(q) = Trimmed(list)
    <3>1. Cases(q) = <<[input |-> q.input, expected |-> Trim(q.expected)]>>
      <4> HIDE DEF bi, bo, q
      <4> QED  BY <1>7, <2>8
    <3>2. Cases(q) = <<[input |-> Trim(list[1].input), expected |-> list[1].expected]>>
      BY <1>4, <2>1, <2>3, <3>1
    <3>3. Trimmed(list) = [i \in 1..1 |-> [input |-> Trim(list[i].input), expected |-> list[i].expected]]
      BY <1>5, <1>11
    <3>4. Trimmed(list) = <<[input |-> Trim(list[1].input), expected |-> list[1].expected]>>
      BY <3>3
    <3> QED  BY <3>2, <3>4
  <2>9. ASSUME Each PROVE Cases(q) # Trimmed(list)
    <3> HIDE DEF bi, bo, q, n
    <3> QED  BY <1>7, <1>9, <1>11, <2>9
  <2> HIDE DEF bi, bo, n
  <2> QED  BY <2>7, <2>8, <2>9
<1>12. n = 1 \/ n > 1
  <2>1. n \in Nat /\ n >= 1  BY <1>2
  <2> HIDE DEF n
  <2> QED  BY <2>1
<1> QED  BY <1>10, <1>11, <1>12
-----------------------------------------------------------------------------
(* The dialog. *)

\* Cards shown and texts stored consist of lines.
CardsAreTexts ==
    /\ cards \in Seq(Card)
    /\ question # NoQuestion => question \in Card

QuestionsInv == TypeOK /\ CardsAreTexts

LEMMA CollectedFacts ==
    ASSUME cards \in Seq(Card)
    PROVE  /\ Collected \in Seq(Card) /\ Len(Collected) = Len(cards)
           /\ \A i \in 1..Len(cards) :
                 /\ Collected[i].input = cards[i].input
                 /\ Collected[i].expected = Trim(cards[i].expected)
                 /\ Trim(Collected[i].expected) = Collected[i].expected
PROOF
<1>1. Len(cards) \in Nat /\ DOMAIN cards = 1..Len(cards)  BY LenProperties
<1>2. \A i \in 1..Len(cards) : cards[i].input \in Texts /\ cards[i].expected \in Texts
  BY ElementOfSeq, CardFacts
<1>3. Collected = [i \in 1..Len(cards) |->
                     [input |-> cards[i].input, expected |-> Trim(cards[i].expected)]]
  BY <1>1 DEF Collected
<1>4. \A i \in 1..Len(cards) :
         /\ Trim(cards[i].expected) \in Texts
         /\ Trim(Trim(cards[i].expected)) = Trim(cards[i].expected)
  BY <1>2, TrimFacts
<1>5. Collected \in [1..Len(cards) -> Card]  BY <1>2, <1>3, <1>4 DEF Card
<1>6. Collected \in Seq(Card) /\ Len(Collected) = Len(cards)
  <2>1. Collected \in Seq(Card)  BY <1>1, <1>5, SeqDef
  <2>2. DOMAIN Collected = 1..Len(cards)  BY <1>3
  <2>3. Len(Collected) \in Nat /\ DOMAIN Collected = 1..Len(Collected)  BY <2>1, LenProperties
  <2> QED  BY <1>1, <2>1, <2>2, <2>3
<1> QED  BY <1>3, <1>4, <1>6

\* The filled cards are some of those collected, or all if each has an output.
LEMMA FilledFacts ==
    ASSUME cards \in Seq(Card)
    PROVE  /\ Filled \in Seq(Card)
           /\ \A k \in 1..Len(Filled) : Trim(Filled[k].expected) = Filled[k].expected
           /\ (\A i \in 1..Len(cards) : ~IsBlank(Collected[i].expected)) => Filled = Collected
PROOF
<1>1. /\ Collected \in Seq(Card) /\ Len(Collected) = Len(cards)
      /\ \A i \in 1..Len(cards) : Trim(Collected[i].expected) = Collected[i].expected
  BY CollectedFacts
<1>2. Len(cards) \in Nat /\ DOMAIN Collected = 1..Len(cards)
  BY <1>1, LenProperties
<1> DEFINE S == {i \in DOMAIN Collected :
                    ~IsBlank(Collected[i].input) \/ ~IsBlank(Collected[i].expected)}
<1>3. S \in SUBSET (1..Len(cards))  BY <1>2
<1>4. Filled = [k \in DOMAIN Ordered(S) |-> Collected[Ordered(S)[k]]]  BY DEF Filled
<1> HIDE DEF S
<1>5. Cardinality(S) \in Nat /\ Enumerates(Ordered(S), Cardinality(S), S)
  BY <1>2, <1>3, OrderedEnumerates
<1>6. Ordered(S) \in [1..Cardinality(S) -> S]  BY <1>5 DEF Enumerates
<1>7. Filled = [k \in 1..Cardinality(S) |-> Collected[Ordered(S)[k]]]  BY <1>4, <1>6
<1>8. \A k \in 1..Cardinality(S) : Ordered(S)[k] \in 1..Len(cards)  BY <1>3, <1>6
<1>9. \A i \in 1..Len(cards) : Collected[i] \in Card  BY <1>1, ElementOfSeq
<1>10. Filled \in [1..Cardinality(S) -> Card]  BY <1>7, <1>8, <1>9
<1>11. Filled \in Seq(Card) /\ Len(Filled) = Cardinality(S)
  BY <1>5, <1>7, <1>10, SeqDef, SMTT(30)
<1>12. \A k \in 1..Len(Filled) : Trim(Filled[k].expected) = Filled[k].expected
  BY <1>1, <1>7, <1>8, <1>11
<1>13. ASSUME \A i \in 1..Len(cards) : ~IsBlank(Collected[i].expected)
       PROVE  Filled = Collected
  <2>1. S = 1..Len(cards)  BY <1>2, <1>13 DEF S
  <2> DEFINE id == [i \in 1..Len(cards) |-> i]
  <2>2. Enumerates(id, Len(cards), 1..Len(cards))
    <3>1. id \in [1..Len(cards) -> 1..Len(cards)] /\ \A i \in 1..Len(cards) : id[i] = i
      OBVIOUS
    <3> HIDE DEF id
    <3> QED  BY <1>2, <3>1 DEF Enumerates
  <2> HIDE DEF id
  <2>3. 1..Len(cards) \in SUBSET Nat  BY <1>2
  <2>4. Ordered(S) = id /\ Cardinality(S) = Len(cards)  BY <2>1, <2>2, <2>3, OrderedIs
  <2>5. Filled = [k \in 1..Len(cards) |-> Collected[k]]  BY <1>7, <2>4 DEF id
  <2>6. Collected = [k \in 1..Len(cards) |-> Collected[k]]
    BY <1>1, <1>2, LenProperties
  <2> QED  BY <2>5, <2>6
<1> QED  BY <1>11, <1>12, <1>13

LEMMA RenderAgainFacts ==
    ASSUME NEW list \in Seq(Card), RenderAgain(list)
    PROVE  cards' \in Seq(Card) /\ Len(cards') = Len(list)
PROOF
<1>1. Len(list) \in Nat /\ DOMAIN list = 1..Len(list)  BY LenProperties
<1>2. ASSUME NEW c \in Card PROVE Rendered(c) \in Card
  <2>1. c.input \in Texts /\ c.expected \in Texts  BY CardFacts
  <2>2. CASE Len(c.input) > 1 /\ Head(c.input) = Blank
    <3>1. c.input \in Seq(Lines) /\ c.input # <<>> /\ Len(c.input) \in Nat
      BY <2>1, LenProperties DEF Texts
    <3>2. Tail(c.input) \in Seq(Lines) /\ Len(Tail(c.input)) = Len(c.input) - 1
      BY <3>1, HeadTailProperties
    <3>3. Tail(c.input) # <<>>
      <4> DEFINE before == Len(c.input)
                 after == Len(Tail(c.input))
      <4>1. after # 0
        <5>1. before \in Nat /\ before > 1 /\ after = before - 1  BY <2>2, <3>1, <3>2
        <5> HIDE DEF before, after
        <5> QED  BY <5>1
      <4> QED  BY <4>1, EmptySeq
    <3>4. Tail(c.input) \in Texts  BY <3>2, <3>3 DEF Texts
    <3>5. Rendered(c) = [c EXCEPT !.input = Tail(@)]  BY <2>2 DEF Rendered
    <3> QED  BY <3>4, <3>5 DEF Card
  <2>3. CASE ~(Len(c.input) > 1 /\ Head(c.input) = Blank)
    BY <2>3 DEF Rendered
  <2> QED  BY <2>2, <2>3
<1>3. \A i \in 1..Len(list) : Rendered(list[i]) \in Card  BY <1>2, ElementOfSeq
<1>4. cards' = [i \in 1..Len(list) |-> Rendered(list[i])]  BY <1>1 DEF RenderAgain
<1>5. cards' \in [1..Len(list) -> Card]  BY <1>3, <1>4
<1> QED  BY <1>1, <1>4, <1>5, SeqDef

LEMMA EmptyCardFacts == EmptyCard \in Card
BY EmptyTextFacts DEF EmptyCard, Card

\* What the guards of SaveDialog leave is saved.
LEMMA SaveSaves ==
    ASSUME CardsAreTexts, SaveDialog
    PROVE  Saved(Filled) /\ question' = Serialized(Filled)
PROOF
<1>1. cards \in Seq(Card)  BY DEF CardsAreTexts
<1>2. /\ Filled \in Seq(Card)
      /\ \A k \in 1..Len(Filled) : Trim(Filled[k].expected) = Filled[k].expected
  BY <1>1, FilledFacts
<1>3. DOMAIN Filled = 1..Len(Filled)  BY <1>2, LenProperties
<1>4. Filled # <<>> /\ \A i \in DOMAIN Filled : ~IsBlank(Filled[i].expected)  BY DEF SaveDialog
<1> QED  BY <1>2, <1>3, <1>4 DEF Saved, SaveDialog

LEMMA InputsAreTexts == Inputs \subseteq Texts /\ Outputs \subseteq Texts
BY QuestionsAssumption DEF Texts

LEMMA QuestionsInit == Init => QuestionsInv
PROOF
<1> SUFFICES ASSUME Init PROVE QuestionsInv
  OBVIOUS
<1>1. dialog = FALSE /\ cards = <<>>  BY DEF Init
<1>2. cards \in Seq(Card)  BY <1>1
<1>3. ASSUME question # NoQuestion
      PROVE  /\ question \in Card /\ ~IsBlank(question.expected)
             /\ question = [input |-> Trim(question.input), expected |-> Trim(question.expected)]
  <2>1. PICK i \in Inputs, o \in Outputs : ~IsBlank(o) /\ question = Stored(i, o)
    BY <1>3 DEF Init
  <2>2. i \in Texts /\ o \in Texts  BY InputsAreTexts
  <2> QED  BY <2>1, <2>2, StoredFacts
<1> QED  BY <1>1, <1>2, <1>3 DEF QuestionsInv, TypeOK, CardsAreTexts

LEMMA QuestionsStep == QuestionsInv /\ [Next]_vars => QuestionsInv'
PROOF
<1> SUFFICES ASSUME QuestionsInv, [Next]_vars PROVE QuestionsInv'
  OBVIOUS
<1>0. cards \in Seq(Card) /\ (question # NoQuestion => question \in Card)
  BY DEF QuestionsInv, CardsAreTexts
<1>00. MaxCards \in Nat \ {0}  BY QuestionsAssumption
<1>1. CASE OpenDialog
  <2>1. dialog' = TRUE /\ question' = question /\ Len(cards') <= MaxCards
    BY <1>1 DEF OpenDialog
  <2>2. cards' \in Seq(Card) /\ Len(cards') >= 1
    <3>1. CASE question = NoQuestion
      <4>1. cards' = <<EmptyCard>>  BY <1>1, <3>1 DEF OpenDialog
      <4> QED  BY <4>1, EmptyCardFacts
    <3>2. CASE question # NoQuestion
      <4>1. cards' = Cases(question)  BY <1>1, <3>2 DEF OpenDialog
      <4>2. Cases(question) \in Seq(Card) /\ (Len(Cases(question)) > 1 \/ Len(Cases(question)) = 1)
        BY <1>0, <3>2, TestcasesAre
      <4>3. Len(cards') \in Nat  BY <4>1, <4>2, LenProperties
      <4> QED  BY <4>1, <4>2, <4>3
    <3> QED  BY <3>1, <3>2
  <2>3. Len(cards') \in Nat  BY <2>2, LenProperties
  <2>4. Len(cards') \in 1..MaxCards  BY <1>00, <2>1, <2>2, <2>3
  <2> QED  BY <1>0, <2>1, <2>2, <2>4 DEF QuestionsInv, TypeOK, CardsAreTexts
<1>2. CASE AddCard
  <2>1. dialog /\ dialog' = dialog /\ question' = question /\ Len(cards) < MaxCards
    BY <1>2 DEF AddCard
  <2> DEFINE list == Append(Collected, EmptyCard)
  <2>2. Collected \in Seq(Card) /\ Len(Collected) = Len(cards)  BY <1>0, CollectedFacts
  <2>3. list \in Seq(Card) /\ Len(list) = Len(cards) + 1
    BY <2>2, EmptyCardFacts, AppendProperties
  <2>4. cards' \in Seq(Card) /\ Len(cards') = Len(cards) + 1
    <3>1. RenderAgain(list)  BY <1>2 DEF AddCard
    <3> HIDE DEF list
    <3> QED  BY <2>3, <3>1, RenderAgainFacts
  <2>5. Len(cards') \in 1..MaxCards
    <3>1. Len(cards) \in Nat  BY <1>0, LenProperties
    <3> QED  BY <1>00, <2>1, <2>4, <3>1
  <2> QED  BY <1>0, <2>1, <2>4, <2>5 DEF QuestionsInv, TypeOK, CardsAreTexts
<1>3. CASE CloseDialog
  <2>1. dialog' = FALSE /\ cards' = <<>> /\ question' = question  BY <1>3 DEF CloseDialog
  <2>2. TypeOK'  BY <2>1 DEF QuestionsInv, TypeOK
  <2>3. CardsAreTexts'  BY <1>0, <2>1 DEF CardsAreTexts
  <2> QED  BY <2>2, <2>3 DEF QuestionsInv
<1>4. CASE SaveDialog
  <2>1. Saved(Filled) /\ question' = Serialized(Filled)
    BY <1>4, SaveSaves DEF QuestionsInv
  <2>2. /\ question' \in Card /\ ~IsBlank(question'.expected)
        /\ question' = [input |-> Trim(question'.input), expected |-> Trim(question'.expected)]
    BY <2>1, SerializedFacts
  <2>3. dialog' = FALSE /\ cards' = <<>>  BY <1>4 DEF SaveDialog
  <2>4. TypeOK'  BY <2>2, <2>3 DEF TypeOK
  <2>5. CardsAreTexts'  BY <2>2, <2>3 DEF CardsAreTexts
  <2> QED  BY <2>4, <2>5 DEF QuestionsInv
<1>5. CASE \E i \in DOMAIN cards : RemoveCard(i)
  <2>1. PICK i \in DOMAIN cards : RemoveCard(i)  BY <1>5
  <2>2. dialog /\ dialog' = dialog /\ question' = question /\ Len(cards) > 1
    BY <2>1 DEF RemoveCard
  <2>3. Collected \in Seq(Card) /\ Len(Collected) = Len(cards)  BY <1>0, CollectedFacts
  <2>4. Len(cards) \in Nat /\ i \in 1..Len(cards)  BY <1>0, LenProperties
  <2> DEFINE list == RemoveAt(Collected, i)
  <2>5. list \in Seq(Card) /\ Len(list) = Len(cards) - 1
    <3> DEFINE n == Len(cards)
               s == SubSeq(Collected, 1, i - 1)
               r == SubSeq(Collected, i + 1, n)
    <3>1. \A k \in 1..n : Collected[k] \in Card  BY <2>3, ElementOfSeq
    <3>2. n \in Nat /\ i \in Int /\ i - 1 \in Int /\ i + 1 \in Int /\ 1 <= i /\ i <= n  BY <2>4
    <3>3. list = s \o r  BY <2>3 DEF RemoveAt
    <3> HIDE DEF n, list
    <3>4. (\A k \in 1..(i - 1) : k \in 1..n) /\ (\A k \in (i + 1)..n : k \in 1..n)  BY <3>2
    <3>5. s \in Seq(Card) /\ Len(s) = (IF 1 <= i - 1 THEN i - 1 - 1 + 1 ELSE 0)
      BY <3>1, <3>2, <3>4, SubSeqProperties
    <3>6. r \in Seq(Card) /\ Len(r) = (IF i + 1 <= n THEN n - (i + 1) + 1 ELSE 0)
      BY <3>1, <3>2, <3>4, SubSeqProperties
    <3> HIDE DEF s, r
    <3>7. s \o r \in Seq(Card) /\ Len(s \o r) = Len(s) + Len(r)  BY <3>5, <3>6, ConcatProperties
    <3>8. Len(s) = i - 1 /\ Len(r) = n - i  BY <3>2, <3>5, <3>6
    <3>9. Len(s) + Len(r) = n - 1  BY <3>2, <3>8
    <3> QED  BY <3>3, <3>7, <3>9 DEF n
  <2>6. cards' \in Seq(Card) /\ Len(cards') = Len(cards) - 1
    <3>1. RenderAgain(list)  BY <2>1 DEF RemoveCard
    <3> HIDE DEF list
    <3> QED  BY <2>5, <3>1, RenderAgainFacts
  <2>7. Len(cards') \in 1..MaxCards
    <3>1. Len(cards) \in 1..MaxCards  BY <2>2 DEF QuestionsInv, TypeOK
    <3> QED  BY <1>00, <2>2, <2>4, <2>6, <3>1
  <2> QED  BY <1>0, <2>2, <2>6, <2>7 DEF QuestionsInv, TypeOK, CardsAreTexts
<1>6. CASE \E i \in DOMAIN cards, input \in Inputs, expected \in Outputs : Type(i, input, expected)
  <2>1. PICK i \in DOMAIN cards, input \in Inputs, expected \in Outputs : Type(i, input, expected)
    BY <1>6
  <2> DEFINE c == [input |-> input, expected |-> expected]
  <2>2. c \in Card  BY InputsAreTexts DEF Card
  <2>3. cards' = [cards EXCEPT ![i] = c] /\ dialog' = dialog /\ question' = question
    BY <2>1 DEF Type
  <2>4. i \in 1..Len(cards)  BY <1>0, LenProperties
  <2> HIDE DEF c
  <2>5. cards' \in Seq(Card) /\ Len(cards') = Len(cards)
    BY <1>0, <2>2, <2>3, <2>4, ExceptSeq
  <2> QED  BY <1>0, <2>3, <2>5 DEF QuestionsInv, TypeOK, CardsAreTexts
<1>7. CASE UNCHANGED vars
  BY <1>7 DEF vars, QuestionsInv, TypeOK, CardsAreTexts
<1> QED  BY <1>1, <1>2, <1>3, <1>4, <1>5, <1>6, <1>7 DEF Next

LEMMA QuestionsInvariant == Spec => []QuestionsInv
BY QuestionsInit, QuestionsStep, PTL DEF Spec

\* What is stored of a question is trimmed and has an output, and the dialog shows
\* between one and MaxCards cards while it is open.
THEOREM TypeCorrect == Spec => []TypeOK
<1>1. QuestionsInv => TypeOK  BY DEF QuestionsInv
<1> QED  BY <1>1, QuestionsInvariant, PTL

-----------------------------------------------------------------------------

\* The cards that a teacher saves are the cases that are judged if they are plain, and
\* only then.
THEOREM PlainCardsAreTheCases == Spec => PlainCardsAreJudged
PROOF
<1>1. ASSUME QuestionsInv, SaveDialog
      PROVE  Plain(Filled) <=>
             Cases(question') = [i \in DOMAIN Filled |-> [Filled[i] EXCEPT !.input = Trim(@)]]
  <2>1. Saved(Filled) /\ question' = Serialized(Filled)
    BY <1>1, SaveSaves DEF QuestionsInv
  <2>2. Plain(Filled) <=> Cases(Serialized(Filled)) = Trimmed(Filled)
    BY <2>1, PlainIsWhatIsJudged
  <2> QED  BY <2>1, <2>2 DEF Trimmed
<1>2. QuestionsInv /\ [Next]_vars =>
         [SaveDialog =>
             (Plain(Filled) <=>
              Cases(question') = [i \in DOMAIN Filled |-> [Filled[i] EXCEPT !.input = Trim(@)]])]_vars
  BY <1>1
<1> QED  BY <1>2, QuestionsInvariant, PTL DEF Spec, PlainCardsAreJudged

LEMMA ResaveSame ==
    ASSUME QuestionsInv, SaveDialog, question # NoQuestion, cards = Cases(question)
    PROVE  Cases(question') = Cases(question)
PROOF
<1>1. Saved(Filled) /\ question' = Serialized(Filled)
  BY SaveSaves DEF QuestionsInv
<1>2. /\ question \in Card /\ cards \in Seq(Card)
      /\ ~IsBlank(question.expected)
      /\ question = [input |-> Trim(question.input), expected |-> Trim(question.expected)]
  BY DEF QuestionsInv, TypeOK, CardsAreTexts
<1>3. question.input \in Texts /\ question.expected \in Texts
  BY <1>2, CardFacts
<1>4. /\ Collected \in Seq(Card) /\ Len(Collected) = Len(cards)
      /\ \A i \in 1..Len(cards) :
            /\ Collected[i].input = cards[i].input
            /\ Collected[i].expected = Trim(cards[i].expected)
  BY <1>2, CollectedFacts
<1>5. Len(cards) \in Nat /\ DOMAIN cards = 1..Len(cards) /\ DOMAIN Collected = 1..Len(cards)
  BY <1>2, <1>4, LenProperties
<1>6. (\A i \in 1..Len(cards) : ~IsBlank(Collected[i].expected)) => Filled = Collected
  BY <1>2, FilledFacts
<1>7. \A i \in 1..Len(cards) : cards[i] \in Card /\ Collected[i] \in Card
  BY <1>2, <1>4, ElementOfSeq
<1>8. (\A i \in 1..Len(cards) : Trim(cards[i].expected) = cards[i].expected) => Collected = cards
  <2> SUFFICES ASSUME \A i \in 1..Len(cards) : Trim(cards[i].expected) = cards[i].expected
               PROVE  Collected = cards
    OBVIOUS
  <2>1. ASSUME NEW i \in 1..Len(cards) PROVE Collected[i] = cards[i]
    <3>1. Collected[i].input = cards[i].input /\ Collected[i].expected = cards[i].expected
      BY <1>4
    <3>2. /\ Collected[i] = [input |-> Collected[i].input, expected |-> Collected[i].expected]
          /\ cards[i] = [input |-> cards[i].input, expected |-> cards[i].expected]
      BY <1>7, CardFacts
    <3> QED  BY <3>1, <3>2
  <2> QED  BY <1>2, <1>4, <2>1, SeqEqual
<1> DEFINE ins == Blocks(question.input)
           outs == Blocks(question.expected)
<1>9. \/ /\ Len(outs) > 1 /\ Len(ins) = Len(outs)
         /\ Cases(question) = [i \in 1..Len(outs) |-> [input |-> ins[i], expected |-> outs[i]]]
         /\ Len(Cases(question)) = Len(outs)
      \/ /\ ~(Len(outs) > 1 /\ Len(ins) = Len(outs))
         /\ Cases(question) = <<[input |-> question.input, expected |-> Trim(question.expected)]>>
  BY <1>2, TestcasesAre
<1>10. /\ \A i \in 1..Len(ins) : IsBlock(ins[i])
       /\ \A i \in 1..Len(outs) : IsBlock(outs[i])
  BY <1>3, BlocksAreBlocks DEF Texts
<1> HIDE DEF ins, outs
<1>11. CASE Len(outs) > 1 /\ Len(ins) = Len(outs)
  <2>1. /\ Len(cards) = Len(outs)
        /\ \A i \in 1..Len(cards) : cards[i] = [input |-> ins[i], expected |-> outs[i]]
    BY <1>9, <1>11
  <2>2. ASSUME NEW i \in 1..Len(cards)
        PROVE  /\ Trim(cards[i].input) = cards[i].input /\ Paragraphs(cards[i].input) = 1
               /\ Trim(cards[i].expected) = cards[i].expected /\ Paragraphs(cards[i].expected) = 1
               /\ ~IsBlank(cards[i].expected)
    <3>1. IsBlock(ins[i]) /\ IsBlock(outs[i])  BY <1>10, <1>11, <2>1
    <3>2. cards[i].input = ins[i] /\ cards[i].expected = outs[i]
      <4>1. cards[i] = [input |-> ins[i], expected |-> outs[i]]  BY <2>1
      <4> QED  BY <4>1
    <3> QED  BY <3>1, <3>2, BlockFacts
  <2>3. Collected = cards  BY <1>8, <2>2
  <2>4. Filled = cards  BY <1>6, <2>2, <2>3
  <2>5. Plain(cards)  BY <1>5, <1>11, <2>1, <2>2 DEF Plain
  <2>6. Cases(Serialized(cards)) = Trimmed(cards)
    BY <1>1, <2>4, <2>5, PlainIsWhatIsJudged
  <2>7. Trimmed(cards) = cards
    <3>1. Trimmed(cards) = [i \in 1..Len(cards) |-> [cards[i] EXCEPT !.input = Trim(@)]]
      BY <1>5 DEF Trimmed
    <3>2. ASSUME NEW i \in 1..Len(cards) PROVE [cards[i] EXCEPT !.input = Trim(@)] = cards[i]
      BY <1>7, <2>2, CardFacts
    <3>3. Trimmed(cards) = [i \in 1..Len(cards) |-> cards[i]]  BY <3>1, <3>2
    <3>4. cards = [i \in 1..Len(cards) |-> cards[i]]  BY <1>2, LenProperties
    <3> QED  BY <3>3, <3>4
  <2> QED  BY <1>1, <2>4, <2>6, <2>7
<1>12. CASE ~(Len(outs) > 1 /\ Len(ins) = Len(outs))
  <2>1. cards = <<[input |-> question.input, expected |-> Trim(question.expected)]>>
    BY <1>9, <1>12
  <2>2. Trim(question.expected) = question.expected /\ Trim(question.input) = question.input
    <3> DEFINE x == Trim(question.input)
               y == Trim(question.expected)
    <3>1. question = [input |-> x, expected |-> y]  BY <1>2
    <3> HIDE DEF x, y
    <3>2. question.input = x /\ question.expected = y  BY <3>1
    <3> QED  BY <3>2 DEF x, y
  <2>3. Len(cards) = 1 /\ cards[1].input = question.input /\ cards[1].expected = question.expected
    BY <2>1, <2>2
  <2>4. \A i \in 1..Len(cards) : i = 1  BY <2>3
  <2>5. Collected = cards  BY <1>8, <2>2, <2>3, <2>4
  <2>6. Filled = cards  BY <1>2, <1>6, <2>3, <2>4, <2>5
  <2>7. /\ Column(cards, "input") \in Seq(Texts) /\ Len(Column(cards, "input")) = 1
        /\ Column(cards, "expected") \in Seq(Texts) /\ Len(Column(cards, "expected")) = 1
        /\ Column(cards, "input")[1] = question.input
        /\ Column(cards, "expected")[1] = question.expected
    <3>1. 1 \in 1..Len(cards)  BY <2>3
    <3> QED  BY <1>2, <2>3, <3>1, ColumnFacts
  <2>8. Serialized(cards) = Stored(question.input, question.expected)
    BY <2>7, JoinOne DEF Serialized
  <2>9. Serialized(cards) = question  BY <1>2, <2>8 DEF Stored
  <2> QED  BY <1>1, <2>6, <2>9
<1> QED  BY <1>11, <1>12

\* To open a question and save it as it is does not change what is judged.
THEOREM ResaveChangesNothing == Spec => ResaveKeepsCases
PROOF
<1>1. QuestionsInv /\ [Next]_vars =>
         [SaveDialog /\ question # NoQuestion /\ cards = Cases(question) =>
             Cases(question') = Cases(question)]_vars
  BY ResaveSame
<1> QED  BY <1>1, QuestionsInvariant, PTL DEF Spec, ResaveKeepsCases
=============================================================================
