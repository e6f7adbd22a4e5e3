---------------------------- MODULE OrderLemmas ----------------------------
(***************************************************************************)
(* Facts about finite sets in an order, of which every enumeration in this *)
(* project is an instance: the n-th of a set has n - 1 before it. From the *)
(* least element of a set of numbers follow induction, with what holds as  *)
(* a set, and that functions can be defined by recursion.                  *)
(***************************************************************************)
EXTENDS Integers, Sequences, FiniteSets, FiniteSetTheorems, TLAPS

\* R is a strict total order of S.
Ordered(R, S) ==
  /\ \A x \in S : <<x, x>> \notin R
  /\ \A x, y, z \in S : <<x, y>> \in R /\ <<y, z>> \in R => <<x, z>> \in R
  /\ \A x, y \in S : x # y => <<x, y>> \in R \/ <<y, x>> \in R

Preceding(x, R, S) == {y \in S : <<y, x>> \in R}
Rank(x, R, S) == Cardinality(Preceding(x, R, S))

LEMMA RankType ==
  ASSUME NEW S, IsFiniteSet(S), NEW R, Ordered(R, S), NEW x \in S
  PROVE  Rank(x, R, S) \in 0 .. Cardinality(S) - 1
<1>1. Preceding(x, R, S) \in SUBSET S /\ x \notin Preceding(x, R, S)
  BY DEF Ordered, Preceding
<1>2. IsFiniteSet(Preceding(x, R, S)) /\ Rank(x, R, S) <= Cardinality(S)
      /\ (Cardinality(S) = Rank(x, R, S) => S = Preceding(x, R, S))
  BY <1>1, FS_Subset DEF Rank
<1>3. Rank(x, R, S) \in Nat /\ Cardinality(S) \in Nat
  BY <1>2, FS_CardinalityType DEF Rank
<1> QED BY <1>1, <1>2, <1>3

\* The earlier of two elements has fewer before it.
LEMMA RankGrows ==
  ASSUME NEW S, IsFiniteSet(S), NEW R, Ordered(R, S), NEW x \in S, NEW y \in S, <<x, y>> \in R
  PROVE  Rank(x, R, S) < Rank(y, R, S)
<1>1. Preceding(x, R, S) \in SUBSET Preceding(y, R, S)
  BY DEF Ordered, Preceding
<1>2. x \in Preceding(y, R, S) /\ x \notin Preceding(x, R, S)
  BY DEF Ordered, Preceding
<1>3. IsFiniteSet(Preceding(y, R, S))
  <2>1. Preceding(y, R, S) \in SUBSET S
    BY DEF Preceding
  <2> QED BY <2>1, FS_Subset
<1>4. /\ IsFiniteSet(Preceding(x, R, S)) /\ Rank(x, R, S) <= Rank(y, R, S)
      /\ Rank(y, R, S) = Rank(x, R, S) => Preceding(y, R, S) = Preceding(x, R, S)
  BY <1>1, <1>3, FS_Subset DEF Rank
<1>5. Rank(x, R, S) \in Nat /\ Rank(y, R, S) \in Nat
  BY <1>3, <1>4, FS_CardinalityType DEF Rank
<1> QED BY <1>2, <1>4, <1>5

\* Different elements have different ranks.
LEMMA RankTells ==
  ASSUME NEW S, IsFiniteSet(S), NEW R, Ordered(R, S), NEW x \in S, NEW y \in S,
         Rank(x, R, S) = Rank(y, R, S)
  PROVE  x = y
<1>1. Rank(x, R, S) \in Int
  BY RankType
<1>2. <<x, y>> \notin R /\ <<y, x>> \notin R
  BY <1>1, RankGrows
<1> QED BY <1>2 DEF Ordered

\* Every place of the enumeration is taken.
LEMMA RankTaken ==
  ASSUME NEW S, IsFiniteSet(S), NEW R, Ordered(R, S), NEW n \in 1 .. Cardinality(S)
  PROVE  \E x \in S : Rank(x, R, S) = n - 1
<1> DEFINE T == 0 .. Cardinality(S) - 1
           f == [x \in S |-> Rank(x, R, S)]
<1>1. Cardinality(S) \in Nat
  BY FS_CardinalityType
<1>2. IsFiniteSet(T) /\ Cardinality(T) = Cardinality(S)
  <2>1. Cardinality(S) - 1 \in Int
    BY <1>1
  <2>2. /\ IsFiniteSet(T)
        /\ Cardinality(T) = IF 0 > Cardinality(S) - 1 THEN 0 ELSE (Cardinality(S) - 1) - 0 + 1
    BY <2>1, FS_Interval
  <2> QED BY <1>1, <2>2
<1>3. f \in Injection(S, T)
  BY RankType, RankTells DEF Injection, IsInjective
<1>4. f \in Surjection(S, T)
  <2> HIDE DEF f
  <2> QED BY <1>2, <1>3, FS_Injection
<1>5. n - 1 \in T
  BY <1>1
<1> QED BY <1>4, <1>5 DEF Surjection

-----------------------------------------------------------------------------
(* Numbers                                                                 *)

\* A finite set of numbers has a least one.
LEMMA LeastExists ==
  ASSUME NEW S \in SUBSET Int, IsFiniteSet(S), S # {}
  PROVE  \E n \in S : \A m \in S : n <= m
<1> DEFINE R == {p \in S \X S : p[1] < p[2]}
<1>1. Ordered(R, S)
  BY DEF Ordered
<1>2. 1 \in 1 .. Cardinality(S)
  BY FS_CardinalityType, FS_EmptySet
<1>3. PICK n \in S : Rank(n, R, S) = 0
  <2> HIDE DEF R
  <2>1. \E n \in S : Rank(n, R, S) = 1 - 1
    BY <1>1, <1>2, RankTaken
  <2> QED BY <2>1
<1>4. Preceding(n, R, S) = {}
  <2>1. Preceding(n, R, S) \in SUBSET S
    BY DEF Preceding
  <2>2. IsFiniteSet(Preceding(n, R, S))
    BY <2>1, FS_Subset
  <2> QED BY <1>3, <2>2, FS_EmptySet DEF Rank
<1>5. \A m \in S : ~(m < n)
  BY <1>4 DEF Preceding
<1>6. n \in Int /\ \A m \in S : m \in Int
  OBVIOUS
<1> QED BY <1>5, <1>6

\* And a greatest one.
LEMMA GreatestExists ==
  ASSUME NEW S \in SUBSET Int, IsFiniteSet(S), S # {}
  PROVE  \E n \in S : \A m \in S : m <= n
<1> DEFINE R == {p \in S \X S : p[1] > p[2]}
<1>1. Ordered(R, S)
  BY DEF Ordered
<1>2. 1 \in 1 .. Cardinality(S)
  BY FS_CardinalityType, FS_EmptySet
<1>3. PICK n \in S : Rank(n, R, S) = 0
  <2> HIDE DEF R
  <2>1. \E n \in S : Rank(n, R, S) = 1 - 1
    BY <1>1, <1>2, RankTaken
  <2> QED BY <2>1
<1>4. Preceding(n, R, S) = {}
  <2>1. Preceding(n, R, S) \in SUBSET S
    BY DEF Preceding
  <2>2. IsFiniteSet(Preceding(n, R, S))
    BY <2>1, FS_Subset
  <2> QED BY <1>3, <2>2, FS_EmptySet DEF Rank
<1>5. \A m \in S : ~(m > n)
  BY <1>4 DEF Preceding
<1>6. n \in Int /\ \A m \in S : m \in Int
  OBVIOUS
<1> QED BY <1>5, <1>6

\* A finite set of numbers can be listed in ascending order.
LEMMA Ascends ==
  ASSUME NEW S \in SUBSET Int, IsFiniteSet(S)
  PROVE  \E f \in [1 .. Cardinality(S) -> S] :
           \A i, j \in 1 .. Cardinality(S) : i < j => f[i] < f[j]
<1> DEFINE R == {p \in S \X S : p[1] < p[2]}
           f == [n \in 1 .. Cardinality(S) |-> CHOOSE x \in S : Rank(x, R, S) = n - 1]
<1>1. Ordered(R, S)
  BY DEF Ordered
<1> HIDE DEF R
<1>2. \A n \in 1 .. Cardinality(S) : f[n] \in S /\ Rank(f[n], R, S) = n - 1
  <2> SUFFICES ASSUME NEW n \in 1 .. Cardinality(S)
               PROVE  f[n] \in S /\ Rank(f[n], R, S) = n - 1
    OBVIOUS
  <2>1. \E x \in S : Rank(x, R, S) = n - 1
    BY <1>1, RankTaken
  <2> QED BY <2>1
<1>3. f \in [1 .. Cardinality(S) -> S]
  BY <1>2
<1>4. ASSUME NEW i \in 1 .. Cardinality(S), NEW j \in 1 .. Cardinality(S), i < j
      PROVE  f[i] < f[j]
  <2> HIDE DEF f
  <2>1. Cardinality(S) \in Nat
    BY FS_CardinalityType
  <2>2. f[i] \in S /\ f[j] \in S /\ Rank(f[i], R, S) < Rank(f[j], R, S)
    BY <1>2, <1>4, <2>1
  <2>3. <<f[j], f[i]>> \notin R
    <3> SUFFICES ASSUME <<f[j], f[i]>> \in R PROVE FALSE
      OBVIOUS
    <3>1. Rank(f[j], R, S) < Rank(f[i], R, S)
      BY <1>1, <2>2, RankGrows
    <3>2. Rank(f[i], R, S) \in Int /\ Rank(f[j], R, S) \in Int
      BY <1>1, <2>2, RankType
    <3> QED BY <2>2, <3>1, <3>2
  <2>4. f[i] # f[j]
    <3>1. Rank(f[i], R, S) \in Int
      BY <1>1, <2>2, RankType
    <3> QED BY <2>2, <3>1
  <2>5. ~(f[j] < f[i])
    BY <2>2, <2>3 DEF R
  <2>6. f[i] \in Int /\ f[j] \in Int
    BY <2>2
  <2> QED BY <2>4, <2>5, <2>6
<1> QED BY <1>3, <1>4

\* Functions on 1 .. n are the sequences of length n.
LEMMA FunctionIsSeq ==
  ASSUME NEW n \in Nat, NEW S, NEW f \in [1 .. n -> S]
  PROVE  f \in Seq(S) /\ Len(f) = n /\ DOMAIN f = 1 .. n
OBVIOUS

-----------------------------------------------------------------------------
(* Induction and recursion                                                 *)

\* Induction up to n, with the numbers a statement holds for as a set.
LEMMA UpTo ==
  ASSUME NEW n \in Nat, NEW S, 0 \in S, \A i \in 0 .. n - 1 : i \in S => i + 1 \in S
  PROVE  0 .. n \subseteq S
<1> DEFINE C == {i \in 0 .. n : i \notin S}
<1>1. C \in SUBSET Int /\ IsFiniteSet(C)
  <2>1. IsFiniteSet(0 .. n)
    BY FS_Interval
  <2>2. C \in SUBSET (0 .. n) /\ C \in SUBSET Int
    OBVIOUS
  <2> QED BY <2>1, <2>2, FS_Subset
<1>2. SUFFICES ASSUME C # {} PROVE FALSE
  OBVIOUS
<1>3. PICK i \in C : \A j \in C : i <= j
  <2> HIDE DEF C
  <2> QED BY <1>1, <1>2, LeastExists
<1>4. i \in 1 .. n /\ i \notin S
  OBVIOUS
<1>5. i - 1 \in 0 .. n - 1 /\ i - 1 \notin C
  BY <1>3, <1>4
<1>6. i - 1 \in S
  BY <1>5
<1>7. (i - 1) + 1 \in S
  BY <1>5, <1>6
<1> QED BY <1>4, <1>7

\* f is defined by recursion up to n, from its value at 0.
Unfolds(f, n, a, h) == f = [i \in 0 .. n |-> IF i = 0 THEN a ELSE h[<<i, f[i - 1]>>]]

\* A function on 0 .. n can be defined by what it is at 0 and how it goes on.
LEMMA Recursion ==
  ASSUME NEW n \in Nat, NEW V, NEW a \in V, NEW h \in [(1 .. n) \X V -> V]
  PROVE  \E f \in [0 .. n -> V] : Unfolds(f, n, a, h)
<1> DEFINE Good(k, f) == f[0] = a /\ \A i \in 1 .. k : f[i] = h[<<i, f[i - 1]>>]
           S == {k \in 0 .. n : \E f \in [0 .. k -> V] : Good(k, f)}
<1>1. 0 \in S
  <2>1. [i \in 0 .. 0 |-> a] \in [0 .. 0 -> V] /\ Good(0, [i \in 0 .. 0 |-> a])
    OBVIOUS
  <2> HIDE DEF Good
  <2> QED BY <2>1
<1>2. ASSUME NEW k \in 0 .. n - 1, k \in S PROVE k + 1 \in S
  <2>1. PICK f \in [0 .. k -> V] : Good(k, f)
    BY <1>2
  <2> DEFINE g == [i \in 0 .. k + 1 |-> IF i = k + 1 THEN h[<<k + 1, f[k]>>] ELSE f[i]]
  <2>2. g \in [0 .. k + 1 -> V]
    OBVIOUS
  <2>3. Good(k + 1, g)
    <3>1. g[0] = a
      BY <2>1
    <3>2. ASSUME NEW i \in 1 .. k + 1 PROVE g[i] = h[<<i, g[i - 1]>>]
      <4>1. i - 1 \in 0 .. k /\ g[i - 1] = f[i - 1]
        OBVIOUS
      <4>2. CASE i = k + 1
        <5>1. g[k + 1] = h[<<k + 1, f[k]>>] /\ g[k] = f[k]
          OBVIOUS
        <5>2. (k + 1) - 1 = k
          OBVIOUS
        <5> HIDE DEF g
        <5> QED BY <4>2, <5>1, <5>2
      <4>3. CASE i # k + 1
        BY <2>1, <4>1, <4>3
      <4> QED BY <4>2, <4>3
    <3> QED BY <3>1, <3>2
  <2> HIDE DEF g, Good
  <2> QED BY <2>2, <2>3
<1>3. n \in S
  <2> HIDE DEF S
  <2> QED BY <1>1, <1>2, UpTo
<1>4. PICK f \in [0 .. n -> V] : Good(n, f)
  BY <1>3
<1>5. f = [i \in 0 .. n |-> f[i]]
  OBVIOUS
<1>6. \A i \in 0 .. n : f[i] = IF i = 0 THEN a ELSE h[<<i, f[i - 1]>>]
  BY <1>4
<1>7. f = [i \in 0 .. n |-> IF i = 0 THEN a ELSE h[<<i, f[i - 1]>>]]
  BY <1>5, <1>6
<1> QED BY <1>7 DEF Unfolds

\* c chooses an element of each subset of S.
Chooses(c, S) == \A s \in SUBSET S : s # {} => c[s] \in s

\* g is defined by recursion over the subsets of S, from a set to the set without the chosen element.
Follows(g, S, a, h, c) ==
  g = [s \in SUBSET S |-> IF s = {} THEN a ELSE h[<<c[s], g[s \ {c[s]}]>>]]

LEMMA SetRecursion ==
  ASSUME NEW S, IsFiniteSet(S), NEW V, NEW a \in V, NEW h \in [S \X V -> V],
         NEW c, Chooses(c, S)
  PROVE  \E g \in [SUBSET S -> V] : Follows(g, S, a, h, c)
<1> DEFINE Small(k) == {s \in SUBSET S : Cardinality(s) <= k}
           Good(k, g) == \A s \in Small(k) : g[s] = IF s = {} THEN a ELSE h[<<c[s], g[s \ {c[s]}]>>]
           n == Cardinality(S)
           T == {k \in 0 .. n : \E g \in [Small(k) -> V] : Good(k, g)}
<1>1. n \in Nat
  BY FS_CardinalityType
<1>2. \A s \in SUBSET S : IsFiniteSet(s) /\ Cardinality(s) \in 0 .. n
  <2> SUFFICES ASSUME NEW s \in SUBSET S PROVE IsFiniteSet(s) /\ Cardinality(s) \in 0 .. n
    OBVIOUS
  <2>1. IsFiniteSet(s) /\ Cardinality(s) <= n
    BY FS_Subset
  <2> QED BY <1>1, <2>1, FS_CardinalityType
<1>3. ASSUME NEW s \in SUBSET S, s # {}
      PROVE  /\ c[s] \in s /\ s \ {c[s]} \in SUBSET S
             /\ Cardinality(s \ {c[s]}) = Cardinality(s) - 1
  <2>1. c[s] \in s /\ IsFiniteSet(s)
    BY <1>2, <1>3 DEF Chooses
  <2> QED BY <2>1, FS_RemoveElement
<1> HIDE DEF n
<1>4. 0 \in T
  <2> DEFINE g == [s \in Small(0) |-> a]
  <2>1. \A s \in Small(0) : s = {}
    <3> SUFFICES ASSUME NEW s \in Small(0) PROVE s = {}
      OBVIOUS
    <3>1. IsFiniteSet(s) /\ Cardinality(s) = 0
      BY <1>2
    <3> QED BY <3>1, FS_EmptySet
  <2>2. g \in [Small(0) -> V] /\ Good(0, g)
    BY <2>1
  <2> HIDE DEF g, Good, Small
  <2> QED BY <1>1, <2>2
<1>5. ASSUME NEW k \in 0 .. n - 1, k \in T PROVE k + 1 \in T
  <2>1. PICK f \in [Small(k) -> V] : Good(k, f)
    BY <1>5
  <2> DEFINE g == [s \in Small(k + 1) |->
                     IF s \in Small(k) THEN f[s] ELSE h[<<c[s], f[s \ {c[s]}]>>]]
  <2>2. ASSUME NEW s \in Small(k + 1), s # {}
        PROVE  c[s] \in S /\ s \ {c[s]} \in Small(k)
    <3>1. /\ c[s] \in s /\ s \ {c[s]} \in SUBSET S
          /\ Cardinality(s \ {c[s]}) = Cardinality(s) - 1
      BY <1>3, <2>2
    <3>2. Cardinality(s) \in Int /\ Cardinality(s) <= k + 1
      BY <1>1, <1>2
    <3> QED BY <1>1, <3>1, <3>2
  <2>3. ASSUME NEW s \in Small(k + 1) PROVE g[s] \in V
    <3>1. CASE s \in Small(k)
      BY <3>1
    <3>2. CASE s \notin Small(k)
      <4>1. s # {}
        <5>1. Cardinality({}) = 0 /\ {} \in Small(k)
          BY FS_EmptySet, <1>1
        <5> QED BY <3>2, <5>1
      <4>2. c[s] \in S /\ f[s \ {c[s]}] \in V
        BY <2>2, <4>1
      <4>3. g[s] = h[<<c[s], f[s \ {c[s]}]>>]
        BY <3>2
      <4> HIDE DEF g, Small
      <4> QED BY <4>2, <4>3
    <3> QED BY <3>1, <3>2
  <2>4. g \in [Small(k + 1) -> V]
    <3> HIDE DEF Small
    <3> QED BY <2>3
  <2>5. ASSUME NEW s \in Small(k + 1)
        PROVE  g[s] = IF s = {} THEN a ELSE h[<<c[s], g[s \ {c[s]}]>>]
    <3>1. \A t \in Small(k) : t \in Small(k + 1) /\ g[t] = f[t]
      <4>1. ASSUME NEW t \in Small(k) PROVE t \in Small(k + 1)
        <5>1. Cardinality(t) \in Int
          BY <1>2, <1>1
        <5> QED BY <1>1, <5>1
      <4> HIDE DEF Small
      <4> QED BY <4>1
    <3>2. {} \in Small(k)
      BY FS_EmptySet, <1>1
    <3>3. CASE s = {}
      <4>1. g[s] = f[s] /\ f[s] = a
        <5>1. s \in Small(k)
          BY <3>2, <3>3
        <5> HIDE DEF g, Small
        <5> QED BY <2>1, <3>1, <3>3, <5>1
      <4> HIDE DEF g, Small
      <4> QED BY <3>3, <4>1
    <3>4. CASE s # {} /\ s \in Small(k)
      <4>1. g[s] = f[s] /\ f[s] = h[<<c[s], f[s \ {c[s]}]>>]
        <5> HIDE DEF g, Small
        <5> QED BY <2>1, <3>1, <3>4
      <4>2. s \ {c[s]} \in Small(k)
        <5>1. /\ s \ {c[s]} \in SUBSET S
              /\ Cardinality(s \ {c[s]}) = Cardinality(s) - 1
          BY <1>3, <3>4
        <5>2. Cardinality(s) \in Int /\ Cardinality(s) <= k
          BY <1>1, <1>2, <3>4
        <5> QED BY <1>1, <5>1, <5>2
      <4> HIDE DEF g, Small
      <4> QED BY <3>1, <3>4, <4>1, <4>2
    <3>5. CASE s # {} /\ s \notin Small(k)
      <4>1. g[s] = h[<<c[s], f[s \ {c[s]}]>>]
        BY <3>5
      <4>2. s \ {c[s]} \in Small(k)
        BY <2>2, <3>5
      <4> HIDE DEF g, Small
      <4> QED BY <3>1, <3>5, <4>1, <4>2
    <3> QED BY <3>3, <3>4, <3>5
  <2>6. Good(k + 1, g)
    BY <2>5
  <2> HIDE DEF g, Good, Small
  <2> QED BY <1>1, <2>4, <2>6
<1>6. n \in T
  <2> HIDE DEF T
  <2> QED BY <1>1, <1>4, <1>5, UpTo
<1>7. PICK g \in [Small(n) -> V] : Good(n, g)
  BY <1>6
<1>8. Small(n) = SUBSET S
  BY <1>1, <1>2
<1>9. g \in [SUBSET S -> V] /\ g = [s \in SUBSET S |-> g[s]]
  <2> HIDE DEF Small
  <2> QED BY <1>7, <1>8
<1>10. \A s \in SUBSET S : g[s] = IF s = {} THEN a ELSE h[<<c[s], g[s \ {c[s]}]>>]
  BY <1>7, <1>8
<1>11. g = [s \in SUBSET S |-> IF s = {} THEN a ELSE h[<<c[s], g[s \ {c[s]}]>>]]
  BY <1>9, <1>10
<1> QED BY <1>9, <1>11 DEF Follows

\* Induction over the subsets of a finite set.
LEMMA SubsetsUpTo ==
  ASSUME NEW S, IsFiniteSet(S), NEW P, {} \in P,
         \A s \in SUBSET S : s # {} /\ (\A x \in s : s \ {x} \in P) => s \in P
  PROVE  SUBSET S \subseteq P
<1> DEFINE n == Cardinality(S)
           T == {k \in 0 .. n : \A s \in SUBSET S : Cardinality(s) = k => s \in P}
<1>1. n \in Nat
  BY FS_CardinalityType
<1>2. \A s \in SUBSET S : IsFiniteSet(s) /\ Cardinality(s) \in 0 .. n
  <2> SUFFICES ASSUME NEW s \in SUBSET S PROVE IsFiniteSet(s) /\ Cardinality(s) \in 0 .. n
    OBVIOUS
  <2>1. IsFiniteSet(s) /\ Cardinality(s) <= n
    BY FS_Subset
  <2> QED BY <1>1, <2>1, FS_CardinalityType
<1> HIDE DEF n
<1>3. 0 \in T
  <2>1. ASSUME NEW s \in SUBSET S, Cardinality(s) = 0 PROVE s \in P
    BY <1>2, <2>1, FS_EmptySet
  <2> QED BY <1>1, <2>1
<1>4. ASSUME NEW k \in 0 .. n - 1, k \in T PROVE k + 1 \in T
  <2>1. ASSUME NEW s \in SUBSET S, Cardinality(s) = k + 1 PROVE s \in P
    <3>1. IsFiniteSet(s)
      BY <1>2
    <3>2. s # {}
      <4>1. Cardinality({}) = 0 /\ k + 1 # 0
        BY <1>1, FS_EmptySet
      <4> QED BY <2>1, <4>1
    <3>3. ASSUME NEW x \in s PROVE s \ {x} \in P
      <4>1. Cardinality(s \ {x}) = Cardinality(s) - 1
        BY <3>1, FS_RemoveElement
      <4>2. Cardinality(s \ {x}) = k /\ s \ {x} \in SUBSET S
        BY <1>1, <2>1, <4>1
      <4> QED BY <1>4, <4>2
    <3> QED BY <3>2, <3>3
  <2> QED BY <1>1, <2>1
<1>5. 0 .. n \subseteq T
  <2> HIDE DEF T
  <2> QED BY <1>1, <1>3, <1>4, UpTo
<1> QED BY <1>2, <1>5

\* What does not fall from one number to the next does not fall at all.
LEMMA StepwiseGrows ==
  ASSUME NEW m \in Nat, NEW n \in Nat, NEW f, \A i \in m .. n : f[i] \in Int,
         \A i \in m .. n - 1 : f[i] <= f[i + 1],
         NEW i \in m .. n, NEW j \in m .. n, i <= j
  PROVE  f[i] <= f[j]
<1> DEFINE S == {k \in 0 .. n - i : f[i] <= f[i + k]}
<1>1. n - i \in Nat /\ j - i \in 0 .. n - i /\ i + (j - i) = j /\ i + 0 = i
  OBVIOUS
<1>2. 0 \in S
  BY <1>1
<1>3. ASSUME NEW k \in 0 .. (n - i) - 1, k \in S PROVE k + 1 \in S
  <2>1. i + k \in m .. n - 1 /\ (i + k) + 1 = i + (k + 1) /\ i + (k + 1) \in m .. n
    OBVIOUS
  <2>2. f[i] \in Int /\ f[i + k] \in Int /\ f[i + (k + 1)] \in Int
    BY <2>1
  <2>3. f[i] <= f[i + k] /\ f[i + k] <= f[i + (k + 1)]
    BY <1>3, <2>1
  <2> QED BY <1>1, <2>2, <2>3
<1>4. 0 .. n - i \subseteq S
  <2> HIDE DEF S
  <2> QED BY <1>1, <1>2, <1>3, UpTo
<1> QED BY <1>1, <1>4

\* The running sums of u, from 0.
Accumulates(f, n, u) == f = [i \in 0 .. n |-> IF i = 0 THEN 0 ELSE f[i - 1] + u[i]]

LEMMA AccumulateType ==
  ASSUME NEW n \in Nat, NEW u \in [1 .. n -> Nat], NEW f, Accumulates(f, n, u)
  PROVE  /\ f \in [0 .. n -> Nat] /\ f[0] = 0
         /\ \A i \in 1 .. n : f[i] = f[i - 1] + u[i]
<1>1. f[0] = 0 /\ \A i \in 1 .. n : f[i] = f[i - 1] + u[i]
  <2>1. 0 \in 0 .. n /\ \A i \in 1 .. n : i \in 0 .. n /\ i # 0
    OBVIOUS
  <2>2. \A i \in 0 .. n : f[i] = IF i = 0 THEN 0 ELSE f[i - 1] + u[i]
    BY DEF Accumulates
  <2> QED BY <2>1, <2>2
<1> DEFINE S == {k \in 0 .. n : f[k] \in Nat}
<1>2. 0 \in S
  BY <1>1
<1>3. ASSUME NEW k \in 0 .. n - 1, k \in S PROVE k + 1 \in S
  <2>1. k + 1 \in 1 .. n /\ (k + 1) - 1 = k
    OBVIOUS
  <2>2. f[k + 1] = f[k] + u[k + 1] /\ u[k + 1] \in Nat /\ f[k] \in Nat
    BY <1>1, <1>3, <2>1
  <2> QED BY <2>1, <2>2
<1>4. 0 .. n \subseteq S
  <2> HIDE DEF S
  <2> QED BY <1>2, <1>3, UpTo
<1>5. f = [i \in 0 .. n |-> f[i]]
  BY DEF Accumulates
<1> QED BY <1>1, <1>4, <1>5

LEMMA AccumulateExists ==
  ASSUME NEW n \in Nat, NEW u \in [1 .. n -> Nat]
  PROVE  \E f : Accumulates(f, n, u)
<1> DEFINE V == Nat
           h == [x \in (1 .. n) \X V |-> x[2] + u[x[1]]]
<1>1. h \in [(1 .. n) \X V -> V] /\ 0 \in V
  OBVIOUS
<1>2. PICK g \in [0 .. n -> V] : Unfolds(g, n, 0, h)
  <2> HIDE DEF h, V
  <2> QED BY <1>1, Recursion
<1>3. ASSUME NEW i \in 0 .. n PROVE g[i] = IF i = 0 THEN 0 ELSE g[i - 1] + u[i]
  <2>1. g[i] = IF i = 0 THEN 0 ELSE h[<<i, g[i - 1]>>]
    <3> HIDE DEF h, V
    <3> QED BY <1>2 DEF Unfolds
  <2>2. i # 0 => i \in 1 .. n /\ i - 1 \in 0 .. n
    OBVIOUS
  <2>3. i # 0 => h[<<i, g[i - 1]>>] = g[i - 1] + u[i]
    BY <2>2
  <2> HIDE DEF h
  <2> QED BY <2>1, <2>3
<1>4. g = [i \in 0 .. n |-> g[i]]
  OBVIOUS
<1>5. Accumulates(g, n, u)
  <2> HIDE DEF V
  <2> QED BY <1>3, <1>4 DEF Accumulates
<1> QED BY <1>5

\* The same from 1, each place before its own.
Precedes(f, n, u) == f = [i \in 1 .. n |-> IF i = 1 THEN 0 ELSE f[i - 1] + u[i - 1]]

LEMMA PrecedeType ==
  ASSUME NEW n \in Nat, NEW u \in [1 .. n -> Nat], NEW f, Precedes(f, n, u)
  PROVE  /\ f \in [1 .. n -> Nat] /\ (n > 0 => f[1] = 0)
         /\ \A i \in 1 .. n - 1 : f[i + 1] = f[i] + u[i]
<1>1. (n > 0 => f[1] = 0) /\ \A i \in 1 .. n - 1 : f[i + 1] = f[i] + u[i]
  <2>1. /\ n > 0 => 1 \in 1 .. n
        /\ \A i \in 1 .. n - 1 : i + 1 \in 1 .. n /\ i + 1 # 1 /\ (i + 1) - 1 = i
    OBVIOUS
  <2>2. \A i \in 1 .. n : f[i] = IF i = 1 THEN 0 ELSE f[i - 1] + u[i - 1]
    BY DEF Precedes
  <2> QED BY <2>1, <2>2
<1> DEFINE S == {k \in 0 .. n : k # 0 => f[k] \in Nat}
<1>2. 0 \in S
  OBVIOUS
<1>3. ASSUME NEW k \in 0 .. n - 1, k \in S PROVE k + 1 \in S
  <2>1. CASE k = 0
    BY <1>1, <2>1
  <2>2. CASE k # 0
    <3>1. k \in 1 .. n - 1 /\ k \in 1 .. n
      BY <2>2
    <3>2. f[k + 1] = f[k] + u[k] /\ u[k] \in Nat /\ f[k] \in Nat
      BY <1>1, <1>3, <3>1
    <3> QED BY <3>1, <3>2
  <2> QED BY <2>1, <2>2
<1>4. 0 .. n \subseteq S
  <2> HIDE DEF S
  <2> QED BY <1>2, <1>3, UpTo
<1>5. f = [i \in 1 .. n |-> f[i]]
  BY DEF Precedes
<1>6. \A i \in 1 .. n : f[i] \in Nat
  BY <1>4
<1> QED BY <1>1, <1>5, <1>6

LEMMA PrecedeExists ==
  ASSUME NEW n \in Nat, NEW u \in [1 .. n -> Nat]
  PROVE  \E f : Precedes(f, n, u)
<1>1. PICK g : Accumulates(g, n, u)
  BY AccumulateExists
<1>2. g[0] = 0 /\ \A i \in 1 .. n : g[i] = g[i - 1] + u[i]
  BY <1>1, AccumulateType
<1> DEFINE f == [i \in 1 .. n |-> g[i - 1]]
<1>3. ASSUME NEW i \in 1 .. n PROVE f[i] = IF i = 1 THEN 0 ELSE f[i - 1] + u[i - 1]
  <2>1. f[i] = g[i - 1]
    OBVIOUS
  <2>2. CASE i = 1
    BY <1>2, <2>1, <2>2
  <2>3. CASE i # 1
    <3>1. i - 1 \in 1 .. n
      BY <2>3
    <3>2. f[i - 1] = g[(i - 1) - 1] /\ g[i - 1] = g[(i - 1) - 1] + u[i - 1]
      BY <1>2, <3>1
    <3> QED BY <2>1, <2>3, <3>2
  <2> QED BY <2>2, <2>3
<1>4. f = [i \in 1 .. n |-> f[i]]
  OBVIOUS
<1>5. Precedes(f, n, u)
  <2> HIDE DEF f
  <2> QED BY <1>3, <1>4 DEF Precedes
<1> QED BY <1>5

-----------------------------------------------------------------------------
(* Sums over finite sets, whatever order a fold takes the elements in       *)

\* What a fold that adds the weights of a finite set's elements to b amounts to.
Adds(it, D, u, b) ==
  it = [s \in SUBSET D |->
          IF s = {} THEN b ELSE it[s \ {CHOOSE x \in s : TRUE}] + u[CHOOSE x \in s : TRUE]]

LEMMA SumExists ==
  ASSUME NEW D, IsFiniteSet(D), NEW u \in [D -> Nat], NEW b \in Nat
  PROVE  \E g : Adds(g, D, u, b)
<1> DEFINE V == Nat
           h == [p \in D \X V |-> p[2] + u[p[1]]]
           c == [s \in SUBSET D |-> CHOOSE x \in s : TRUE]
<1>1. h \in [D \X V -> V] /\ b \in V
  OBVIOUS
<1>2. Chooses(c, D)
  BY DEF Chooses
<1>3. PICK g \in [SUBSET D -> V] : Follows(g, D, b, h, c)
  <2> HIDE DEF h, c, V
  <2> QED BY <1>1, <1>2, SetRecursion
<1>4. ASSUME NEW s \in SUBSET D, s # {}
      PROVE  g[s] = g[s \ {CHOOSE x \in s : TRUE}] + u[CHOOSE x \in s : TRUE]
  <2>1. c[s] \in D /\ s \ {c[s]} \in SUBSET D
    BY <1>2, <1>4 DEF Chooses
  <2>2. g[s \ {c[s]}] \in V
    BY <2>1
  <2>3. g[s] = h[<<c[s], g[s \ {c[s]}]>>]
    <3> HIDE DEF h, c
    <3> QED BY <1>3, <1>4 DEF Follows
  <2>4. h[<<c[s], g[s \ {c[s]}]>>] = g[s \ {c[s]}] + u[c[s]]
    <3> HIDE DEF c
    <3> QED BY <2>1, <2>2
  <2>5. c[s] = CHOOSE x \in s : TRUE
    OBVIOUS
  <2> HIDE DEF h, c
  <2> QED BY <2>3, <2>4, <2>5
<1>5. g[{}] = b
  <2> HIDE DEF h, c
  <2> QED BY <1>3 DEF Follows
<1>6. g = [s \in SUBSET D |-> g[s]]
  OBVIOUS
<1>7. Adds(g, D, u, b)
  BY <1>4, <1>5, <1>6 DEF Adds
<1> QED BY <1>7

LEMMA SumType ==
  ASSUME NEW D, IsFiniteSet(D), NEW u \in [D -> Nat], NEW b \in Nat, NEW it, Adds(it, D, u, b)
  PROVE  it[D] \in Nat
<1> DEFINE P == {s \in SUBSET D : it[s] \in Nat}
<1>1. {} \in P
  BY DEF Adds
<1>2. ASSUME NEW s \in SUBSET D, s # {}, \A x \in s : s \ {x} \in P PROVE s \in P
  <2>1. it[s] = it[s \ {CHOOSE x \in s : TRUE}] + u[CHOOSE x \in s : TRUE]
    BY <1>2 DEF Adds
  <2>2. (CHOOSE x \in s : TRUE) \in s
    BY <1>2
  <2>3. it[s \ {CHOOSE x \in s : TRUE}] \in Nat /\ u[CHOOSE x \in s : TRUE] \in Nat
    BY <1>2, <2>2
  <2>4. it[s] \in Nat
    BY <2>1, <2>3
  <2> QED BY <2>4
<1>3. SUBSET D \subseteq P
  <2> HIDE DEF P
  <2> QED BY <1>1, <1>2, SubsetsUpTo
<1> QED BY <1>3
=============================================================================
