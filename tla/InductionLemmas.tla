-------------------------- MODULE InductionLemmas --------------------------
(***************************************************************************)
(* Induction on natural numbers with a set in place of a predicate, so     *)
(* that what a recursive definition computes can be proved: the induction  *)
(* theorems of the library take an operator, these take the set of the     *)
(* numbers for which the statement holds. Sums along a list, defined by    *)
(* recursion, and the enumeration of a finite set in an order, as a        *)
(* listing does it, follow from it.                                        *)
(***************************************************************************)
EXTENDS Integers, Sequences, WellFoundedInduction, FiniteSetTheorems, TLAPS

\* Every set of natural numbers has a least one.
LEMMA LeastNumber ==
  ASSUME NEW T, T \subseteq Nat, T # {}
  PROVE  \E n \in T : \A k \in T : ~(k < n)
<1>1. PICK n \in T : \A k \in T : <<k, n>> \notin OpToRel(<, Nat)
  BY NatLessThanWellFounded, WFMin
<1>2. ASSUME NEW k \in T PROVE ~(k < n)
  BY <1>1, <1>2 DEF OpToRel
<1> QED BY <1>2

\* ... and CHOOSE finds it.
LEMMA LeastIsChosen ==
  ASSUME NEW T, T \subseteq Nat, T # {}
  PROVE  LET n == CHOOSE n \in T : \A k \in T : n <= k IN n \in T /\ \A k \in T : n <= k
<1>1. PICK n \in T : \A k \in T : ~(k < n)
  BY LeastNumber
<1>2. \A k \in T : n <= k
  BY <1>1
<1> QED BY <1>2

\* ... and a greatest, when they have a bound.
LEMMA GreatestIsChosen ==
  ASSUME NEW m \in Nat, NEW T, T \subseteq 1..m, T # {}
  PROVE  LET n == CHOOSE n \in T : \A k \in T : k <= n IN n \in T /\ \A k \in T : k <= n
<1> DEFINE U == {m - k : k \in T}
<1>1. U \subseteq Nat /\ U # {}
  <2>1. \A k \in T : m - k \in Nat
    OBVIOUS
  <2>2. U \subseteq Nat
    BY <2>1
  <2> QED BY <2>2
<1>2. PICK u \in U : \A v \in U : ~(v < u)
  BY <1>1, LeastNumber
<1>3. PICK n \in T : u = m - n
  BY <1>2
<1>4. ASSUME NEW k \in T PROVE k <= n
  <2>1. ~(m - k < m - n)
    BY <1>2, <1>3
  <2> QED BY <2>1
<1> QED BY <1>3, <1>4

\* A set with 0 and every successor has all natural numbers.
LEMMA InductionOverASet ==
  ASSUME NEW S, 0 \in S, \A n \in Nat : n \in S => n + 1 \in S
  PROVE  Nat \subseteq S
<1> DEFINE T == Nat \ S
<1>1. SUFFICES ASSUME T # {} PROVE FALSE
  OBVIOUS
<1>2. PICK n \in T : \A k \in T : ~(k < n)
  BY <1>1, LeastNumber
<1>3. n # 0 /\ n \in Nat
  BY <1>2
<1>4. n - 1 \in Nat /\ n - 1 < n /\ (n - 1) + 1 = n
  BY <1>3
<1> QED BY <1>2, <1>3, <1>4

\* f is computed from the base on, each value by a step from the one before.
Recursion(f, base, step, n) ==
  \A i \in 0..n : f[i] = IF i = 0 THEN base ELSE step[<<f[i - 1], i>>]

\* There is such a function on 0..n when the values stay in V.
LEMMA RecursionExists ==
  ASSUME NEW V, NEW base \in V, NEW n \in Nat, NEW step \in [V \X (1..n) -> V]
  PROVE  \E f \in [0..n -> V] : Recursion(f, base, step, n)
<1> DEFINE Value(f, i) == IF i = 0 THEN base ELSE step[<<f[i - 1], i>>]
           Upto(k) == {f \in [0..k -> V] : \A i \in 0..k : f[i] = Value(f, i)}
           S == {k \in Nat : k <= n => \E f : f \in Upto(k)}
<1>1. 0 \in S
  <2>1. [i \in 0..0 |-> base] \in Upto(0)
    OBVIOUS
  <2> QED BY <2>1
<1>2. ASSUME NEW k \in Nat, k \in S PROVE k + 1 \in S
  <2> SUFFICES ASSUME k + 1 <= n PROVE \E f : f \in Upto(k + 1)
    <3> HIDE DEF Upto
    <3>1. k + 1 \in Nat  OBVIOUS
    <3> QED BY <3>1
  <2>1. k <= n /\ k + 1 \in 1..n
    OBVIOUS
  <2>2. PICK g \in Upto(k) : TRUE
    <3> HIDE DEF Upto
    <3> QED BY <1>2, <2>1
  <2> DEFINE v == step[<<g[k], k + 1>>]
             h == [i \in 0..(k + 1) |-> IF i = k + 1 THEN v ELSE g[i]]
  <2>3. v \in V
    BY <2>1, <2>2
  <2>4. h \in [0..(k + 1) -> V]
    BY <2>2, <2>3
  <2>5. ASSUME NEW i \in 0..(k + 1) PROVE h[i] = Value(h, i)
    <3>1. CASE i = k + 1
      <4>1. h[i] = v /\ h[i - 1] = g[k] /\ i # 0 /\ i - 1 = k
        BY <3>1
      <4> QED BY <3>1, <4>1
    <3>2. CASE i \in 1..k
      <4>1. h[i] = g[i] /\ h[i - 1] = g[i - 1] /\ i # 0 /\ i \in 0..k
        BY <3>2
      <4>2. g[i] = Value(g, i)
        BY <2>2, <4>1
      <4> QED BY <4>1, <4>2
    <3>3. CASE i = 0
      <4>1. 0 \in 0..k /\ i # k + 1 /\ i \in 0..(k + 1)
        BY <3>3
      <4>2. g[0] = Value(g, 0)
        BY <2>2, <4>1
      <4>3. h[i] = g[0]
        BY <3>3, <4>1
      <4> QED BY <3>3, <4>2, <4>3
    <3> QED BY <3>1, <3>2, <3>3
  <2> QED BY <2>4, <2>5
<1> HIDE DEF S
<1>3. n \in S
  BY <1>1, <1>2, InductionOverASet
<1>4. n <= n
  OBVIOUS
<1>5. PICK f : f \in Upto(n)
  <2> HIDE DEF Upto
  <2> QED BY <1>3, <1>4 DEF S
<1> QED BY <1>5 DEF Recursion

-----------------------------------------------------------------------------
(* Sums, written as a recursive function of the number of summands.        *)

SumTo(w, n) ==
  LET upto[i \in 0..n] == IF i = 0 THEN 0 ELSE upto[i - 1] + w[i] IN upto[n]

\* The partial sums of integers are a function.
LEMMA PartialSums ==
  ASSUME NEW w, NEW n \in Nat, \A i \in 1..n : w[i] \in Int
  PROVE  \E f \in [0..n -> Int] :
           /\ SumTo(w, n) = f[n] /\ f[0] = 0
           /\ \A i \in 1..n : f[i] = f[i - 1] + w[i]
<1> DEFINE Value(f, i) == IF i = 0 THEN 0 ELSE f[i - 1] + w[i]
           upto == CHOOSE f : f = [i \in 0..n |-> Value(f, i)]
           step == [p \in Int \X (1..n) |-> p[1] + w[p[2]]]
<1>1. step \in [Int \X (1..n) -> Int]
  OBVIOUS
<1>2. PICK f \in [0..n -> Int] : Recursion(f, 0, step, n)
  <2>1. 0 \in Int  OBVIOUS
  <2> HIDE DEF step
  <2> QED BY <1>1, <2>1, RecursionExists
<1>3. ASSUME NEW i \in 0..n PROVE f[i] = Value(f, i)
  <2>1. i = 0 \/ (i \in 1..n /\ i - 1 \in 0..n)  OBVIOUS
  <2>2. i # 0 => <<f[i - 1], i>> \in Int \X (1..n)  BY <2>1
  <2> QED BY <1>2, <2>1, <2>2 DEF Recursion
<1>4. f = [i \in 0..n |-> Value(f, i)]
  BY <1>3
<1>5. upto = [i \in 0..n |-> Value(upto, i)]
  BY <1>4
<1>6. SumTo(w, n) = upto[n]
  BY DEF SumTo
<1> HIDE DEF upto
<1>7. upto[0] = 0 /\ \A i \in 1..n : upto[i] = upto[i - 1] + w[i]
  BY <1>5
<1> DEFINE S == {k \in Nat : k <= n => upto[k] \in Int}
<1>8. 0 \in S
  BY <1>7
<1>9. ASSUME NEW k \in Nat, k \in S PROVE k + 1 \in S
  <2> SUFFICES ASSUME k + 1 <= n PROVE upto[k + 1] \in Int
    OBVIOUS
  <2>1. k + 1 \in 1..n /\ (k + 1) - 1 = k /\ upto[k] \in Int
    BY <1>9
  <2>2. upto[k + 1] = upto[k] + w[k + 1]
    BY <1>7, <2>1
  <2> QED BY <2>1, <2>2
<1> HIDE DEF S
<1>10. \A k \in Nat : k \in S
  BY <1>8, <1>9, InductionOverASet
<1>11. upto \in [0..n -> Int]
  <2>1. \A i \in 0..n : upto[i] \in Int
    BY <1>10 DEF S
  <2> QED BY <1>5, <2>1
<1> QED BY <1>6, <1>7, <1>11

\* Two sums with the same summands are the same.
LEMMA SumOfTheSame ==
  ASSUME NEW n \in Nat, NEW v, NEW w, \A i \in 1..n : v[i] \in Int /\ w[i] = v[i]
  PROVE  SumTo(v, n) = SumTo(w, n)
<1>1. PICK f \in [0..n -> Int] :
        SumTo(v, n) = f[n] /\ f[0] = 0 /\ \A i \in 1..n : f[i] = f[i - 1] + v[i]
  BY PartialSums
<1>2. PICK g \in [0..n -> Int] :
        SumTo(w, n) = g[n] /\ g[0] = 0 /\ \A i \in 1..n : g[i] = g[i - 1] + w[i]
  BY PartialSums
<1> DEFINE S == {k \in Nat : k <= n => f[k] = g[k]}
<1>3. 0 \in S
  BY <1>1, <1>2
<1>4. ASSUME NEW k \in Nat, k \in S PROVE k + 1 \in S
  <2> SUFFICES ASSUME k + 1 <= n PROVE f[k + 1] = g[k + 1]
    OBVIOUS
  <2>1. k + 1 \in 1..n /\ (k + 1) - 1 = k /\ f[k] = g[k]
    BY <1>4
  <2> QED BY <1>1, <1>2, <2>1
<1> HIDE DEF S
<1>5. \A k \in Nat : k \in S
  BY <1>3, <1>4, InductionOverASet
<1> QED BY <1>1, <1>2, <1>5 DEF S

\* A sum of nothing, and of one summand more.
LEMMA SumOneMore ==
  ASSUME NEW w, NEW n \in Nat, \A i \in 1..n : w[i] \in Int
  PROVE  /\ SumTo(w, n) \in Int /\ (n = 0 => SumTo(w, n) = 0)
         /\ n # 0 => SumTo(w, n) = SumTo(w, n - 1) + w[n]
<1>1. PICK f \in [0..n -> Int] :
        SumTo(w, n) = f[n] /\ f[0] = 0 /\ \A i \in 1..n : f[i] = f[i - 1] + w[i]
  BY PartialSums
<1>2. CASE n = 0
  BY <1>1, <1>2
<1>3. CASE n # 0
  <2>1. n - 1 \in Nat /\ \A i \in 1..(n - 1) : w[i] \in Int /\ i \in 1..n
    BY <1>3
  <2>2. PICK g \in [0..(n - 1) -> Int] :
          SumTo(w, n - 1) = g[n - 1] /\ g[0] = 0 /\ \A i \in 1..(n - 1) : g[i] = g[i - 1] + w[i]
    BY <2>1, PartialSums
  <2> DEFINE S == {k \in Nat : k <= n - 1 => f[k] = g[k]}
  <2>3. 0 \in S
    BY <1>1, <2>2
  <2>4. ASSUME NEW k \in Nat, k \in S PROVE k + 1 \in S
    <3> SUFFICES ASSUME k + 1 <= n - 1 PROVE f[k + 1] = g[k + 1]
      OBVIOUS
    <3>1. k + 1 \in 1..(n - 1) /\ k + 1 \in 1..n /\ (k + 1) - 1 = k /\ f[k] = g[k]
      BY <2>4
    <3> QED BY <1>1, <2>2, <3>1
  <2> HIDE DEF S
  <2>5. \A k \in Nat : k \in S
    BY <2>3, <2>4, InductionOverASet
  <2>6. f[n - 1] = g[n - 1]
    BY <2>1, <2>5 DEF S
  <2>7. n \in 1..n /\ f[n] = f[n - 1] + w[n] /\ f[n] \in Int
    BY <1>1, <1>3
  <2> QED BY <1>1, <1>3, <2>2, <2>6, <2>7
<1> QED BY <1>2, <1>3

\* A sum of natural numbers is one.
LEMMA SumOfNats ==
  ASSUME NEW w, NEW n \in Nat, \A i \in 1..n : w[i] \in Nat
  PROVE  SumTo(w, n) \in Nat
<1> DEFINE S == {k \in Nat : k <= n => SumTo(w, k) \in Nat}
<1>1. 0 \in S
  BY SumOneMore
<1>2. ASSUME NEW k \in Nat, k \in S PROVE k + 1 \in S
  <2> SUFFICES ASSUME k + 1 <= n PROVE SumTo(w, k + 1) \in Nat
    OBVIOUS
  <2>1. k + 1 \in 1..n /\ (k + 1) - 1 = k /\ SumTo(w, k) \in Nat /\ w[k + 1] \in Nat
        /\ k + 1 \in Nat /\ \A i \in 1..(k + 1) : w[i] \in Int
    BY <1>2
  <2>2. SumTo(w, k + 1) = SumTo(w, (k + 1) - 1) + w[k + 1]
    BY <2>1, SumOneMore
  <2> QED BY <2>1, <2>2
<1> HIDE DEF S
<1>3. \A k \in Nat : k \in S
  BY <1>1, <1>2, InductionOverASet
<1> QED BY <1>3 DEF S

\* The sum of one row of numbers after another.
LEMMA SumOfTwoParts ==
  ASSUME NEW n \in Nat, NEW m \in Nat, NEW w, NEW v,
         \A i \in 1..(n + m) : w[i] \in Int, \A i \in 1..m : v[i] = w[n + i]
  PROVE  SumTo(w, n + m) = SumTo(w, n) + SumTo(v, m)
<1> DEFINE S == {k \in Nat : k <= m => SumTo(w, n + k) = SumTo(w, n) + SumTo(v, k)}
<1>1. SumTo(w, n) \in Int
  <2>1. \A i \in 1..n : w[i] \in Int  OBVIOUS
  <2> QED BY <2>1, SumOneMore
<1>2. 0 \in S
  <2>1. SumTo(v, 0) = 0  BY SumOneMore
  <2>2. n + 0 = n  OBVIOUS
  <2> QED BY <1>1, <2>1, <2>2
<1>3. ASSUME NEW k \in Nat, k \in S PROVE k + 1 \in S
  <2> SUFFICES ASSUME k + 1 <= m PROVE SumTo(w, n + (k + 1)) = SumTo(w, n) + SumTo(v, k + 1)
    OBVIOUS
  <2>1. /\ k + 1 \in Nat /\ n + (k + 1) \in Nat /\ k + 1 # 0 /\ n + (k + 1) # 0
        /\ (k + 1) - 1 = k /\ (n + (k + 1)) - 1 = n + k /\ k + 1 \in 1..m
    OBVIOUS
  <2>2. SumTo(w, n + k) = SumTo(w, n) + SumTo(v, k)
    BY <1>3
  <2>3. \A i \in 1..(n + (k + 1)) : w[i] \in Int
    OBVIOUS
  <2>4. \A i \in 1..(k + 1) : v[i] \in Int
    <3> SUFFICES ASSUME NEW i \in 1..(k + 1) PROVE v[i] \in Int
      OBVIOUS
    <3>1. i \in 1..m /\ n + i \in 1..(n + m)  OBVIOUS
    <3> QED BY <3>1
  <2>5. SumTo(w, n + (k + 1)) = SumTo(w, n + k) + w[n + (k + 1)]
    BY <2>1, <2>3, SumOneMore
  <2>6. SumTo(v, k + 1) = SumTo(v, k) + v[k + 1] /\ v[k + 1] = w[n + (k + 1)] /\ v[k + 1] \in Int
    BY <2>1, <2>4, SumOneMore
  <2>7. SumTo(v, k) \in Int
    <3>1. \A i \in 1..k : v[i] \in Int  BY <2>4
    <3> QED BY <3>1, SumOneMore
  <2> QED BY <1>1, <2>2, <2>5, <2>6, <2>7
<1> HIDE DEF S
<1>4. \A k \in Nat : k \in S
  BY <1>2, <1>3, InductionOverASet
<1> QED BY <1>4 DEF S

\* Sums are added term by term.
LEMMA SumOfSums ==
  ASSUME NEW n \in Nat, NEW u, NEW v, NEW w,
         \A i \in 1..n : u[i] \in Int /\ v[i] \in Int /\ w[i] = u[i] + v[i]
  PROVE  SumTo(w, n) = SumTo(u, n) + SumTo(v, n)
<1> DEFINE S == {k \in Nat : k <= n => SumTo(w, k) = SumTo(u, k) + SumTo(v, k)}
<1>1. 0 \in S
  BY SumOneMore
<1>2. ASSUME NEW k \in Nat, k \in S PROVE k + 1 \in S
  <2> SUFFICES ASSUME k + 1 <= n PROVE SumTo(w, k + 1) = SumTo(u, k + 1) + SumTo(v, k + 1)
    OBVIOUS
  <2>1. /\ k + 1 \in Nat /\ k + 1 # 0 /\ (k + 1) - 1 = k /\ k + 1 \in 1..n
        /\ \A i \in 1..(k + 1) : i \in 1..n
    OBVIOUS
  <2>2. SumTo(w, k) = SumTo(u, k) + SumTo(v, k)
    BY <1>2
  <2>3. /\ \A i \in 1..(k + 1) : u[i] \in Int /\ v[i] \in Int /\ w[i] \in Int
        /\ \A i \in 1..k : u[i] \in Int /\ v[i] \in Int
    BY <2>1
  <2>4. /\ SumTo(u, k + 1) = SumTo(u, k) + u[k + 1] /\ SumTo(v, k + 1) = SumTo(v, k) + v[k + 1]
        /\ SumTo(w, k + 1) = SumTo(w, k) + w[k + 1]
    BY <2>1, <2>3, SumOneMore
  <2>5. SumTo(u, k) \in Int /\ SumTo(v, k) \in Int
    BY <2>3, SumOneMore
  <2> QED BY <2>1, <2>2, <2>4, <2>5
<1> HIDE DEF S
<1>3. \A k \in Nat : k \in S
  BY <1>1, <1>2, InductionOverASet
<1> QED BY <1>3 DEF S

\* ... and backwards.
LEMMA SumReversed ==
  ASSUME NEW n \in Nat, NEW w, NEW v,
         \A i \in 1..n : w[i] \in Int, \A i \in 1..n : v[i] = w[(n - i) + 1]
  PROVE  SumTo(v, n) = SumTo(w, n)
<1> DEFINE S == {k \in Nat : k <= n => SumTo(v, k) = SumTo(w, n) - SumTo(w, n - k)}
<1>1. \A k \in Nat : k <= n => SumTo(w, k) \in Int
  <2> SUFFICES ASSUME NEW k \in Nat, k <= n PROVE SumTo(w, k) \in Int
    OBVIOUS
  <2>1. \A i \in 1..k : w[i] \in Int  OBVIOUS
  <2> QED BY <2>1, SumOneMore
<1>2. 0 \in S
  <2>1. SumTo(v, 0) = 0  BY SumOneMore
  <2>2. n - 0 = n /\ n <= n  OBVIOUS
  <2> QED BY <1>1, <2>1, <2>2
<1>3. ASSUME NEW k \in Nat, k \in S PROVE k + 1 \in S
  <2> SUFFICES ASSUME k + 1 <= n PROVE SumTo(v, k + 1) = SumTo(w, n) - SumTo(w, n - (k + 1))
    OBVIOUS
  <2>1. /\ k + 1 \in Nat /\ k + 1 # 0 /\ (k + 1) - 1 = k /\ k + 1 \in 1..n
        /\ n - k \in Nat /\ n - k # 0 /\ (n - k) - 1 = n - (k + 1) /\ n - k \in 1..n
        /\ (n - (k + 1)) + 1 = n - k /\ n - (k + 1) \in Nat /\ n - (k + 1) <= n
    OBVIOUS
  <2>2. SumTo(v, k) = SumTo(w, n) - SumTo(w, n - k)
    BY <1>3
  <2>3. \A i \in 1..(n - k) : w[i] \in Int
    OBVIOUS
  <2>4. \A i \in 1..(k + 1) : v[i] \in Int
    <3> SUFFICES ASSUME NEW i \in 1..(k + 1) PROVE v[i] \in Int
      OBVIOUS
    <3>1. i \in 1..n /\ (n - i) + 1 \in 1..n  OBVIOUS
    <3> QED BY <3>1
  <2>5. SumTo(w, n - k) = SumTo(w, n - (k + 1)) + w[n - k]
    BY <2>1, <2>3, SumOneMore
  <2>6. SumTo(v, k + 1) = SumTo(v, k) + w[n - k] /\ w[n - k] \in Int
    BY <2>1, <2>4, SumOneMore
  <2>7. SumTo(w, n) \in Int /\ SumTo(w, n - (k + 1)) \in Int /\ SumTo(w, n - k) \in Int
    <3>1. n <= n /\ n - k <= n  OBVIOUS
    <3> QED BY <1>1, <2>1, <3>1
  <2> QED BY <2>2, <2>5, <2>6, <2>7
<1> HIDE DEF S
<1>4. \A k \in Nat : k \in S
  BY <1>2, <1>3, InductionOverASet
<1>5. SumTo(v, n) = SumTo(w, n) - SumTo(w, n - n) /\ n - n = 0 /\ n <= n
  BY <1>4 DEF S
<1>6. SumTo(w, 0) = 0
  BY SumOneMore
<1> QED BY <1>1, <1>5, <1>6

-----------------------------------------------------------------------------
(* A finite set in an order: each element has as its place the number of   *)
(* those that are not after it.                                            *)

\* R holds the pairs <<i, j>> of the set I in which i is not after j.
IsOrder(R, I) ==
  /\ \A i, j \in I : <<i, j>> \in R \/ <<j, i>> \in R
  /\ \A i, j \in I : <<i, j>> \in R /\ <<j, i>> \in R => i = j
  /\ \A i, j, k \in I : <<i, j>> \in R /\ <<j, k>> \in R => <<i, k>> \in R
Place(R, I, i) == Cardinality({j \in I : <<j, i>> \in R})

\* Each element has a place of its own, and a later one comes later.
LEMMA PlacesAreDistinct ==
  ASSUME NEW I, IsFiniteSet(I), NEW R, IsOrder(R, I)
  PROVE  /\ Cardinality(I) \in Nat
         /\ \A i \in I : Place(R, I, i) \in 1..Cardinality(I)
         /\ \A i, j \in I : i # j /\ <<i, j>> \in R => Place(R, I, i) < Place(R, I, j)
<1>1. Cardinality(I) \in Nat
  BY FS_CardinalityType
<1>2. ASSUME NEW i \in I PROVE Place(R, I, i) \in 1..Cardinality(I)
  <2> DEFINE U == {j \in I : <<j, i>> \in R}
  <2>1. U \in SUBSET I /\ i \in U  BY DEF IsOrder
  <2>2. Place(R, I, i) = Cardinality(U)  BY DEF Place
  <2> HIDE DEF U
  <2>3. IsFiniteSet(U) /\ Cardinality(U) <= Cardinality(I)  BY <2>1, FS_Subset
  <2>4. Cardinality(U) \in Nat  BY <2>3, FS_CardinalityType
  <2>5. Cardinality(U) # 0  BY <2>1, <2>3, FS_EmptySet
  <2> QED BY <1>1, <2>2, <2>3, <2>4, <2>5
<1>3. ASSUME NEW i \in I, NEW j \in I, i # j, <<i, j>> \in R PROVE Place(R, I, i) < Place(R, I, j)
  <2> DEFINE U == {k \in I : <<k, i>> \in R}
             W == {k \in I : <<k, j>> \in R}
  <2>1. U \in SUBSET W /\ W \in SUBSET I /\ j \in W /\ j \notin U
    BY <1>3 DEF IsOrder
  <2>2. Place(R, I, i) = Cardinality(U) /\ Place(R, I, j) = Cardinality(W)  BY DEF Place
  <2> HIDE DEF U, W
  <2>3. IsFiniteSet(W)  BY <2>1, FS_Subset
  <2>4. IsFiniteSet(U) /\ Cardinality(U) <= Cardinality(W)  BY <2>1, <2>3, FS_Subset
  <2>5. Cardinality(U) # Cardinality(W)  BY <2>1, <2>3, FS_Subset
  <2>6. Cardinality(U) \in Nat /\ Cardinality(W) \in Nat  BY <2>3, <2>4, FS_CardinalityType
  <2> QED BY <2>2, <2>4, <2>5, <2>6
<1> QED BY <1>1, <1>2, <1>3

\* The elements one after the other: every one is found at its place.
LEMMA PlacesEnumerate ==
  ASSUME NEW I, IsFiniteSet(I), NEW R, IsOrder(R, I)
  PROVE  \E s \in [1..Cardinality(I) -> I] :
           /\ \A k \in 1..Cardinality(I) : s[k] = CHOOSE i \in I : Place(R, I, i) = k
           /\ \A k \in 1..Cardinality(I) : Place(R, I, s[k]) = k
           /\ \A k, l \in 1..Cardinality(I) : k < l => <<s[k], s[l]>> \in R /\ s[k] # s[l]
           /\ {s[k] : k \in 1..Cardinality(I)} = I
<1> DEFINE n == Cardinality(I)
           r == [i \in I |-> Place(R, I, i)]
           s == [k \in 1..n |-> CHOOSE i \in I : Place(R, I, i) = k]
<1>1. n \in Nat /\ \A i \in I : Place(R, I, i) \in 1..n
  BY PlacesAreDistinct
<1>2. \A i, j \in I : i # j /\ <<i, j>> \in R => Place(R, I, i) < Place(R, I, j)
  BY PlacesAreDistinct
<1>3. ASSUME NEW i \in I, NEW j \in I, Place(R, I, i) = Place(R, I, j) PROVE i = j
  <2>1. ~(Place(R, I, i) < Place(R, I, j)) /\ ~(Place(R, I, j) < Place(R, I, i))
    BY <1>1, <1>3
  <2> QED BY <1>2, <2>1 DEF IsOrder
<1>4. r \in Injection(I, 1..n)
  <2>1. r \in [I -> 1..n]  BY <1>1
  <2>2. \A i, j \in I : r[i] = r[j] => i = j  BY <1>3
  <2> HIDE DEF r, n
  <2>3. IsInjective(r)  BY <2>1, <2>2 DEF IsInjective
  <2> QED BY <2>1, <2>3 DEF Injection
<1>5. IsFiniteSet(1..n) /\ Cardinality(1..n) = n
  <2> HIDE DEF n
  <2>1. 1 \in Int /\ n \in Int  BY <1>1
  <2>2. IsFiniteSet(1..n) /\ Cardinality(1..n) = IF 1 > n THEN 0 ELSE n - 1 + 1
    BY <2>1, FS_Interval
  <2> QED BY <1>1, <2>2
<1>6. r \in Surjection(I, 1..n)
  <2>1. Cardinality(I) = Cardinality(1..n)  BY <1>5
  <2> HIDE DEF r, n
  <2> QED BY <1>4, <1>5, <2>1, FS_Injection
<1>7. \A k \in 1..n : \E i \in I : Place(R, I, i) = k
  <2>1. \A k \in 1..n : \E i \in I : r[i] = k
    <3> HIDE DEF r
    <3> QED BY <1>6 DEF Surjection
  <2> QED BY <2>1
<1>8. \A k \in 1..n : s[k] \in I /\ Place(R, I, s[k]) = k
  BY <1>7
<1>9. \A i \in I : s[Place(R, I, i)] = i
  BY <1>1, <1>3, <1>8
<1>10. s \in [1..n -> I] /\ \A k \in 1..n : s[k] = CHOOSE i \in I : Place(R, I, i) = k
  BY <1>8
<1>13. \A k \in 1..n : Place(R, I, s[k]) = k
  BY <1>8
<1> HIDE DEF s, n
<1>11. ASSUME NEW k \in 1..n, NEW l \in 1..n, k < l PROVE <<s[k], s[l]>> \in R /\ s[k] # s[l]
  <2>1. s[k] \in I /\ s[l] \in I  BY <1>8
  <2>2. s[k] # s[l]  BY <1>8, <1>11
  <2>3. <<s[l], s[k]>> \notin R
    <3>1. ~(l < k)  BY <1>11
    <3> QED BY <1>2, <1>8, <2>2, <3>1
  <2> QED BY <2>1, <2>2, <2>3 DEF IsOrder
<1>12. {s[k] : k \in 1..n} = I
  BY <1>1, <1>8, <1>9
<1> QED BY <1>10, <1>11, <1>12, <1>13 DEF n

\* A last one is among them.
LEMMA OrdersHaveALast ==
  ASSUME NEW I, IsFiniteSet(I), I # {}, NEW R, IsOrder(R, I)
  PROVE  \E i \in I : \A j \in I : <<j, i>> \in R
<1> DEFINE n == Cardinality(I)
<1>1. n \in Nat /\ n # 0
  BY FS_CardinalityType, FS_EmptySet
<1>2. PICK s \in [1..n -> I] :
        /\ \A k, l \in 1..n : k < l => <<s[k], s[l]>> \in R /\ s[k] # s[l]
        /\ {s[k] : k \in 1..n} = I
  BY PlacesEnumerate
<1> HIDE DEF n
<1>3. n \in 1..n /\ s[n] \in I
  BY <1>1, <1>2
<1>4. ASSUME NEW j \in I PROVE <<j, s[n]>> \in R
  <2>1. PICK k \in 1..n : s[k] = j
    BY <1>2
  <2>2. CASE k = n
    BY <1>3, <2>1, <2>2 DEF IsOrder
  <2>3. CASE k # n
    <3>1. k < n
      BY <1>1, <2>3
    <3> QED BY <1>2, <1>3, <2>1, <3>1
  <2> QED BY <2>2, <2>3
<1> QED BY <1>3, <1>4

\* No more than n of them are among the first n.
LEMMA FirstPlaces ==
  ASSUME NEW I, IsFiniteSet(I), NEW R, IsOrder(R, I), NEW n \in Nat,
         NEW K, K \subseteq I, \A i \in K : Place(R, I, i) <= n
  PROVE  IsFiniteSet(K) /\ Cardinality(K) <= n
<1> DEFINE r == [i \in K |-> Place(R, I, i)]
<1>1. /\ \A i \in I : Place(R, I, i) \in 1..Cardinality(I)
      /\ \A i, j \in I : i # j /\ <<i, j>> \in R => Place(R, I, i) < Place(R, I, j)
      /\ Cardinality(I) \in Nat
  BY PlacesAreDistinct
<1>2. r \in [K -> 1..n]
  BY <1>1
<1>3. \A i, j \in K : r[i] = r[j] => i = j
  <2> SUFFICES ASSUME NEW i \in K, NEW j \in K, r[i] = r[j] PROVE i = j
    OBVIOUS
  <2>1. ~(Place(R, I, i) < Place(R, I, j)) /\ ~(Place(R, I, j) < Place(R, I, i))
    BY <1>1
  <2> QED BY <1>1, <2>1 DEF IsOrder
<1> HIDE DEF r
<1>4. r \in Injection(K, 1..n)
  BY <1>2, <1>3 DEF Injection, IsInjective
<1>5. IsFiniteSet(1..n) /\ Cardinality(1..n) = n
  <2>1. 1 \in Int /\ n \in Int  OBVIOUS
  <2>2. IsFiniteSet(1..n) /\ Cardinality(1..n) = IF 1 > n THEN 0 ELSE n - 1 + 1
    BY <2>1, FS_Interval
  <2> QED BY <2>2
<1>6. IsFiniteSet(K)
  BY FS_Subset
<1> QED BY <1>4, <1>5, <1>6, FS_Injection
=============================================================================
