-------------------------- MODULE SaftExportProofs --------------------------
(***************************************************************************)
(* The SAF-T (AO) export for ledgers of any length, with records of any    *)
(* faults, lines and amounts, and for every period and limit.  Loops over  *)
(* lists are recursive functions; what they compute is proved from the     *)
(* least number for which it would not hold.                               *)
(***************************************************************************)
EXTENDS SaftExport, FiniteSetTheorems, SequenceTheorems, TLAPS

------------------------------------------------------------------------------
(* Lists and loops: the least number, steps of a function, sums.           *)

\* A nonempty set of numbers has a least one.
LEMMA LeastNat == ASSUME NEW T \in SUBSET Nat, T # {} PROVE \E x \in T : \A y \in T : x <= y
<1> DEFINE R == {ss \in Nat \X Nat : ss[1] < ss[2]}
<1>1. IsWellFoundedOn(R, Nat)
  BY NatLessThanWellFounded DEF OpToRel
<1> HIDE DEF R
<1>2. PICK x \in T : \A y \in T : ~ (<<y, x>> \in R)
  BY <1>1, WFMin
<1>3. \A y \in T : ~ (y < x)
  BY <1>2 DEF R
<1> QED BY <1>3

\* What holds at 0 and goes on at each step holds up to n.
LEMMA UpTo ==
  ASSUME NEW n \in Nat, NEW S, 0 \in S, \A i \in 1..n : i - 1 \in S => i \in S
  PROVE  n \in S /\ \A i \in 0..n : i \in S
<1> SUFFICES ASSUME NEW j \in 0..n, j \notin S PROVE FALSE
  OBVIOUS
<1> DEFINE T == {i \in 0..n : i \notin S}
<1>1. T \in SUBSET Nat /\ T # {}
  OBVIOUS
<1>2. PICK x \in T : \A y \in T : x <= y
  BY <1>1, LeastNat
<1>3. x \in 1..n /\ x - 1 \in 0..n /\ ~ (x <= x - 1)
  BY <1>2
<1>4. x - 1 \in S
  BY <1>2, <1>3
<1> QED BY <1>3, <1>4

\* What a function does step by step it does to the end.
Unrolls(f, m, V, b, step) ==
  f \in [0..m -> V] /\ f[0] = b /\ \A i \in 1..m : f[i] = step[i][f[i - 1]]

\* A function can be given step by step.
LEMMA Recursion ==
  ASSUME NEW V, NEW b \in V, NEW n \in Nat, NEW step \in [1..n -> [V -> V]]
  PROVE  \E f : Unrolls(f, n, V, b, step)
<1> DEFINE S == {m \in 0..n : \E f : Unrolls(f, m, V, b, step)}
<1>1. 0 \in S
  <2>1. Unrolls([i \in 0..0 |-> b], 0, V, b, step)
    BY DEF Unrolls
  <2> QED BY <2>1
<1>2. ASSUME NEW i \in 1..n, i - 1 \in S PROVE i \in S
  <2>1. PICK f : Unrolls(f, i - 1, V, b, step)
    BY <1>2
  <2> DEFINE x == step[i][f[i - 1]]
             g == [k \in 0..i |-> IF k = i THEN x ELSE f[k]]
  <2>2. f[i - 1] \in V /\ step[i] \in [V -> V]
    BY <2>1 DEF Unrolls
  <2>3. x \in V /\ x = step[i][f[i - 1]]
    BY <2>2
  <2> HIDE DEF x
  <2>4. g \in [0..i -> V] /\ g[0] = b
    BY <2>1, <2>3 DEF Unrolls
  <2>5. ASSUME NEW k \in 1..i PROVE g[k] = step[k][g[k - 1]]
    <3>1. CASE k = i
      BY <2>3, <3>1
    <3>2. CASE k # i
      <4>1. k \in 1..(i - 1) /\ g[k] = f[k] /\ g[k - 1] = f[k - 1]
        BY <3>2
      <4> QED BY <2>1, <4>1 DEF Unrolls
    <3> QED BY <3>1, <3>2
  <2>6. Unrolls(g, i, V, b, step)
    BY <2>4, <2>5 DEF Unrolls
  <2> QED BY <2>6
<1>3. n \in S
  <2> HIDE DEF S
  <2>1. \A i \in 1..n : i - 1 \in S => i \in S
    BY <1>2
  <2> QED BY <1>1, <2>1, UpTo
<1> QED BY <1>3

\* Functions on 1..n are lists of length n.
LEMMA FunIsList ==
  ASSUME NEW V, NEW n \in Nat, NEW f \in [1..n -> V]
  PROVE  f \in Seq(V) /\ Len(f) = n /\ DOMAIN f = 1..n
  BY SeqDef, LenProperties

\* Lists are functions on 1..Len.
LEMMA ListIsFun ==
  ASSUME NEW V, NEW s \in Seq(V)
  PROVE  Len(s) \in Nat /\ DOMAIN s = 1..Len(s) /\ s \in [1..Len(s) -> V]
  BY LenProperties, ElementOfSeq

LEMMA ListOn ==
  ASSUME NEW V, NEW s \in Seq(V), NEW n, DOMAIN s = 1..n
  PROVE  s \in [1..n -> V]
<1>1. DOMAIN s = 1..Len(s) /\ s \in [1..Len(s) -> V]
  BY ListIsFun
<1> QED BY <1>1, Zenon

\* SumSeq adds up from left to right.
LEMMA SumIs ==
  ASSUME NEW n \in Nat, NEW a \in [1..n -> Int], NEW f \in [0..n -> Int], f[0] = 0,
         \A i \in 1..n : f[i] = f[i - 1] + a[i]
  PROVE  SumSeq(a) = f[n]
<1>1. a \in Seq(Int) /\ Len(a) = n
  BY FunIsList
<1>2. f = [i \in 0..n |-> IF i = 0 THEN 0 ELSE f[i - 1] + a[i]]
  OBVIOUS
<1> DEFINE s == CHOOSE s : s = [i \in 0..n |-> IF i = 0 THEN 0 ELSE s[i - 1] + a[i]]
<1>3. s = [i \in 0..n |-> IF i = 0 THEN 0 ELSE s[i - 1] + a[i]]
  BY <1>2
<1>4. SumSeq(a) = s[n]
  BY <1>1 DEF SumSeq
<1> HIDE DEF s
<1>5. s[0] = 0 /\ \A i \in 1..n : s[i] = s[i - 1] + a[i]
  BY <1>3
<1> DEFINE S == {i \in 0..n : s[i] = f[i]}
<1>6. 0 \in S
  BY <1>5
<1>7. \A i \in 1..n : i - 1 \in S => i \in S
  BY <1>5
<1> HIDE DEF S
<1>8. n \in S
  BY <1>6, <1>7, UpTo
<1> QED BY <1>4, <1>8 DEF S

\* The sums of the first elements of a list.
LEMMA PartialSums ==
  ASSUME NEW n \in Nat, NEW a \in [1..n -> Int]
  PROVE  \E f \in [0..n -> Int] : /\ f[0] = 0 /\ SumSeq(a) = f[n]
                                  /\ \A i \in 1..n : f[i] = f[i - 1] + a[i]
<1> DEFINE step == [i \in 1..n |-> [x \in Int |-> x + a[i]]]
<1>1. step \in [1..n -> [Int -> Int]] /\ 0 \in Int
  OBVIOUS
<1>2. \A i \in 1..n, x \in Int : step[i][x] = x + a[i]
  OBVIOUS
<1> HIDE DEF step
<1>3. PICK f : Unrolls(f, n, Int, 0, step)
  BY <1>1, Recursion
<1>4. f \in [0..n -> Int] /\ f[0] = 0
  BY <1>3 DEF Unrolls
<1>5. ASSUME NEW i \in 1..n PROVE f[i] = f[i - 1] + a[i]
  <2>1. f[i - 1] \in Int
    BY <1>4
  <2> QED BY <1>2, <1>3, <2>1 DEF Unrolls
<1> QED BY <1>4, <1>5, SumIs

\* Sums of integers are integers, of nonnegative ones nonnegative.
LEMMA SumType ==
  ASSUME NEW n \in Nat, NEW a \in [1..n -> Int]
  PROVE  SumSeq(a) \in Int /\ ((\A i \in 1..n : a[i] >= 0) => SumSeq(a) \in Nat)
<1>1. PICK f \in [0..n -> Int] : f[0] = 0 /\ SumSeq(a) = f[n] /\ \A i \in 1..n : f[i] = f[i - 1] + a[i]
  BY PartialSums
<1>2. ASSUME \A i \in 1..n : a[i] >= 0 PROVE f[n] >= 0
  <2> DEFINE S == {i \in 0..n : f[i] >= 0}
  <2>1. 0 \in S
    BY <1>1
  <2>2. \A i \in 1..n : i - 1 \in S => i \in S
    BY <1>1, <1>2
  <2>3. n \in S
    <3> HIDE DEF S
    <3> QED BY <2>1, <2>2, UpTo
  <2> QED BY <2>3
<1> QED BY <1>1, <1>2

\* One more element adds itself.
LEMMA SumLast ==
  ASSUME NEW n \in Nat, NEW a \in [1..n -> Int], NEW b \in [1..(n + 1) -> Int],
         \A i \in 1..n : b[i] = a[i]
  PROVE  SumSeq(b) = SumSeq(a) + b[n + 1]
<1>1. PICK f \in [0..n -> Int] : f[0] = 0 /\ SumSeq(a) = f[n] /\ \A i \in 1..n : f[i] = f[i - 1] + a[i]
  BY PartialSums
<1> DEFINE g == [i \in 0..(n + 1) |-> IF i = n + 1 THEN f[n] + b[n + 1] ELSE f[i]]
<1>2. g \in [0..(n + 1) -> Int] /\ g[0] = 0 /\ g[n + 1] = f[n] + b[n + 1]
  BY <1>1
<1>3. \A i \in 1..(n + 1) : g[i] = g[i - 1] + b[i]
  BY <1>1
<1>4. SumSeq(b) = g[n + 1]
  <2> HIDE DEF g
  <2>1. n + 1 \in Nat
    OBVIOUS
  <2> QED BY <1>2, <1>3, <2>1, SumIs
<1> QED BY <1>1, <1>2, <1>4

\* Sums grow with their elements.
LEMMA SumLeq ==
  ASSUME NEW n \in Nat, NEW a \in [1..n -> Int], NEW b \in [1..n -> Int], \A i \in 1..n : a[i] <= b[i]
  PROVE  SumSeq(a) <= SumSeq(b)
<1>1. PICK f \in [0..n -> Int] : f[0] = 0 /\ SumSeq(a) = f[n] /\ \A i \in 1..n : f[i] = f[i - 1] + a[i]
  BY PartialSums
<1>2. PICK g \in [0..n -> Int] : g[0] = 0 /\ SumSeq(b) = g[n] /\ \A i \in 1..n : g[i] = g[i - 1] + b[i]
  BY PartialSums
<1> DEFINE S == {i \in 0..n : f[i] <= g[i]}
<1>3. 0 \in S
  BY <1>1, <1>2
<1>4. \A i \in 1..n : i - 1 \in S => i \in S
  BY <1>1, <1>2
<1>5. n \in S
  <2> HIDE DEF S
  <2> QED BY <1>3, <1>4, UpTo
<1> QED BY <1>1, <1>2, <1>5

\* Ten times each element is ten times the sum.
LEMMA SumTenfold ==
  ASSUME NEW n \in Nat, NEW a \in [1..n -> Int], NEW b \in [1..n -> Int], \A i \in 1..n : b[i] = a[i] * 10
  PROVE  SumSeq(b) = SumSeq(a) * 10
<1>1. PICK f \in [0..n -> Int] : f[0] = 0 /\ SumSeq(a) = f[n] /\ \A i \in 1..n : f[i] = f[i - 1] + a[i]
  BY PartialSums
<1> DEFINE g == [i \in 0..n |-> f[i] * 10]
<1>2. g \in [0..n -> Int] /\ g[0] = 0 /\ g[n] = f[n] * 10
  BY <1>1
<1>3. \A i \in 1..n : g[i] = g[i - 1] + b[i]
  BY <1>1
<1> HIDE DEF g
<1> QED BY <1>1, <1>2, <1>3, SumIs

\* A list of n + 1 elements without its k-th.
Without(a, n, k) == [i \in 1..n |-> IF i < k THEN a[i] ELSE a[i + 1]]

\* An element taken out takes itself from the sum.
LEMMA SumWithout ==
  ASSUME NEW n \in Nat, NEW a \in [1..(n + 1) -> Int], NEW k \in 1..(n + 1)
  PROVE  SumSeq(a) = SumSeq(Without(a, n, k)) + a[k]
<1> DEFINE b == Without(a, n, k)
<1>1. PICK f \in [0..(n + 1) -> Int] :
        f[0] = 0 /\ SumSeq(a) = f[n + 1] /\ \A i \in 1..(n + 1) : f[i] = f[(i - 1)] + a[i]
  <2>1. n + 1 \in Nat
    OBVIOUS
  <2> QED BY <2>1, PartialSums
<1> DEFINE g == [i \in 0..n |-> IF i < k THEN f[i] ELSE f[i + 1] - a[k]]
<1>2. \A i \in 0..n : f[i] \in Int /\ f[i + 1] \in Int /\ f[i + 1] = f[i] + a[i + 1]
  <2> TAKE i \in 0..n
  <2>1. i \in 0..(n + 1) /\ i + 1 \in 0..(n + 1) /\ i + 1 \in 1..(n + 1) /\ (i + 1) - 1 = i
    OBVIOUS
  <2> QED BY <1>1, <2>1
<1>3. a[k] \in Int /\ \A i \in 1..n : a[i] \in Int /\ a[i + 1] \in Int
  OBVIOUS
<1>4. \A i \in 1..n : b[i] = IF i < k THEN a[i] ELSE a[i + 1]
  BY DEF Without
<1>5. b \in [1..n -> Int]
  BY <1>3 DEF Without
<1>6. g \in [0..n -> Int]
  BY <1>2, <1>3
<1>7. g[0] = 0
  BY <1>1, <1>2, <1>3
<1>8. ASSUME NEW i \in 1..n PROVE g[i] = g[i - 1] + b[i]
  <2>1. i \in 0..n /\ i - 1 \in 0..n /\ (i - 1) + 1 = i
    OBVIOUS
  <2>2. /\ f[i] \in Int /\ f[i + 1] \in Int /\ f[i - 1] \in Int
        /\ f[i + 1] = f[i] + a[i + 1] /\ f[i] = f[i - 1] + a[i]
    BY <1>2, <2>1
  <2>3. g[i] = (IF i < k THEN f[i] ELSE f[i + 1] - a[k]) /\ g[i - 1] = IF i - 1 < k THEN f[i - 1] ELSE f[i] - a[k]
    BY <2>1
  <2>4. b[i] = (IF i < k THEN a[i] ELSE a[i + 1]) /\ a[i] \in Int /\ a[i + 1] \in Int
    BY <1>3, <1>4
  <2> HIDE DEF g, b
  <2>5. CASE i < k
    BY <2>2, <2>3, <2>4, <2>5
  <2>6. CASE i = k
    <3>1. g[i] = f[i + 1] - a[i] /\ g[i - 1] = f[i - 1] /\ b[i] = a[i + 1]
      BY <2>3, <2>4, <2>6
    <3> DEFINE u == f[i - 1]  v == f[i]  w == f[i + 1]  x == a[i]  y == a[i + 1]
    <3>2. u \in Int /\ v \in Int /\ w \in Int /\ x \in Int /\ y \in Int /\ v = u + x /\ w = v + y
      BY <2>2, <2>4
    <3>3. g[i] = w - x /\ g[i - 1] = u /\ b[i] = y
      BY <3>1
    <3> HIDE DEF u, v, w, x, y
    <3> QED BY <3>2, <3>3
  <2>7. CASE i > k
    <3>1. g[i] = f[i + 1] - a[k] /\ g[i - 1] = f[i] - a[k] /\ b[i] = a[i + 1]
      BY <2>3, <2>4, <2>7
    <3> DEFINE u == f[i]  v == f[i + 1]  w == a[k]  x == a[i + 1]
    <3>2. u \in Int /\ v \in Int /\ w \in Int /\ x \in Int /\ v = u + x
      BY <1>3, <2>2, <2>4
    <3>3. g[i] = v - w /\ g[i - 1] = u - w /\ b[i] = x
      BY <3>1
    <3> HIDE DEF u, v, w, x
    <3> QED BY <3>2, <3>3
  <2> QED BY <2>5, <2>6, <2>7
<1>9. g[n] = f[n + 1] - a[k]
  <2>1. g[n] = IF n < k THEN f[n] ELSE f[n + 1] - a[k]
    OBVIOUS
  <2>2. n \in 0..n
    OBVIOUS
  <2>3. f[n + 1] = f[n] + a[n + 1] /\ f[n] \in Int /\ a[n + 1] \in Int
    BY <1>2, <2>2
  <2> HIDE DEF g
  <2>4. CASE n < k
    <3>1. k = n + 1
      BY <2>4
    <3> QED BY <2>1, <2>3, <2>4, <3>1
  <2>5. CASE ~ (n < k)
    BY <2>1, <2>5
  <2> QED BY <2>4, <2>5
<1> HIDE DEF g
<1>10. SumSeq(b) = g[n]
  <2> HIDE DEF b
  <2> QED BY <1>5, <1>6, <1>7, <1>8, SumIs
<1>11. f[n + 1] \in Int
  BY <1>1
<1> QED BY <1>1, <1>3, <1>9, <1>10, <1>11

\* What makes a function a permutation of 1..n.
Permutes(p, n) ==
  /\ p \in [1..n -> 1..n] /\ \A i, j \in 1..n : p[i] = p[j] => i = j
  /\ \A j \in 1..n : \E i \in 1..n : p[i] = j

LEMMA PermutationIs ==
  ASSUME NEW n, NEW p
  PROVE  p \in Bijection(1..n, 1..n) <=> Permutes(p, n)
  BY DEF Bijection, Injection, Surjection, IsInjective, Permutes

\* A permutation of 1..m + 1 without its last value.
Shortened(p, m) == [i \in 1..m |-> IF p[i] < p[m + 1] THEN p[i] ELSE p[i] - 1]

LEMMA ShortenedPermutes ==
  ASSUME NEW m \in Nat, NEW p, Permutes(p, m + 1)
  PROVE  Permutes(Shortened(p, m), m)
<1> DEFINE q == Shortened(p, m)
<1>1. /\ p \in [1..(m + 1) -> 1..(m + 1)] /\ \A i, j \in 1..(m + 1) : p[i] = p[j] => i = j
      /\ \A j \in 1..(m + 1) : \E i \in 1..(m + 1) : p[i] = j
  BY DEF Permutes
<1>2. m + 1 \in 1..(m + 1) /\ \A i \in 1..m : i \in 1..(m + 1) /\ i # m + 1
  OBVIOUS
<1>3. p[m + 1] \in 1..(m + 1)
  BY <1>1, <1>2
<1>4. \A i \in 1..m : p[i] # p[m + 1] /\ p[i] \in 1..(m + 1)
  BY <1>1, <1>2
<1>5. \A i \in 1..m : q[i] = IF p[i] < p[m + 1] THEN p[i] ELSE p[i] - 1
  BY DEF Shortened
<1>6. q \in [1..m -> 1..m]
  <2>1. \A i \in 1..m : (IF p[i] < p[m + 1] THEN p[i] ELSE p[i] - 1) \in 1..m
    BY <1>3, <1>4
  <2> QED BY <2>1 DEF Shortened
<1> HIDE DEF q
<1>7. ASSUME NEW i \in 1..m, NEW j \in 1..m, q[i] = q[j] PROVE i = j
  <2>1. p[i] = p[j]
    BY <1>3, <1>4, <1>5, <1>7
  <2> QED BY <1>1, <1>2, <2>1
<1>8. ASSUME NEW j \in 1..m PROVE \E i \in 1..m : q[i] = j
  <2>1. CASE j < p[m + 1]
    <3>1. PICK i \in 1..(m + 1) : p[i] = j
      BY <1>1, <1>2
    <3>2. i \in 1..m
      BY <2>1, <3>1, <1>3
    <3> QED BY <1>3, <1>5, <2>1, <3>1, <3>2
  <2>2. CASE ~ (j < p[m + 1])
    <3>0. j + 1 \in 1..(m + 1)
      OBVIOUS
    <3>1. PICK i \in 1..(m + 1) : p[i] = j + 1
      BY <1>1, <3>0
    <3>2. i \in 1..m
      BY <2>2, <3>1, <1>3
    <3> QED BY <1>3, <1>5, <2>2, <3>1, <3>2
  <2> QED BY <2>1, <2>2
<1> QED BY <1>6, <1>7, <1>8 DEF Permutes, q

Permuted(a, n, p) == [i \in 1..n |-> a[p[i]]]

\* A sum does not depend on the order.
LEMMA SumPermuted ==
  ASSUME NEW n \in Nat, NEW a \in [1..n -> Int], NEW p, Permutes(p, n)
  PROVE  SumSeq(Permuted(a, n, p)) = SumSeq(a)
<1> DEFINE Same(m) == \A b \in [1..m -> Int], q \in [1..m -> 1..m] :
                        Permutes(q, m) => SumSeq(Permuted(b, m, q)) = SumSeq(b)
           S == {m \in 0..n : Same(m)}
<1>1. 0 \in S
  <2>1. ASSUME NEW b \in [1..0 -> Int], NEW q \in [1..0 -> 1..0]
        PROVE  SumSeq(Permuted(b, 0, q)) = SumSeq(b)
    <3>1. Permuted(b, 0, q) = b
      BY DEF Permuted
    <3> QED BY <3>1
  <2> QED BY <2>1
<1>2. ASSUME NEW m \in Nat, Same(m) PROVE Same(m + 1)
  <2>1. ASSUME NEW b \in [1..(m + 1) -> Int], NEW q \in [1..(m + 1) -> 1..(m + 1)], Permutes(q, m + 1)
        PROVE  SumSeq(Permuted(b, m + 1, q)) = SumSeq(b)
    <3> DEFINE k == q[m + 1]
               c == Without(b, m, k)
               r == Shortened(q, m)
               x == Permuted(b, m + 1, q)
               y == Permuted(c, m, r)
    <3>1. k \in 1..(m + 1) /\ \A i \in 1..m : q[i] \in 1..(m + 1) /\ q[i] # k
      <4>1. m + 1 \in 1..(m + 1) /\ \A i \in 1..m : i \in 1..(m + 1) /\ i # m + 1
        OBVIOUS
      <4>2. \A i, j \in 1..(m + 1) : q[i] = q[j] => i = j
        BY <2>1 DEF Permutes
      <4> QED BY <4>1, <4>2
    <3>2. Permutes(r, m) /\ r \in [1..m -> 1..m] /\ \A i \in 1..m : r[i] = IF q[i] < k THEN q[i] ELSE q[i] - 1
      <4>1. Permutes(r, m)
        BY <2>1, ShortenedPermutes
      <4> QED BY <4>1 DEF Permutes, Shortened
    <3>3. c \in [1..m -> Int] /\ \A i \in 1..m : c[i] = IF i < k THEN b[i] ELSE b[i + 1]
      <4>1. \A i \in 1..m : b[i] \in Int /\ b[i + 1] \in Int
        OBVIOUS
      <4> QED BY <4>1 DEF Without
    <3>4. SumSeq(b) = SumSeq(c) + b[k]
      BY <3>1, SumWithout
    <3> HIDE DEF c, r, k
    <3>5. SumSeq(y) = SumSeq(c)
      BY <1>2, <3>2, <3>3
    <3>6. ASSUME NEW i \in 1..m PROVE x[i] = y[i]
      <4>1. c[r[i]] = b[q[i]]
        <5>1. r[i] \in 1..m /\ q[i] \in 1..(m + 1) /\ q[i] # k /\ r[i] = IF q[i] < k THEN q[i] ELSE q[i] - 1
          BY <3>1, <3>2
        <5>2. c[r[i]] = IF r[i] < k THEN b[r[i]] ELSE b[r[i] + 1]
          BY <3>3, <5>1
        <5>3. CASE q[i] < k
          BY <5>1, <5>2, <5>3
        <5>4. CASE q[i] > k
          <6>1. r[i] = q[i] - 1 /\ ~ (r[i] < k) /\ r[i] + 1 = q[i]
            <7>1. \A u, v, w \in Int : u > v /\ w = u - 1 => ~ (w < v) /\ w + 1 = u
              OBVIOUS
            <7>2. q[i] \in Int /\ k \in Int /\ r[i] = q[i] - 1 /\ r[i] \in Int
              BY <3>1, <5>1, <5>4
            <7> QED BY <5>4, <7>1, <7>2
          <6> QED BY <5>2, <6>1
        <5> QED BY <3>1, <5>1, <5>3, <5>4
      <4>2. x[i] = b[q[i]] /\ y[i] = c[r[i]]
        BY DEF Permuted
      <4> QED BY <4>1, <4>2
    <3>7. x \in [1..(m + 1) -> Int] /\ x[m + 1] = b[k]
      BY DEF Permuted, k
    <3>8. y \in [1..m -> Int]
      BY <3>2, <3>3 DEF Permuted
    <3>9. SumSeq(x) = SumSeq(y) + x[m + 1]
      <4> HIDE DEF x, y
      <4> QED BY <3>6, <3>7, <3>8, SumLast
    <3> QED BY <3>4, <3>5, <3>7, <3>9
  <2> QED BY <2>1
<1>3. n \in S
  <2>1. \A m \in 1..n : m - 1 \in S => m \in S
    <3> TAKE m \in 1..n
    <3> HAVE m - 1 \in S
    <3> HIDE DEF Same
    <3>1. m - 1 \in Nat /\ Same(m - 1) /\ (m - 1) + 1 = m
      OBVIOUS
    <3> QED BY <1>2, <3>1
  <2> HIDE DEF S
  <2> QED BY <1>1, <2>1, UpTo
<1> QED BY <1>3 DEF Permutes

------------------------------------------------------------------------------
(* Picked elements.                                                        *)

\* Append adds one element.
LEMMA RangeAppend ==
  ASSUME NEW V, NEW s \in Seq(V), NEW e \in V
  PROVE  /\ Range(Append(s, e)) = Range(s) \cup {e}
         /\ IsInjective(s) /\ e \notin Range(s) => IsInjective(Append(s, e))
<1> DEFINE t == Append(s, e)
           n == Len(s)
<1>1. /\ n \in Nat /\ DOMAIN s = 1..n /\ DOMAIN t = 1..(n + 1)
      /\ \A i \in 1..n : t[i] = s[i]
      /\ t[n + 1] = e
  BY AppendProperties, ListIsFun
<1> HIDE DEF t, n
<1>2. Range(t) = Range(s) \cup {e}
  <2>1. ASSUME NEW v \in Range(t) PROVE v \in Range(s) \cup {e}
    <3>1. PICK i \in 1..(n + 1) : t[i] = v
      BY <1>1 DEF Range
    <3>2. CASE i = n + 1
      BY <1>1, <3>1, <3>2
    <3>3. CASE i # n + 1
      <4>1. i \in 1..n
        BY <1>1, <3>3
      <4> QED BY <1>1, <3>1, <4>1 DEF Range
    <3> QED BY <3>2, <3>3
  <2>2. ASSUME NEW v \in Range(s) PROVE v \in Range(t)
    <3>1. PICK i \in 1..n : s[i] = v
      BY <1>1 DEF Range
    <3>2. i \in 1..(n + 1) /\ t[i] = v
      BY <1>1, <3>1
    <3> QED BY <1>1, <3>2 DEF Range
  <2>3. e \in Range(t)
    <3>1. n + 1 \in 1..(n + 1)
      BY <1>1
    <3> QED BY <1>1, <3>1 DEF Range
  <2> QED BY <2>1, <2>2, <2>3
<1>3. ASSUME IsInjective(s), e \notin Range(s) PROVE IsInjective(t)
  <2>1. \A i \in 1..n : t[i] # e
    BY <1>1, <1>3 DEF Range
  <2>2. \A i, j \in 1..n : t[i] = t[j] => i = j
    BY <1>1, <1>3 DEF IsInjective
  <2>3. \A i \in 1..(n + 1) : i \in 1..n \/ i = n + 1
    BY <1>1
  <2>4. \A i, j \in 1..(n + 1) : t[i] = t[j] => i = j
    BY <1>1, <2>1, <2>2, <2>3
  <2> QED BY <1>1, <2>4 DEF IsInjective
<1> QED BY <1>2, <1>3 DEF t

\* Picked goes through the list from left to right.
PicksUp(f, s, keep, V) ==
  /\ f \in [0..Len(s) -> Seq(V)] /\ f[0] = <<>> /\ Picked(s, keep) = f[Len(s)]
  /\ \A i \in 1..Len(s) : f[i] = IF i \in keep THEN Append(f[i - 1], s[i]) ELSE f[i - 1]

LEMMA PickedIs ==
  ASSUME NEW V, NEW s \in Seq(V), NEW keep
  PROVE  \E f : PicksUp(f, s, keep, V)
<1> DEFINE n == Len(s)
           step == [i \in 1..n |-> [x \in Seq(V) |-> IF i \in keep THEN Append(x, s[i]) ELSE x]]
<1>1. n \in Nat /\ DOMAIN s = 1..n /\ \A i \in 1..n : s[i] \in V
  BY ListIsFun
<1>2. <<>> \in Seq(V)
  BY EmptySeq
<1>3. \A i \in 1..n, x \in Seq(V) : step[i][x] = IF i \in keep THEN Append(x, s[i]) ELSE x
  OBVIOUS
<1>4. step \in [1..n -> [Seq(V) -> Seq(V)]]
  <2>1. \A i \in 1..n, x \in Seq(V) : (IF i \in keep THEN Append(x, s[i]) ELSE x) \in Seq(V)
    BY <1>1, AppendProperties
  <2> QED BY <2>1
<1> HIDE DEF step
<1>5. PICK f : Unrolls(f, n, Seq(V), <<>>, step)
  <2> HIDE DEF n
  <2> QED BY <1>1, <1>2, <1>4, Recursion
<1>6. f \in [0..n -> Seq(V)] /\ f[0] = <<>>
  BY <1>5 DEF Unrolls
<1>7. ASSUME NEW i \in 1..n PROVE f[i] = IF i \in keep THEN Append(f[i - 1], s[i]) ELSE f[i - 1]
  <2>1. f[i - 1] \in Seq(V)
    BY <1>1, <1>6
  <2>2. f[i] = step[i][f[i - 1]]
    BY <1>5 DEF Unrolls
  <2> QED BY <1>3, <2>1, <2>2
<1> DEFINE F(g) == [i \in 0..n |-> IF i = 0 THEN <<>>
                                    ELSE IF i \in keep THEN Append(g[i - 1], s[i]) ELSE g[i - 1]]
           p == CHOOSE g : g = F(g)
<1>8. f = F(f)
  <2>1. \A i \in 0..n : f[i] = F(f)[i]
    <3> TAKE i \in 0..n
    <3>1. CASE i = 0
      BY <1>6, <3>1
    <3>2. CASE i # 0
      <4>1. i \in 1..n
        BY <1>1, <3>2
      <4>2. f[i] = IF i \in keep THEN Append(f[i - 1], s[i]) ELSE f[i - 1]
        BY <1>7, <4>1
      <4>3. CASE i \in keep
        BY <3>2, <4>2, <4>3
      <4>4. CASE i \notin keep
        BY <3>2, <4>2, <4>4
      <4> QED BY <4>3, <4>4
    <3> QED BY <3>1, <3>2
  <2> QED BY <1>6, <2>1
<1>9. p = F(p)
  <2> HIDE DEF F
  <2> QED BY <1>8
<1>10. Picked(s, keep) = p[n]
  BY DEF Picked
<1> HIDE DEF p
<1>11. p[0] = <<>> /\ \A i \in 1..n : p[i] = IF i \in keep THEN Append(p[i - 1], s[i]) ELSE p[i - 1]
  <2>1. p[0] = F(p)[0] /\ \A i \in 1..n : p[i] = F(p)[i]
    BY <1>9
  <2>2. F(p)[0] = <<>>
    BY <1>1
  <2>3. ASSUME NEW i \in 1..n PROVE F(p)[i] = IF i \in keep THEN Append(p[i - 1], s[i]) ELSE p[i - 1]
    <3>1. i \in 0..n /\ i # 0
      OBVIOUS
    <3>2. CASE i \in keep
      BY <3>1, <3>2
    <3>3. CASE i \notin keep
      BY <3>1, <3>3
    <3> QED BY <3>2, <3>3
  <2> HIDE DEF F
  <2> QED BY <2>1, <2>2, <2>3
<1> DEFINE S == {i \in 0..n : p[i] = f[i]}
<1>12. 0 \in S
  BY <1>1, <1>6, <1>11
<1>13. \A i \in 1..n : i - 1 \in S => i \in S
  BY <1>7, <1>11
<1>14. n \in S
  <2> HIDE DEF S, n
  <2> QED BY <1>1, <1>12, <1>13, UpTo
<1> QED BY <1>6, <1>7, <1>10, <1>14 DEF PicksUp

\* Picked keeps the elements at the indexes, each once.
LEMMA PickedFacts ==
  ASSUME NEW V, NEW s \in Seq(V), NEW keep
  PROVE  /\ Picked(s, keep) \in Seq(V)
         /\ Range(Picked(s, keep)) = {s[i] : i \in keep \cap DOMAIN s}
         /\ IsInjective(s) => IsInjective(Picked(s, keep))
<1> DEFINE n == Len(s)
<1>1. n \in Nat /\ DOMAIN s = 1..n /\ \A i \in 1..n : s[i] \in V
  BY ListIsFun
<1>2. PICK f : PicksUp(f, s, keep, V)
  BY PickedIs
<1>3. /\ f \in [0..n -> Seq(V)] /\ f[0] = <<>> /\ Picked(s, keep) = f[n]
      /\ \A i \in 1..n : f[i] = IF i \in keep THEN Append(f[i - 1], s[i]) ELSE f[i - 1]
  BY <1>2 DEF PicksUp
<1> HIDE DEF n
<1> DEFINE Upto(i) == {s[k] : k \in keep \cap (1..i)}
           S == {i \in 0..n : Range(f[i]) = Upto(i) /\ (IsInjective(s) => IsInjective(f[i]))}
<1>4. 0 \in S
  <2>1. DOMAIN f[0] = {} /\ f[0] = <<>>
    BY <1>3, EmptySeq, LenProperties
  <2>2. 1..0 = {} /\ 0 \in 0..n
    BY <1>1
  <2>3. Range(f[0]) = Upto(0)
    BY <2>1, <2>2 DEF Range
  <2>4. IsInjective(f[0])
    BY <2>1 DEF IsInjective
  <2> QED BY <2>2, <2>3, <2>4
<1>5. ASSUME NEW i \in 1..n, i - 1 \in S PROVE i \in S
  <2>1. /\ f[i - 1] \in Seq(V) /\ s[i] \in V /\ i \in 0..n /\ Range(f[i - 1]) = Upto(i - 1)
        /\ IsInjective(s) => IsInjective(f[i - 1])
    <3>1. i - 1 \in 0..n /\ i \in 0..n
      BY <1>1
    <3>2. Range(f[i - 1]) = Upto(i - 1) /\ (IsInjective(s) => IsInjective(f[i - 1]))
      BY <1>5
    <3>3. f[i - 1] \in Seq(V) /\ s[i] \in V
      BY <1>1, <1>3, <3>1
    <3> QED BY <3>1, <3>2, <3>3
  <2>2. \A k : k \in 1..i <=> k \in 1..(i - 1) \/ k = i
    BY <1>1
  <2>3. CASE i \in keep
    <3>1. f[i] = Append(f[i - 1], s[i])
      BY <1>3, <2>3
    <3>2. Range(f[i]) = Range(f[i - 1]) \cup {s[i]}
      BY <2>1, <3>1, RangeAppend
    <3>3. Upto(i) = Upto(i - 1) \cup {s[i]}
      BY <2>2, <2>3
    <3>4. ASSUME IsInjective(s) PROVE IsInjective(f[i])
      <4>1. \A k \in 1..(i - 1) : k \in DOMAIN s /\ i \in DOMAIN s /\ k # i
        BY <1>1
      <4>2. s[i] \notin Upto(i - 1)
        BY <3>4, <4>1 DEF IsInjective
      <4> QED BY <2>1, <3>1, <3>4, <4>2, RangeAppend
    <3> QED BY <2>1, <3>2, <3>3, <3>4
  <2>4. CASE i \notin keep
    <3>1. f[i] = f[i - 1]
      BY <1>3, <2>4
    <3>2. Upto(i) = Upto(i - 1)
      BY <2>2, <2>4
    <3> QED BY <2>1, <3>1, <3>2
  <2> QED BY <2>3, <2>4
<1>6. n \in S
  <2> HIDE DEF S
  <2> QED BY <1>1, <1>4, <1>5, UpTo
<1>7. f[n] \in Seq(V)
  BY <1>1, <1>3
<1> QED BY <1>1, <1>3, <1>6, <1>7

------------------------------------------------------------------------------
(* Lists without repetitions, and what their elements weigh.               *)

\* A list without repetitions is as long as its elements are many.
LEMMA RangeCount ==
  ASSUME NEW V, NEW s \in Seq(V), IsInjective(s)
  PROVE  IsFiniteSet(Range(s)) /\ Cardinality(Range(s)) = Len(s)
<1>1. Len(s) \in Nat /\ DOMAIN s = 1..Len(s) /\ s \in [1..Len(s) -> V]
  BY ListIsFun
<1>2. s \in Bijection(1..Len(s), Range(s))
  BY <1>1 DEF Bijection, Injection, Surjection, Range, IsInjective
<1>3. ExistsBijection(1..Len(s), Range(s))
  BY <1>2 DEF ExistsBijection
<1>4. Cardinality(Range(s)) = Len(s)
  BY <1>1, <1>3, FS_CountingElements
<1>5. IsFiniteSet(Range(s))
  BY <1>1, <1>3, FS_NatBijection
<1> QED BY <1>4, <1>5

\* Two lists without repetitions of the same elements are permutations.
LEMMA SameElements ==
  ASSUME NEW V, NEW s \in Seq(V), NEW t \in Seq(V), IsInjective(s), IsInjective(t), Range(s) = Range(t)
  PROVE  Len(s) = Len(t) /\ \E p : Permutes(p, Len(s)) /\ t = Permuted(s, Len(s), p)
<1> DEFINE n == Len(s)
<1>1. Len(s) = Len(t)
  BY RangeCount
<1>2. n \in Nat /\ DOMAIN s = 1..n /\ DOMAIN t = 1..n /\ t \in [1..n -> V] /\ s \in [1..n -> V]
  BY <1>1, ListIsFun
<1> HIDE DEF n
<1>3. \A i \in 1..n : \E j \in 1..n : s[j] = t[i]
  BY <1>2 DEF Range
<1>4. \A j \in 1..n : \E i \in 1..n : s[j] = t[i]
  BY <1>2 DEF Range
<1> DEFINE p == [i \in 1..n |-> CHOOSE j \in 1..n : s[j] = t[i]]
<1>5. p \in [1..n -> 1..n] /\ \A i \in 1..n : s[p[i]] = t[i]
  BY <1>3
<1> HIDE DEF p
<1>6. \A i, j \in 1..n : s[i] = s[j] => i = j
  BY <1>2 DEF IsInjective
<1>7. \A i, j \in 1..n : t[i] = t[j] => i = j
  BY <1>2 DEF IsInjective
<1>8. \A i, j \in 1..n : p[i] = p[j] => i = j
  BY <1>5, <1>7
<1>9. \A j \in 1..n : \E i \in 1..n : p[i] = j
  <2> TAKE j \in 1..n
  <2>1. PICK i \in 1..n : s[j] = t[i]
    BY <1>4
  <2>2. p[i] = j
    BY <1>5, <1>6, <2>1
  <2> QED BY <2>2
<1>10. Permutes(p, n)
  BY <1>5, <1>8, <1>9 DEF Permutes
<1>11. t = Permuted(s, n, p)
  BY <1>2, <1>5 DEF Permuted
<1> QED BY <1>1, <1>10, <1>11 DEF n

\* What a list comes to, with a weight for each element.
Weighed(w, s) == SumSeq([i \in DOMAIN s |-> w[s[i]]])

\* What lists come to does not depend on their order.
LEMMA WeighedAlike ==
  ASSUME NEW V, NEW s \in Seq(V), NEW t \in Seq(V), IsInjective(s), IsInjective(t), Range(s) = Range(t),
         NEW w \in [V -> Int]
  PROVE  Weighed(w, s) = Weighed(w, t)
<1>1. PICK p : Len(s) = Len(t) /\ Permutes(p, Len(s)) /\ t = Permuted(s, Len(s), p)
  BY SameElements
<1> DEFINE n == Len(s)
           a == [i \in DOMAIN s |-> w[s[i]]]
           b == [i \in DOMAIN t |-> w[t[i]]]
<1>2. n \in Nat /\ DOMAIN s = 1..n /\ DOMAIN t = 1..n /\ s \in [1..n -> V]
  BY <1>1, ListIsFun
<1> HIDE DEF n
<1>3. a \in [1..n -> Int]
  BY <1>2
<1>4. b = Permuted(a, n, p)
  <2>1. p \in [1..n -> 1..n] /\ t = Permuted(s, n, p)
    BY <1>1 DEF Permutes, n
  <2>2. \A i \in 1..n : t[i] = s[p[i]] /\ p[i] \in 1..n
    BY <2>1 DEF Permuted
  <2>3. \A i \in 1..n : b[i] = a[p[i]]
    BY <1>2, <2>2
  <2> QED BY <1>2, <2>3 DEF Permuted
<1> HIDE DEF a, b
<1>5. SumSeq(Permuted(a, n, p)) = SumSeq(a)
  <2>1. Permutes(p, n)
    BY <1>1 DEF n
  <2> QED BY <1>2, <1>3, <2>1, SumPermuted
<1> QED BY <1>4, <1>5 DEF Weighed, a, b

\* The elements picked weigh what they weigh in the list.
LEMMA PickedWeight ==
  ASSUME NEW V, NEW s \in Seq(V), NEW keep, NEW w \in [V -> Int]
  PROVE  Weighed(w, Picked(s, keep)) = SumSeq([i \in DOMAIN s |-> IF i \in keep THEN w[s[i]] ELSE 0])
<1> DEFINE n == Len(s)
           a == [i \in DOMAIN s |-> IF i \in keep THEN w[s[i]] ELSE 0]
<1>1. n \in Nat /\ DOMAIN s = 1..n /\ \A i \in 1..n : s[i] \in V
  BY ListIsFun
<1>2. PICK f : PicksUp(f, s, keep, V)
  BY PickedIs
<1>3. /\ f \in [0..n -> Seq(V)] /\ f[0] = <<>> /\ Picked(s, keep) = f[n]
      /\ \A i \in 1..n : f[i] = IF i \in keep THEN Append(f[i - 1], s[i]) ELSE f[i - 1]
  BY <1>2 DEF PicksUp
<1> HIDE DEF n
<1> DEFINE W(x) == [i \in DOMAIN x |-> w[x[i]]]
<1>4. ASSUME NEW x \in Seq(V) PROVE W(x) \in [1..Len(x) -> Int] /\ Len(x) \in Nat
  <2>1. DOMAIN x = 1..Len(x) /\ Len(x) \in Nat /\ x \in [1..Len(x) -> V]
    BY ListIsFun
  <2> QED BY <2>1
<1>5. ASSUME NEW x \in Seq(V), NEW e \in V PROVE SumSeq(W(Append(x, e))) = SumSeq(W(x)) + w[e]
  <2> DEFINE y == Append(x, e)
             m == Len(x)
  <2>1. y \in Seq(V) /\ Len(y) = m + 1 /\ y[m + 1] = e /\ m \in Nat /\ \A i \in 1..m : y[i] = x[i]
    BY AppendProperties, ListIsFun
  <2>2. DOMAIN x = 1..m /\ DOMAIN y = 1..(m + 1)
    BY <2>1, ListIsFun
  <2> HIDE DEF y, m
  <2>3. W(y)[m + 1] = w[e]
    <3>1. m + 1 \in DOMAIN y
      BY <2>1, <2>2
    <3> QED BY <2>1, <3>1
  <2>4. \A i \in 1..m : W(y)[i] = W(x)[i]
    <3> TAKE i \in 1..m
    <3>1. i \in DOMAIN x /\ i \in DOMAIN y /\ y[i] = x[i]
      BY <2>1, <2>2
    <3> QED BY <3>1
  <2>5. W(x) \in [1..m -> Int] /\ W(y) \in [1..(m + 1) -> Int]
    BY <1>4, <2>1 DEF m
  <2> HIDE DEF W
  <2>6. SumSeq(W(y)) = SumSeq(W(x)) + W(y)[m + 1]
    BY <2>1, <2>4, <2>5, SumLast
  <2> QED BY <2>3, <2>6 DEF y
<1>6. a \in [1..n -> Int] /\ \A i \in 1..n : a[i] = IF i \in keep THEN w[s[i]] ELSE 0
  BY <1>1
<1>7. SumSeq(W(f[0])) = 0
  <2>1. W(<<>>) = <<>> /\ <<>> \in [1..0 -> Int]
    OBVIOUS
  <2>2. SumSeq(<<>>) = 0
    <3> DEFINE z == [i \in 0..0 |-> 0]
    <3>1. z \in [0..0 -> Int] /\ z[0] = 0 /\ \A i \in 1..0 : z[i] = z[i - 1] + <<>>[i]
      OBVIOUS
    <3> HIDE DEF z
    <3>2. 0 \in Nat
      OBVIOUS
    <3> QED BY <2>1, <3>1, <3>2, SumIs
  <2> QED BY <1>3, <2>1, <2>2
<1> DEFINE g == [i \in 0..n |-> SumSeq(W(f[i]))]
<1>8. \A i \in 0..n : g[i] = SumSeq(W(f[i])) /\ g[i] \in Int
  <2> TAKE i \in 0..n
  <2>1. f[i] \in Seq(V)
    BY <1>3
  <2>2. SumSeq(W(f[i])) \in Int
    <3>1. W(f[i]) \in [1..Len(f[i]) -> Int] /\ Len(f[i]) \in Nat
      BY <1>4, <2>1
    <3> HIDE DEF W
    <3> QED BY <3>1, SumType
  <2> QED BY <2>2
<1>9. g \in [0..n -> Int]
  BY <1>8
<1> HIDE DEF a, W, g
<1>10. g[0] = 0
  BY <1>1, <1>7, <1>8
<1>11. ASSUME NEW i \in 1..n PROVE g[i] = g[i - 1] + a[i]
  <2>1. i \in 0..n /\ i - 1 \in 0..n /\ f[i - 1] \in Seq(V) /\ s[i] \in V
    BY <1>1, <1>3
  <2>2. g[i] = SumSeq(W(f[i])) /\ g[i - 1] = SumSeq(W(f[i - 1])) /\ g[i - 1] \in Int
    BY <1>8, <2>1
  <2>3. CASE i \in keep
    BY <1>3, <1>5, <1>6, <2>1, <2>2, <2>3
  <2>4. CASE i \notin keep
    BY <1>3, <1>6, <2>1, <2>2, <2>4
  <2> QED BY <2>3, <2>4
<1>12. SumSeq(a) = g[n]
  BY <1>1, <1>6, <1>9, <1>10, <1>11, SumIs
<1>13. g[n] = SumSeq(W(Picked(s, keep)))
  BY <1>1, <1>3, <1>8
<1> QED BY <1>12, <1>13 DEF Weighed, a, W

\* What the elements of a list that are among R come to.
WeighedIn(w, s, R) == SumSeq([i \in DOMAIN s |-> IF s[i] \in R THEN w[s[i]] ELSE 0])

\* A list of some of the elements of another weighs what these do there.
LEMMA PartWeight ==
  ASSUME NEW V, NEW s \in Seq(V), NEW t \in Seq(V), IsInjective(s), IsInjective(t), Range(t) \subseteq Range(s),
         NEW w \in [V -> Int]
  PROVE  Weighed(w, t) = WeighedIn(w, s, Range(t))
<1> DEFINE keep == {i \in DOMAIN s : s[i] \in Range(t)}
           q == Picked(s, keep)
<1>1. q \in Seq(V) /\ IsInjective(q) /\ Range(q) = {s[i] : i \in keep \cap DOMAIN s}
  <2> HIDE DEF keep
  <2> QED BY PickedFacts
<1>2. Range(q) = Range(t)
  <2>1. \A v \in Range(t) : \E i \in DOMAIN s : s[i] = v
    BY DEF Range
  <2>2. {s[i] : i \in keep \cap DOMAIN s} = Range(t)
    BY <2>1
  <2> QED BY <1>1, <2>2
<1>3. Weighed(w, q) = Weighed(w, t)
  <2> HIDE DEF q
  <2> QED BY <1>1, <1>2, WeighedAlike
<1>4. Weighed(w, q) = SumSeq([i \in DOMAIN s |-> IF i \in keep THEN w[s[i]] ELSE 0])
  <2> HIDE DEF keep
  <2> QED BY PickedWeight
<1>5. [i \in DOMAIN s |-> IF i \in keep THEN w[s[i]] ELSE 0]
        = [i \in DOMAIN s |-> IF s[i] \in Range(t) THEN w[s[i]] ELSE 0]
  OBVIOUS
<1> HIDE DEF q
<1> QED BY <1>3, <1>4, <1>5 DEF WeighedIn

------------------------------------------------------------------------------
(* Sorting.                                                                *)

\* The permutation p of 1..m with m + 1 put at place k.
Inserted(p, m, k) == [i \in 1..(m + 1) |-> IF i < k THEN p[i] ELSE IF i = k THEN m + 1 ELSE p[i - 1]]

LEMMA InsertedPermutes ==
  ASSUME NEW m \in Nat, NEW p, Permutes(p, m), NEW k \in 1..(m + 1)
  PROVE  Permutes(Inserted(p, m, k), m + 1)
<1> DEFINE q == Inserted(p, m, k)
<1>1. /\ \A i \in 1..m : p[i] \in 1..m
      /\ \A i, j \in 1..m : p[i] = p[j] => i = j
      /\ \A j \in 1..m : \E i \in 1..m : p[i] = j
  BY DEF Permutes
<1>2. \A i \in 1..(m + 1) : q[i] = IF i < k THEN p[i] ELSE IF i = k THEN m + 1 ELSE p[i - 1]
  BY DEF Inserted
<1>3. ASSUME NEW i \in 1..(m + 1)
      PROVE  /\ i < k => i \in 1..m /\ q[i] = p[i]
             /\ i = k => q[i] = m + 1
             /\ i > k => i - 1 \in 1..m /\ q[i] = p[i - 1]
  BY <1>2
<1>4. q \in [1..(m + 1) -> 1..(m + 1)]
  <2>1. ASSUME NEW i \in 1..(m + 1) PROVE q[i] \in 1..(m + 1)
    <3>1. q[i] \in 1..m \/ q[i] = m + 1
      BY <1>1, <1>3
    <3> QED BY <3>1
  <2>2. q = [i \in 1..(m + 1) |-> q[i]]
    BY DEF Inserted
  <2> HIDE DEF q
  <2> QED BY <2>1, <2>2
<1> HIDE DEF q
<1>5. ASSUME NEW i \in 1..(m + 1), NEW j \in 1..(m + 1), i < j PROVE q[i] # q[j]
  <2>1. \A v \in 1..m : v # m + 1
    OBVIOUS
  <2>2. CASE j < k
    BY <1>1, <1>3, <1>5, <2>2
  <2>3. CASE j = k
    BY <1>1, <1>3, <1>5, <2>1, <2>3
  <2>4. CASE j > k
    <3>1. j - 1 \in 1..m /\ q[j] = p[j - 1] /\ p[j - 1] \in 1..m
      BY <1>1, <1>3, <2>4
    <3>2. CASE i < k
      <4>1. i \in 1..m /\ q[i] = p[i] /\ i # j - 1
        BY <1>3, <2>4, <3>2
      <4> QED BY <1>1, <3>1, <4>1
    <3>3. CASE i = k
      BY <1>3, <2>1, <3>1, <3>3
    <3>4. CASE i > k
      <4>1. i - 1 \in 1..m /\ q[i] = p[i - 1] /\ i - 1 # j - 1
        BY <1>3, <1>5, <3>4
      <4> QED BY <1>1, <3>1, <4>1
    <3> QED BY <3>2, <3>3, <3>4
  <2> QED BY <2>2, <2>3, <2>4
<1>6. \A i, j \in 1..(m + 1) : q[i] = q[j] => i = j
  <2>1. \A i, j \in 1..(m + 1) : i < j \/ i = j \/ j < i
    OBVIOUS
  <2> QED BY <1>5, <2>1
<1>7. ASSUME NEW v \in 1..(m + 1) PROVE \E i \in 1..(m + 1) : q[i] = v
  <2>1. CASE v = m + 1
    BY <1>3, <2>1
  <2>2. CASE v # m + 1
    <3>1. v \in 1..m
      BY <2>2
    <3>2. PICK i \in 1..m : p[i] = v
      BY <1>1, <3>1
    <3>3. CASE i < k
      <4>1. i \in 1..(m + 1)
        OBVIOUS
      <4> QED BY <1>3, <3>2, <3>3, <4>1
    <3>4. CASE ~ (i < k)
      <4>1. i + 1 \in 1..(m + 1) /\ i + 1 > k /\ (i + 1) - 1 = i
        BY <3>4
      <4>2. q[i + 1] = v
        BY <1>3, <3>2, <4>1
      <4> QED BY <4>1, <4>2
    <3> QED BY <3>3, <3>4
  <2> QED BY <2>1, <2>2
<1> QED BY <1>4, <1>6, <1>7 DEF Permutes, q

\* Any list of numbers can be put in order.
InOrder(d, p, m) == \A i, j \in 1..m : i < j => d[p[i]] <= d[p[j]]

LEMMA OrderExists ==
  ASSUME NEW n \in Nat, NEW d \in [1..n -> Int]
  PROVE  \E p : Permutes(p, n) /\ InOrder(d, p, n)
<1> DEFINE S == {m \in 0..n : \E p : Permutes(p, m) /\ InOrder(d, p, m)}
<1>1. 0 \in S
  <2>1. Permutes([i \in 1..0 |-> i], 0) /\ InOrder(d, [i \in 1..0 |-> i], 0)
    BY DEF Permutes, InOrder
  <2> QED BY <2>1
<1>2. ASSUME NEW m \in 0..n, m \in S, m + 1 \in 1..n PROVE m + 1 \in S
  <2>1. PICK p : Permutes(p, m) /\ InOrder(d, p, m)
    BY <1>2
  <2> DEFINE K == {i \in 1..(m + 1) : i = m + 1 \/ d[p[i]] > d[m + 1]}
  <2>2. K \in SUBSET Nat /\ K # {}
    OBVIOUS
  <2>3. PICK k \in K : \A y \in K : k <= y
    BY <2>2, LeastNat
  <2>4. /\ k \in 1..(m + 1) /\ m \in Nat
        /\ \A i \in 1..m : p[i] \in 1..m /\ d[p[i]] \in Int
        /\ d[m + 1] \in Int
    <3>1. k \in 1..(m + 1) /\ m \in Nat /\ m + 1 \in 1..n
      BY <1>2
    <3>2. \A i \in 1..m : p[i] \in 1..m
      BY <2>1 DEF Permutes
    <3>3. \A i \in 1..m : i \in 1..n
      BY <3>1
    <3>4. \A i \in 1..m : d[p[i]] \in Int
      BY <3>2, <3>3
    <3> QED BY <3>1, <3>2, <3>4
  <2>5. \A i \in 1..m : i < k => d[p[i]] <= d[m + 1]
    BY <2>3, <2>4
  <2>6. \A i \in 1..m : i >= k => d[p[i]] >= d[m + 1]
    <3> SUFFICES ASSUME NEW i \in 1..m, i >= k PROVE d[p[i]] >= d[m + 1]
      OBVIOUS
    <3>1. k \in 1..m /\ d[p[k]] > d[m + 1]
      BY <2>3, <2>4
    <3>2. i = k \/ d[p[k]] <= d[p[i]]
      BY <2>1, <3>1 DEF InOrder
    <3> QED BY <2>4, <3>1, <3>2
  <2> DEFINE q == Inserted(p, m, k)
  <2>7. Permutes(q, m + 1)
    BY <2>1, <2>4, InsertedPermutes
  <2>8. ASSUME NEW i \in 1..(m + 1)
        PROVE  /\ i < k => i \in 1..m /\ q[i] = p[i]
               /\ i = k => q[i] = m + 1
               /\ i > k => i - 1 \in 1..m /\ q[i] = p[i - 1]
    BY <2>4 DEF Inserted
  <2> HIDE DEF q, K
  <2>9. ASSUME NEW i \in 1..(m + 1), NEW j \in 1..(m + 1), i < j PROVE d[q[i]] <= d[q[j]]
    <3>1. CASE j < k
      <4>1. i \in 1..m /\ j \in 1..m /\ q[i] = p[i] /\ q[j] = p[j]
        BY <2>4, <2>8, <2>9, <3>1
      <4> QED BY <2>1, <2>9, <4>1 DEF InOrder
    <3>2. CASE j = k
      <4>1. i \in 1..m /\ q[i] = p[i] /\ q[j] = m + 1 /\ i < k
        BY <2>4, <2>8, <2>9, <3>2
      <4> QED BY <2>5, <4>1
    <3>3. CASE j > k
      <4>1. j - 1 \in 1..m /\ q[j] = p[j - 1] /\ j - 1 >= k
        BY <2>4, <2>8, <3>3
      <4>2. CASE i < k
        <5>1. i \in 1..m /\ q[i] = p[i] /\ i < j - 1
          BY <2>4, <2>8, <4>1, <4>2
        <5> QED BY <2>1, <4>1, <5>1 DEF InOrder
      <4>3. CASE i = k
        BY <2>4, <2>6, <2>8, <4>1, <4>3
      <4>4. CASE i > k
        <5>1. i - 1 \in 1..m /\ q[i] = p[i - 1] /\ i - 1 < j - 1
          BY <2>4, <2>8, <2>9, <4>4
        <5> QED BY <2>1, <4>1, <5>1 DEF InOrder
      <4> QED BY <2>4, <4>2, <4>3, <4>4
    <3> QED BY <2>4, <3>1, <3>2, <3>3
  <2>10. InOrder(d, q, m + 1)
    BY <2>9 DEF InOrder
  <2> QED BY <1>2, <2>7, <2>10
<1>3. \A i \in 1..n : i - 1 \in S => i \in S
  <2> TAKE i \in 1..n
  <2> HIDE DEF S
  <2> HAVE i - 1 \in S
  <2>1. i - 1 \in 0..n /\ (i - 1) + 1 = i
    OBVIOUS
  <2> QED BY <1>2, <2>1
<1>4. n \in S
  <2> HIDE DEF S
  <2> QED BY <1>1, <1>3, UpTo
<1> QED BY <1>4

\* Documents identify the records.
Identify(R) == \A q, r \in R : q.doc = r.doc => q = r
Ascending(s) == \A i, j \in DOMAIN s : i < j => s[i].doc < s[j].doc

\* SortByDoc puts records that differ in doc in the one order there is.
LEMMA RearrangedFacts ==
  ASSUME NEW V, NEW s \in Seq(V), IsInjective(s), NEW t \in Rearranged(s)
  PROVE  t \in Seq(V) /\ Range(t) = Range(s) /\ IsInjective(t) /\ DOMAIN t = DOMAIN s
<1> DEFINE n == Len(s)
<1>1. n \in Nat /\ DOMAIN s = 1..n /\ s \in [1..n -> V]
  BY ListIsFun
<1> HIDE DEF n
<1>2. PICK q \in Bijection(DOMAIN s, DOMAIN s) : t = [i \in DOMAIN s |-> s[q[i]]]
  BY DEF Rearranged
<1>3. Permutes(q, n)
  BY <1>1, <1>2, PermutationIs
<1>4. DOMAIN t = 1..n /\ \A i \in 1..n : t[i] = s[q[i]] /\ q[i] \in 1..n
  BY <1>1, <1>2, <1>3 DEF Permutes
<1>5. t \in Seq(V)
  <2>1. t \in [1..n -> V]
    BY <1>1, <1>2, <1>4
  <2> QED BY <1>1, <2>1, FunIsList
<1>6. Range(t) = Range(s)
  <2>1. \A j \in 1..n : \E i \in 1..n : q[i] = j
    BY <1>3 DEF Permutes
  <2>2. \A v \in Range(t) : v \in Range(s)
    BY <1>1, <1>4 DEF Range
  <2>3. ASSUME NEW v \in Range(s) PROVE v \in Range(t)
    <3>1. PICK j \in 1..n : s[j] = v
      BY <1>1 DEF Range
    <3>2. PICK i \in 1..n : q[i] = j
      BY <2>1
    <3>3. t[i] = v
      BY <1>4, <3>1, <3>2
    <3> QED BY <1>4, <3>3 DEF Range
  <2> QED BY <2>2, <2>3
<1>7. IsInjective(t)
  <2>1. \A i, j \in 1..n : q[i] = q[j] => i = j
    BY <1>3 DEF Permutes
  <2>2. \A i, j \in 1..n : s[i] = s[j] => i = j
    BY <1>1 DEF IsInjective
  <2> QED BY <1>4, <2>1, <2>2 DEF IsInjective
<1> QED BY <1>1, <1>4, <1>5, <1>6, <1>7

LEMMA SortByDocFacts ==
  ASSUME NEW V, \A r \in V : r.doc \in Nat, NEW s \in Seq(V), IsInjective(s), Identify(Range(s))
  PROVE  /\ SortByDoc(s) \in Seq(V) /\ Range(SortByDoc(s)) = Range(s)
         /\ IsInjective(SortByDoc(s)) /\ Ascending(SortByDoc(s))
<1> DEFINE n == Len(s)
           t == SortByDoc(s)
           Sorted(x) == \A i, j \in DOMAIN x : i < j => x[i].doc <= x[j].doc
<1>1. n \in Nat /\ DOMAIN s = 1..n /\ s \in [1..n -> V]
  BY ListIsFun
<1> HIDE DEF n
<1> DEFINE d == [i \in 1..n |-> s[i].doc]
<1>2. d \in [1..n -> Int]
  BY <1>1
<1>3. PICK p : Permutes(p, n) /\ InOrder(d, p, n)
  <2> HIDE DEF d
  <2> QED BY <1>1, <1>2, OrderExists
<1>4. Permuted(s, n, p) \in Rearranged(s)
  <2>1. p \in Bijection(DOMAIN s, DOMAIN s)
    BY <1>1, <1>3, PermutationIs
  <2> QED BY <1>1, <2>1 DEF Permuted, Rearranged
<1>5. Sorted(Permuted(s, n, p))
  <2>1. \A i \in 1..n : p[i] \in 1..n
    BY <1>3 DEF Permutes
  <2>2. \A i \in 1..n : Permuted(s, n, p)[i] = s[p[i]]
    BY DEF Permuted
  <2>3. DOMAIN Permuted(s, n, p) = 1..n
    BY DEF Permuted
  <2>4. \A i \in 1..n : d[p[i]] = s[p[i]].doc
    BY <2>1
  <2> HIDE DEF d
  <2> QED BY <1>3, <2>2, <2>3, <2>4 DEF InOrder
<1>6. t \in Rearranged(s) /\ Sorted(t)
  <2>1. t = CHOOSE x \in Rearranged(s) : Sorted(x)
    BY DEF SortByDoc
  <2> HIDE DEF Sorted, t
  <2> QED BY <1>4, <1>5, <2>1
<1> HIDE DEF t
<1>7. t \in Seq(V) /\ Range(t) = Range(s) /\ IsInjective(t) /\ DOMAIN t = 1..n
  BY <1>1, <1>6, RearrangedFacts
<1>8. Ascending(t)
  <2> SUFFICES ASSUME NEW i \in DOMAIN t, NEW j \in DOMAIN t, i < j PROVE t[i].doc < t[j].doc
    BY DEF Ascending
  <2>1. t[i].doc <= t[j].doc
    BY <1>6
  <2>2. t[i] # t[j] /\ i # j
    BY <1>7 DEF IsInjective
  <2>3. t[i] \in Range(s) /\ t[j] \in Range(s)
    BY <1>7 DEF Range
  <2>4. t[i].doc # t[j].doc
    BY <2>2, <2>3 DEF Identify
  <2>5. t[i].doc \in Nat /\ t[j].doc \in Nat
    <3>1. t[i] \in V /\ t[j] \in V
      BY <1>7, ListIsFun
    <3> QED BY <3>1
  <2> QED BY <2>1, <2>4, <2>5
<1> QED BY <1>7, <1>8 DEF t

\* There is one ascending order.
LEMMA AscendingUnique ==
  ASSUME NEW V, \A r \in V : r.doc \in Nat, NEW s \in Seq(V), NEW t \in Seq(V),
         IsInjective(s), IsInjective(t), Ascending(s), Ascending(t), Range(s) = Range(t)
  PROVE  s = t
<1> DEFINE n == Len(s)
<1>1. Len(s) = Len(t)
  BY RangeCount
<1>2. n \in Nat /\ DOMAIN s = 1..n /\ DOMAIN t = 1..n /\ t \in [1..n -> V] /\ s \in [1..n -> V]
  BY <1>1, ListIsFun
<1> HIDE DEF n
<1>3. \A i \in 1..n : s[i].doc \in Nat /\ t[i].doc \in Nat
  BY <1>2
<1>4. \A i \in 1..n : \E j \in 1..n : s[j] = t[i]
  BY <1>2 DEF Range
<1>5. \A j \in 1..n : \E i \in 1..n : s[j] = t[i]
  BY <1>2 DEF Range
<1>6. \A i \in 1..n : s[i] = t[i]
  <2> SUFFICES ASSUME NEW x \in 1..n, s[x] # t[x] PROVE FALSE
    OBVIOUS
  <2> DEFINE D == {i \in 1..n : s[i] # t[i]}
  <2>1. D \in SUBSET Nat /\ D # {}
    OBVIOUS
  <2>2. PICK k \in D : \A y \in D : k <= y
    BY <2>1, LeastNat
  <2>3. k \in 1..n /\ s[k] # t[k] /\ \A i \in 1..n : i < k => s[i] = t[i]
    BY <2>2
  <2>4. PICK i \in 1..n : s[i] = t[k]
    BY <1>4, <2>3
  <2>5. PICK j \in 1..n : s[k] = t[j]
    BY <1>5, <2>3
  <2>6. k < i
    <3>1. ~ (i < k)
      <4> SUFFICES ASSUME i < k PROVE FALSE
        OBVIOUS
      <4>1. t[i] = t[k] /\ i # k
        BY <2>3, <2>4
      <4> QED BY <1>2, <2>3, <4>1 DEF IsInjective
    <3> QED BY <2>3, <2>4, <3>1
  <2>7. k < j
    <3>1. ~ (j < k)
      <4> SUFFICES ASSUME j < k PROVE FALSE
        OBVIOUS
      <4>1. s[j] = s[k] /\ j # k
        BY <2>3, <2>5
      <4> QED BY <1>2, <2>3, <4>1 DEF IsInjective
    <3> QED BY <2>3, <2>5, <3>1
  <2>8. s[k].doc < s[i].doc /\ t[k].doc < t[j].doc
    BY <1>2, <2>3, <2>6, <2>7 DEF Ascending
  <2>9. s[k].doc < t[k].doc /\ t[k].doc < s[k].doc
    BY <2>4, <2>5, <2>8
  <2> QED BY <1>3, <2>3, <2>9
<1> QED BY <1>2, <1>6

\* What is sorted depends on the records alone.
LEMMA SortedAlike ==
  ASSUME NEW V, \A r \in V : r.doc \in Nat, NEW s \in Seq(V), NEW t \in Seq(V),
         IsInjective(s), IsInjective(t), Identify(Range(s)), Range(s) = Range(t)
  PROVE  SortByDoc(s) = SortByDoc(t) /\ Len(s) = Len(t)
<1>1. /\ SortByDoc(s) \in Seq(V) /\ Range(SortByDoc(s)) = Range(s)
      /\ IsInjective(SortByDoc(s)) /\ Ascending(SortByDoc(s))
  BY SortByDocFacts
<1>2. /\ SortByDoc(t) \in Seq(V) /\ Range(SortByDoc(t)) = Range(t)
      /\ IsInjective(SortByDoc(t)) /\ Ascending(SortByDoc(t))
  BY SortByDocFacts
<1>3. Len(s) = Len(t)
  BY RangeCount
<1> QED BY <1>1, <1>2, <1>3, AscendingUnique

------------------------------------------------------------------------------
(* What the mappings omit and the builder refuses.                         *)

\* What the mapping of a group omits a record for, and what the builder
\* refuses in a document of the group.
OmissionsOf(g, f) ==
  CASE g = "SalesInvoices" -> OmitSales(f)
    [] g = "Payments" -> OmitPayment(f)
    [] g = "PurchaseInvoices" -> OmitPurchase(f)
    [] g = "MovementOfGoods" -> OmitMovement(f)
    [] g = "WorkingDocuments" -> OmitWorking(f)
    [] g = "GeneralLedgerEntries" -> OmitGLEntries(f)
RefusedOf(g) ==
  CASE g = "SalesInvoices" -> RefusedInvoice
    [] g = "Payments" -> RefusedPayment
    [] g = "PurchaseInvoices" -> RefusedPurchase
    [] g = "MovementOfGoods" -> RefusedMovement
    [] g = "WorkingDocuments" -> RefusedWork
    [] g = "GeneralLedgerEntries" -> RefusedTransaction \cup RefusedJournal

\* A list of checks that finds nothing has found none of its faults.
LEMMA FirstOfNone ==
  ASSUME NEW checks, NEW f, FirstOf(checks, f) = {}
  PROVE  \A i \in DOMAIN checks : checks[i] \notin f
  BY DEF FirstOf

LEMMA NothingOmitted ==
  ASSUME NEW all, NEW checks, NEW f, AllOrFirst(all, checks, f) = {}
  PROVE  f \cap all = {} /\ \A i \in DOMAIN checks : checks[i] \notin f
  BY FirstOfNone DEF AllOrFirst

\* The mapping of each group looks at all that the builder refuses but the
\* defects of Poison.
LEMMA OmissionsCover ==
  ASSUME NEW g \in SaftGroups, NEW f, OmissionsOf(g, f) = {}, f \cap Poison(g) = {}
  PROVE  f \cap (RefusedOf(g) \cup {"type_not_allowed"}) = {}
<1>1. CASE g = "SalesInvoices"
  <2> DEFINE heads == <<"document_type", "invoice_no">>
  <2>1. OmitSales(f) = {}
    BY <1>1 DEF OmissionsOf
  <2>2. FirstOf(heads, f) = {}
    BY <2>1 DEF OmitSales
  <2>3. AllOrFirst({"hash", "hash_control", "source_id", "customer_id", "unit_of_measure", "lines"},
                   SalesLineChecks, f) = {}
    BY <2>1 DEF OmitSales
  <2>4. \A i \in DOMAIN heads : heads[i] \notin f
    <3> HIDE DEF heads
    <3> QED BY <2>2, FirstOfNone
  <2>5. /\ f \cap {"hash", "hash_control", "source_id", "customer_id", "unit_of_measure", "lines"} = {}
        /\ \A i \in DOMAIN SalesLineChecks : SalesLineChecks[i] \notin f
    BY <2>3, NothingOmitted
  <2>6. f \cap {"sealed_at", "product_code", "tax_percentage"} = {}
    BY <2>5 DEF SalesLineChecks
  <2>7. f \cap {"document_type", "invoice_no"} = {}
    BY <2>4
  <2> QED BY <1>1, <2>5, <2>6, <2>7
          DEF Poison, RefusedOf, RefusedInvoice, RefusedInvoiceLine, RefusedTax
<1>2. CASE g = "Payments"
  <2>1. OmitPayment(f) = {}
    BY <1>2 DEF OmissionsOf
  <2>2. /\ f \cap {"payment_ref_no", "payment_type", "source_id", "customer_id", "payment_status",
                   "source_payment", "lines"} = {}
        /\ \A i \in DOMAIN PaymentLineChecks : PaymentLineChecks[i] \notin f
    BY <2>1, NothingOmitted DEF OmitPayment
  <2>3. f \cap {"payment_date", "originating_on", "invoice_date", "line_amount"} = {}
    BY <2>2 DEF PaymentLineChecks
  <2> QED BY <1>2, <2>2, <2>3 DEF Poison, RefusedOf, RefusedPayment, RefusedPaymentLine
<1>3. CASE g = "PurchaseInvoices"
  BY <1>3 DEF OmissionsOf, OmitPurchase, Poison, RefusedOf, RefusedPurchase
<1>4. CASE g = "MovementOfGoods"
  <2>1. OmitMovement(f) = {}
    BY <1>4 DEF OmissionsOf
  <2>2. /\ f \cap {"document_number", "hash", "hash_control", "movement_type", "source_id", "party",
                   "movement_status", "source_billing", "lines"} = {}
        /\ \A i \in DOMAIN MovementLineChecks : MovementLineChecks[i] \notin f
    BY <2>1, NothingOmitted DEF OmitMovement
  <2>3. f \cap {"product_code", "unit_of_measure", "line_amount", "tax"} = {}
    BY <2>2 DEF MovementLineChecks
  <2> QED BY <1>4, <2>2, <2>3 DEF Poison, RefusedOf, RefusedMovement, RefusedMovementLine
<1>5. CASE g = "WorkingDocuments"
  <2>1. OmitWorking(f) = {}
    BY <1>5 DEF OmissionsOf
  <2>2. /\ f \cap {"document_number", "hash", "hash_control", "work_type", "source_id", "customer_id",
                   "work_status", "source_billing", "lines"} = {}
        /\ \A i \in DOMAIN WorkingLineChecks : WorkingLineChecks[i] \notin f
    BY <2>1, NothingOmitted DEF OmitWorking
  <2>3. f \cap {"product_code", "unit_of_measure", "line_amount", "tax"} = {}
    BY <2>2 DEF WorkingLineChecks
  <2> QED BY <1>5, <2>2, <2>3 DEF Poison, RefusedOf, RefusedWork, RefusedWorkLine
<1>6. CASE g = "GeneralLedgerEntries"
  <2> DEFINE debit == <<"debit_record_id", "debit_account", "debit_amount", "debit_desc">>
             credit == <<"credit_record_id", "credit_account", "credit_amount", "credit_desc">>
  <2>1. OmitGLEntries(f) = {}
    BY <1>6 DEF OmissionsOf
  <2>2. FirstOf(debit, f) = {} /\ FirstOf(credit, f) = {}
    BY <2>1 DEF OmitGLEntries, OmitGLLines
  <2>3. f \cap {"journal_id", "journal_desc", "transaction_id", "period", "source_id", "description",
                "doc_archival", "transaction_type", "gl_posting_date", "party", "lines"} = {}
    BY <2>1 DEF OmitGLEntries
  <2>4. /\ \A i \in DOMAIN debit : debit[i] \notin f
        /\ \A i \in DOMAIN credit : credit[i] \notin f
    <3> HIDE DEF debit, credit
    <3> QED BY <2>2, FirstOfNone
  <2>5. f \cap {"debit_record_id", "debit_account", "debit_desc", "credit_record_id", "credit_account",
                "credit_desc"} = {}
    BY <2>4
  <2> QED BY <1>6, <2>3, <2>5 DEF Poison, RefusedOf, RefusedTransaction, RefusedTransactionLine, RefusedJournal
<1> QED BY <1>1, <1>2, <1>3, <1>4, <1>5, <1>6 DEF SaftGroups

\* A document refused by no check becomes part of the file, for each group.
LEMMA NotRefused ==
  ASSUME NEW g, NEW docs,
         \A i \in DOMAIN docs : docs[i].faults \cap (RefusedOf(g) \cup {"type_not_allowed"}) = {}
  PROVE  Accepted(docs, RefusedOf(g))
  BY DEF Accepted

\* What is built is a file.
LEMMA BuiltOk == \A d, a, b, n, q : Built(d, a, b, n, q).status = "ok"
  BY DEF Built

\* The core of FailsOnlyForPoison, for documents of any number and with any
\* set of faults: what a mapping lets through and has no defect of Poison,
\* BuildIncrementalExport puts in the file; a period fails for no other
\* defect of a record than a movement's quantity of four places.
THEOREM MappedIsBuilt ==
  ASSUME NEW g \in SaftGroups, NEW docs, NEW cfg,
         \A i \in DOMAIN docs : OmissionsOf(g, docs[i].faults) = {} /\ docs[i].faults \cap Poison(g) = {},
         g = "MovementOfGoods" =>
           \A i \in DOMAIN docs : ReadableQuantities(docs[i])
  PROVE  BuildIncrementalExport(g, docs, cfg).status = "ok"
<1>1. Accepted(docs, RefusedOf(g))
  <2>1. \A i \in DOMAIN docs : docs[i].faults \cap (RefusedOf(g) \cup {"type_not_allowed"}) = {}
    BY OmissionsCover
  <2> QED BY <2>1, NotRefused
<1>2. Known(docs, Collected(docs))
  BY DEF Known, Collected
<1>3. g \in {"SalesInvoices", "MovementOfGoods", "WorkingDocuments", "GeneralLedgerEntries"} => InTable(docs, cfg)
  <2> SUFFICES ASSUME g \in {"SalesInvoices", "MovementOfGoods", "WorkingDocuments", "GeneralLedgerEntries"}
               PROVE  InTable(docs, cfg)
    OBVIOUS
  <2>1. "not_in_table" \in Poison(g)
    BY DEF Poison
  <2> QED BY <2>1 DEF InTable
<1>4. CASE g = "SalesInvoices"
  BY <1>1, <1>2, <1>3, <1>4, BuiltOk DEF BuildIncrementalExport, BuildSales, RefusedOf, validateMasterRefs,
    validateInvoiceTaxAgainstTable
<1>5. CASE g = "Payments"
  BY <1>1, <1>2, <1>5, BuiltOk DEF BuildIncrementalExport, BuildPayments, RefusedOf, validatePaymentCustomerRefs
<1>6. CASE g = "PurchaseInvoices"
  BY <1>1, <1>2, <1>6, BuiltOk DEF BuildIncrementalExport, BuildPurchases, RefusedOf, validatePurchaseSupplierRefs
<1>7. CASE g = "MovementOfGoods"
  BY <1>1, <1>2, <1>3, <1>7, BuiltOk DEF BuildIncrementalExport, BuildMovements, RefusedOf, validateStockMovementRefs,
    validateMovementTaxAgainstTable
<1>8. CASE g = "WorkingDocuments"
  BY <1>1, <1>2, <1>3, <1>8, BuiltOk DEF BuildIncrementalExport, BuildWorking, RefusedOf, validateWorkDocumentRefs,
    validateWorkTaxAgainstTable
<1>9. CASE g = "GeneralLedgerEntries"
  <2>1. {"party_unknown", "shared_transaction_id"} \subseteq Poison(g)
    BY <1>9 DEF Poison
  <2>2. Known(docs, {"client"})
    BY <2>1 DEF Known, PartyOf
  <2>3. {i \in DOMAIN docs : "shared_transaction_id" \in docs[i].faults} = {}
    BY <2>1
  <2>4. Cardinality({i \in DOMAIN docs : "shared_transaction_id" \in docs[i].faults}) = 0
    BY <2>3, FS_EmptySet
  <2>5. filterGeneralLedgerEntries(docs)
    BY <1>1, <1>9, <2>4 DEF filterGeneralLedgerEntries, RefusedOf
  <2> QED BY <1>3, <1>9, <2>2, <2>5, BuiltOk DEF BuildIncrementalExport, BuildGLEntries, validateGLEAccountRefs,
    validateGLEPartyRefs
<1> QED BY <1>4, <1>5, <1>6, <1>7, <1>8, <1>9 DEF SaftGroups

\* The core of TotalsExact, for amounts of any size: an amount written with
\* two places is read back, and an addition of the decimal texts loses
\* nothing (formatCents, addMoney2AsDecimal); a quantity that three places
\* hold is read back to the last thousandth (formatQuantity,
\* parseDecimalMilli).
THEOREM AmountsAddExactly ==
  /\ \A n \in Nat : parseMoneyCents(formatCents(n)) = n
  /\ \A a, n \in Nat :
       addMoney2AsDecimal(formatCents(a), formatCents(n)) = formatCents(a + n)
  /\ \A q \in Nat : MilliReadable(formatQuantity(q)) =>
                      parseDecimalMilli(formatQuantity(q)) * 10 = q
<1>1. \A n \in Nat : parseMoneyCents(formatCents(n)) = n
  BY DEF parseMoneyCents, formatCents
<1>2. \A a, n \in Nat : addMoney2AsDecimal(formatCents(a), formatCents(n)) = formatCents(a + n)
  BY <1>1 DEF addMoney2AsDecimal
<1>3. \A q \in Nat : MilliReadable(formatQuantity(q)) => parseDecimalMilli(formatQuantity(q)) * 10 = q
  <2> TAKE q \in Nat
  <2> DEFINE w == q \div 10000
             f == q % 10000
  <2>1. formatQuantity(q).whole = w /\ formatQuantity(q).frac = f
    BY DEF formatQuantity
  <2>2. w \in Nat /\ f \in Nat /\ q = w * 10000 + f
    OBVIOUS
  <2>3. f % 10 = 0 => (f \div 10) * 10 = f
    <3> HIDE DEF f, w
    <3> QED BY <2>2
  <2>4. f \div 10 \in Nat
    <3> HIDE DEF f, w
    <3> QED BY <2>2
  <2> HIDE DEF f, w
  <2> QED BY <2>1, <2>2, <2>3, <2>4 DEF MilliReadable, parseDecimalMilli
<1> QED BY <1>1, <1>2, <1>3

------------------------------------------------------------------------------
(* Totals.                                                                 *)

\* A total that goes on over a list of amounts.
LEMMA AddedToIs ==
  ASSUME NEW x \in Nat, NEW a \in Seq(Nat)
  PROVE  AddedTo(formatCents(x), a) = formatCents(x + SumSeq(a))
<1> DEFINE n == Len(a)
<1>1. n \in Nat /\ DOMAIN a = 1..n /\ a \in [1..n -> Nat]
  BY ListIsFun
<1>2. a \in [1..n -> Int]
  BY <1>1
<1>3. PICK f \in [0..n -> Int] : f[0] = 0 /\ SumSeq(a) = f[n] /\ \A i \in 1..n : f[i] = f[i - 1] + a[i]
  BY <1>1, <1>2, PartialSums
<1>4. \A i \in 0..n : f[i] \in Nat
  <2> DEFINE S == {i \in 0..n : f[i] \in Nat}
  <2>1. 0 \in S
    BY <1>1, <1>3
  <2>2. \A i \in 1..n : i - 1 \in S => i \in S
    <3> TAKE i \in 1..n
    <3> HAVE i - 1 \in S
    <3>1. f[i - 1] \in Nat /\ a[i] \in Nat /\ f[i] = f[i - 1] + a[i] /\ i \in 0..n
      BY <1>1, <1>3
    <3> QED BY <3>1
  <2>3. \A i \in 0..n : i \in S
    <3> HIDE DEF S, n
    <3> QED BY <1>1, <2>1, <2>2, UpTo
  <2> QED BY <2>3
<1> HIDE DEF n
<1> DEFINE F(h) == [i \in 0..n |-> IF i = 0 THEN formatCents(x)
                                   ELSE addMoney2AsDecimal(h[i - 1], formatCents(a[i]))]
           g == [i \in 0..n |-> formatCents(x + f[i])]
           t == CHOOSE h : h = F(h)
<1>5. ASSUME NEW i \in 1..n
      PROVE  addMoney2AsDecimal(formatCents(x + f[i - 1]), formatCents(a[i])) = formatCents(x + f[i])
  <2>1. f[i - 1] \in Nat /\ a[i] \in Nat /\ f[i] = f[i - 1] + a[i]
    <3>1. i - 1 \in 0..n
      BY <1>1
    <3> QED BY <1>1, <1>3, <1>4, <3>1
  <2>2. x + f[i - 1] \in Nat /\ (x + f[i - 1]) + a[i] = x + f[i]
    BY <2>1
  <2> QED BY <2>1, <2>2, AmountsAddExactly
<1>6. x + f[0] = x
  BY <1>3
<1>7. g = F(g)
  <2>1. \A i \in 0..n : g[i] = F(g)[i]
    <3> TAKE i \in 0..n
    <3>1. CASE i = 0
      BY <1>6, <3>1
    <3>2. CASE i # 0
      <4>1. i \in 1..n /\ i - 1 \in 0..n
        BY <1>1, <3>2
      <4>2. g[i] = formatCents(x + f[i]) /\ g[i - 1] = formatCents(x + f[i - 1])
        BY <4>1
      <4>3. F(g)[i] = addMoney2AsDecimal(g[i - 1], formatCents(a[i]))
        BY <3>2
      <4> HIDE DEF F, g
      <4> QED BY <1>5, <4>1, <4>2, <4>3
    <3> QED BY <3>1, <3>2
  <2> QED BY <2>1
<1>8. t = F(t)
  <2> HIDE DEF F, g
  <2> QED BY <1>7
<1>9. AddedTo(formatCents(x), a) = t[n]
  BY DEF AddedTo, n
<1> HIDE DEF t
<1>10. \A i \in 0..n : t[i] = IF i = 0 THEN formatCents(x) ELSE addMoney2AsDecimal(t[i - 1], formatCents(a[i]))
  <2>1. \A i \in 0..n : t[i] = F(t)[i]
    BY <1>8
  <2>2. \A i \in 0..n : F(t)[i] = IF i = 0 THEN formatCents(x) ELSE addMoney2AsDecimal(t[i - 1], formatCents(a[i]))
    OBVIOUS
  <2> HIDE DEF F
  <2> QED BY <2>1, <2>2
<1> DEFINE S == {i \in 0..n : t[i] = formatCents(x + f[i])}
<1>11. 0 \in S
  <2>1. 0 \in 0..n
    BY <1>1
  <2>2. t[0] = formatCents(x)
    BY <1>10, <2>1
  <2> QED BY <1>6, <2>1, <2>2
<1>12. \A i \in 1..n : i - 1 \in S => i \in S
  <2> TAKE i \in 1..n
  <2> HAVE i - 1 \in S
  <2>1. i \in 0..n /\ i # 0 /\ t[i - 1] = formatCents(x + f[i - 1])
    BY <1>1
  <2> QED BY <1>5, <1>10, <2>1
<1>13. n \in S
  <2> HIDE DEF S
  <2> QED BY <1>1, <1>11, <1>12, UpTo
<1> QED BY <1>3, <1>9, <1>13

\* What the lists of a list come to.
SumsOf(rows) == [i \in DOMAIN rows |-> SumSeq(rows[i])]

\* The sums of lists of amounts.
LEMMA SumsAreNat ==
  ASSUME NEW a \in Seq(Nat)
  PROVE  SumSeq(a) \in Nat
<1>1. Len(a) \in Nat /\ a \in [1..Len(a) -> Nat]
  BY ListIsFun
<1>2. a \in [1..Len(a) -> Int] /\ \A i \in 1..Len(a) : a[i] >= 0
  BY <1>1
<1> QED BY <1>1, <1>2, SumType

LEMMA SumsOfType ==
  ASSUME NEW rows \in Seq(Seq(Nat))
  PROVE  SumsOf(rows) \in Seq(Nat) /\ Len(SumsOf(rows)) = Len(rows)
<1>1. Len(rows) \in Nat /\ DOMAIN rows = 1..Len(rows) /\ \A i \in 1..Len(rows) : rows[i] \in Seq(Nat)
  BY ListIsFun
<1>2. \A i \in 1..Len(rows) : SumSeq(rows[i]) \in Nat
  BY <1>1, SumsAreNat
<1>3. SumsOf(rows) \in [1..Len(rows) -> Nat]
  BY <1>1, <1>2 DEF SumsOf
<1> QED BY <1>1, <1>3, FunIsList

\* The total over all documents is the sum of the sums.
LEMMA TotalOfIs ==
  ASSUME NEW rows \in Seq(Seq(Nat))
  PROVE  parseMoneyCents(TotalOf(rows)) = SumSeq(SumsOf(rows))
<1> DEFINE n == Len(rows)
           b == SumsOf(rows)
<1>1. n \in Nat /\ DOMAIN rows = 1..n /\ \A i \in 1..n : rows[i] \in Seq(Nat)
  BY ListIsFun
<1>2. b \in [1..n -> Int] /\ \A i \in 1..n : b[i] = SumSeq(rows[i]) /\ b[i] \in Nat
  <2>1. b \in Seq(Nat) /\ Len(b) = n
    BY SumsOfType
  <2>2. b \in [1..n -> Nat]
    BY <2>1, ListIsFun
  <2>3. \A i \in 1..n : b[i] = SumSeq(rows[i])
    BY <1>1 DEF SumsOf
  <2> HIDE DEF b, n
  <2> QED BY <2>2, <2>3
<1> HIDE DEF b
<1>3. PICK f \in [0..n -> Int] : f[0] = 0 /\ SumSeq(b) = f[n] /\ \A i \in 1..n : f[i] = f[i - 1] + b[i]
  BY <1>1, <1>2, PartialSums
<1> HIDE DEF n
<1>4. \A i \in 0..n : f[i] \in Nat
  <2> DEFINE S == {i \in 0..n : f[i] \in Nat}
  <2>1. 0 \in S
    BY <1>1, <1>3
  <2>2. \A i \in 1..n : i - 1 \in S => i \in S
    <3> TAKE i \in 1..n
    <3> HAVE i - 1 \in S
    <3>1. f[i - 1] \in Nat /\ b[i] \in Nat /\ f[i] = f[i - 1] + b[i] /\ i \in 0..n
      BY <1>1, <1>2, <1>3
    <3> QED BY <3>1
  <2>3. \A i \in 0..n : i \in S
    <3> HIDE DEF S
    <3> QED BY <1>1, <2>1, <2>2, UpTo
  <2> QED BY <2>3
<1> DEFINE F(h) == [i \in 0..n |-> IF i = 0 THEN formatCents(0) ELSE AddedTo(h[i - 1], rows[i])]
           g == [i \in 0..n |-> formatCents(f[i])]
           t == CHOOSE h : h = F(h)
<1>5. ASSUME NEW i \in 1..n PROVE AddedTo(formatCents(f[i - 1]), rows[i]) = formatCents(f[i])
  <2>1. f[i - 1] \in Nat /\ f[i] = f[i - 1] + SumSeq(rows[i]) /\ rows[i] \in Seq(Nat)
    <3>1. i - 1 \in 0..n
      BY <1>1
    <3> QED BY <1>1, <1>2, <1>3, <1>4, <3>1
  <2> QED BY <2>1, AddedToIs
<1>6. g = F(g)
  <2>1. \A i \in 0..n : g[i] = F(g)[i]
    <3> TAKE i \in 0..n
    <3>1. CASE i = 0
      BY <1>3, <3>1
    <3>2. CASE i # 0
      <4>1. i \in 1..n /\ i - 1 \in 0..n
        BY <1>1, <3>2
      <4>2. g[i] = formatCents(f[i]) /\ g[i - 1] = formatCents(f[i - 1])
        BY <4>1
      <4>3. F(g)[i] = AddedTo(g[i - 1], rows[i])
        BY <3>2
      <4> HIDE DEF F, g
      <4> QED BY <1>5, <4>1, <4>2, <4>3
    <3> QED BY <3>1, <3>2
  <2> QED BY <2>1
<1>7. t = F(t)
  <2> HIDE DEF F, g
  <2> QED BY <1>6
<1>8. TotalOf(rows) = t[n]
  BY DEF TotalOf, n
<1> HIDE DEF t
<1>9. \A i \in 0..n : t[i] = IF i = 0 THEN formatCents(0) ELSE AddedTo(t[i - 1], rows[i])
  <2>1. \A i \in 0..n : t[i] = F(t)[i]
    BY <1>7
  <2>2. \A i \in 0..n : F(t)[i] = IF i = 0 THEN formatCents(0) ELSE AddedTo(t[i - 1], rows[i])
    OBVIOUS
  <2> HIDE DEF F
  <2> QED BY <2>1, <2>2
<1> DEFINE S == {i \in 0..n : t[i] = formatCents(f[i])}
<1>10. 0 \in S
  <2>1. 0 \in 0..n
    BY <1>1
  <2> QED BY <1>3, <1>9, <2>1
<1>11. \A i \in 1..n : i - 1 \in S => i \in S
  <2> TAKE i \in 1..n
  <2> HAVE i - 1 \in S
  <2>1. i \in 0..n /\ i # 0 /\ t[i - 1] = formatCents(f[i - 1])
    BY <1>1
  <2> QED BY <1>5, <1>9, <2>1
<1>12. n \in S
  <2> HIDE DEF S
  <2> QED BY <1>1, <1>10, <1>11, UpTo
<1>13. n \in 0..n
  BY <1>1
<1> QED BY <1>3, <1>4, <1>8, <1>12, <1>13, AmountsAddExactly DEF b

\* What A has for each element of a list, and the doc of each.
Along(A, s) == [i \in DOMAIN s |-> A[s[i]]]
DocsOf(s) == [i \in DOMAIN s |-> s[i].doc]

\* What the amounts of the records of s come to that are among docs.
SumWithin(s, docs, amounts) ==
  SumSeq([i \in DOMAIN s |-> IF s[i].doc \in Range(docs) THEN SumSeq(amounts[i]) ELSE 0])

\* What the picked records come to, list of amounts by list of amounts, is
\* what they come to where they were kept.
LEMMA MappedTotal ==
  ASSUME NEW V, NEW s \in Seq(V), NEW m \in Seq(V), IsInjective(s), IsInjective(m), Identify(Range(s)),
         Range(m) \subseteq Range(s), NEW A \in [V -> Seq(Nat)]
  PROVE  /\ Along(A, m) \in Seq(Seq(Nat))
         /\ SumSeq(SumsOf(Along(A, m))) = SumWithin(s, DocsOf(m), Along(A, s))
<1> DEFINE w == [v \in V |-> SumSeq(A[v])]
<1>1. w \in [V -> Int]
  <2>1. \A v \in V : SumSeq(A[v]) \in Int
    BY SumsAreNat
  <2> QED BY <2>1
<1>2. Weighed(w, m) = WeighedIn(w, s, Range(m))
  <2> HIDE DEF w
  <2> QED BY <1>1, PartWeight
<1>3. DOMAIN m = 1..Len(m) /\ Len(m) \in Nat /\ \A i \in DOMAIN m : m[i] \in V
  BY ListIsFun
<1>4. Along(A, m) \in Seq(Seq(Nat))
  <2>1. Along(A, m) \in [1..Len(m) -> Seq(Nat)]
    BY <1>3 DEF Along
  <2> QED BY <1>3, <2>1, FunIsList
<1>5. SumsOf(Along(A, m)) = [i \in DOMAIN m |-> w[m[i]]]
  BY <1>3 DEF SumsOf, Along
<1>6. \A i \in DOMAIN s : s[i] \in V /\ s[i] \in Range(s)
  BY ListIsFun DEF Range
<1>7. ASSUME NEW i \in DOMAIN s PROVE s[i].doc \in Range(DocsOf(m)) <=> s[i] \in Range(m)
  <2>1. ASSUME s[i] \in Range(m) PROVE s[i].doc \in Range(DocsOf(m))
    BY <2>1 DEF Range, DocsOf
  <2>2. ASSUME s[i].doc \in Range(DocsOf(m)) PROVE s[i] \in Range(m)
    <3>1. PICK j \in DOMAIN m : m[j].doc = s[i].doc
      BY <2>2 DEF Range, DocsOf
    <3>2. m[j] \in Range(m)
      BY DEF Range
    <3>3. m[j] = s[i]
      BY <1>6, <3>1, <3>2 DEF Identify
    <3> QED BY <3>2, <3>3
  <2> QED BY <2>1, <2>2
<1>8. [i \in DOMAIN s |-> IF s[i] \in Range(m) THEN w[s[i]] ELSE 0]
       = [i \in DOMAIN s |-> IF s[i].doc \in Range(DocsOf(m)) THEN SumSeq(Along(A, s)[i]) ELSE 0]
  BY <1>6, <1>7 DEF Along
<1> HIDE DEF w
<1>9. SumSeq(SumsOf(Along(A, m))) = Weighed(w, m)
  BY <1>5 DEF Weighed
<1> QED BY <1>2, <1>4, <1>8, <1>9 DEF WeighedIn, SumWithin

------------------------------------------------------------------------------
(* An export, as one expression for every group.                           *)

\* A record of a group, and a ledger of them that differ in doc.
Record(g) ==
  {r \in [doc : Nat, day : Nat, slot : Slots, scope : {"s1", "s2"}, lines : Seq(Line),
          faults : SUBSET (AllFaults(g) \cup {None})] : IsFiniteSet(r.faults)}
Ledger(g) == {s \in Seq(Record(g)) : IsInjective(s) /\ Identify(Range(s))}

\* What a source lists, what a record is omitted for, and the records, the
\* order and the documents of an export.
Listed(g, r, cfg) ==
  IF g = "SalesInvoices" THEN r.scope = cfg.scope /\ IssuedWithin(r, cfg.from, cfg.to) ELSE InRange(r, cfg)
ListOf(g, s, cfg) == Picked(s, {i \in DOMAIN s : Listed(g, s[i], cfg)})
OmissionsIn(g, r, cfg) ==
  IF g = "SalesInvoices"
  THEN IF ElsewhereOf(r, cfg) # {} THEN ElsewhereOf(r, cfg) ELSE OmissionsOf(g, r.faults)
  ELSE IF InRange(r, cfg) THEN OmissionsOf(g, r.faults) ELSE Undatable(r, cfg)
RecsOf(g, s, cfg) == IF cfg.source THEN ListOf(g, s, cfg) ELSE s
SortedOf(g, s, cfg) == SortByDoc(RecsOf(g, s, cfg))
Kept(g, r, cfg) == InRange(r, cfg) /\ OmissionsIn(g, r, cfg) = {}
MappedOf(g, s, cfg) == Picked(SortedOf(g, s, cfg), {i \in DOMAIN SortedOf(g, s, cfg) : Kept(g, SortedOf(g, s, cfg)[i], cfg)})
BuiltOf(g, s, cfg) == BuildIncrementalExport(g, MappedOf(g, s, cfg), cfg)
Weights(g, cfg) == [r \in Record(g) |-> Cardinality(OmissionsIn(g, r, cfg))]
OmittedOf(g, s, cfg) == {r.doc : r \in {x \in Range(SortedOf(g, s, cfg)) : OmissionsIn(g, x, cfg) # {}}}

\* Every mapping is MapRecords over what its source lists.
LEMMA ExportIs ==
  ASSUME NEW g \in SaftGroups, NEW s, NEW cfg
  PROVE  ExportOf(g, s, cfg)
           = MapRecords(g, ListOf(g, s, cfg), s, cfg, [r \in Range(s) |-> OmissionsIn(g, r, cfg)])
<1> DEFINE oms == [r \in Range(s) |-> OmissionsIn(g, r, cfg)]
<1>1. CASE g = "SalesInvoices"
  <2>1. ListSealedSalesForSAFT(s, cfg) = ListOf(g, s, cfg)
    <3>1. {i \in DOMAIN s : s[i].scope = cfg.scope /\ IssuedWithin(s[i], cfg.from, cfg.to)}
            = {i \in DOMAIN s : Listed(g, s[i], cfg)}
      BY <1>1 DEF Listed
    <3> QED BY <3>1 DEF ListSealedSalesForSAFT, ListOf
  <2>2. [r \in Range(s) |-> IF ElsewhereOf(r, cfg) # {} THEN ElsewhereOf(r, cfg) ELSE OmitSales(r.faults)] = oms
    BY <1>1 DEF OmissionsIn, OmissionsOf
  <2>3. ExportOf(g, s, cfg) = MapSalesLedgerToExport(s, cfg)
    BY <1>1 DEF ExportOf
  <2> HIDE DEF oms
  <2> QED BY <1>1, <2>1, <2>2, <2>3 DEF MapSalesLedgerToExport, oms
<1>2. ASSUME g # "SalesInvoices" PROVE ListInRange(s, cfg) = ListOf(g, s, cfg)
  <2>1. {i \in DOMAIN s : InRange(s[i], cfg)} = {i \in DOMAIN s : Listed(g, s[i], cfg)}
    BY <1>2 DEF Listed
  <2> QED BY <2>1 DEF ListInRange, ListOf
<1>3. CASE g = "Payments"
  <2>1. [r \in Range(s) |-> IF InRange(r, cfg) THEN OmitPayment(r.faults) ELSE Undatable(r, cfg)] = oms
    BY <1>3 DEF OmissionsIn, OmissionsOf
  <2>2. ExportOf(g, s, cfg) = MapPaymentsLedgerToExport(s, cfg) /\ ListPaymentsForSAFT(s, cfg) = ListOf(g, s, cfg)
    BY <1>2, <1>3 DEF ExportOf, ListPaymentsForSAFT
  <2> HIDE DEF oms
  <2> QED BY <1>3, <2>1, <2>2 DEF MapPaymentsLedgerToExport, oms
<1>4. CASE g = "PurchaseInvoices"
  <2>1. [r \in Range(s) |-> IF InRange(r, cfg) THEN OmitPurchase(r.faults) ELSE Undatable(r, cfg)] = oms
    BY <1>4 DEF OmissionsIn, OmissionsOf
  <2>2. ExportOf(g, s, cfg) = MapPurchaseLedgerToExport(s, cfg) /\ ListPurchasesForSAFT(s, cfg) = ListOf(g, s, cfg)
    BY <1>2, <1>4 DEF ExportOf, ListPurchasesForSAFT
  <2> HIDE DEF oms
  <2> QED BY <1>4, <2>1, <2>2 DEF MapPurchaseLedgerToExport, oms
<1>5. CASE g = "MovementOfGoods"
  <2>1. [r \in Range(s) |-> IF InRange(r, cfg) THEN OmitMovement(r.faults) ELSE Undatable(r, cfg)] = oms
    BY <1>5 DEF OmissionsIn, OmissionsOf
  <2>2. ExportOf(g, s, cfg) = MapMovementLedgerToExport(s, cfg) /\ ListMovementsForSAFT(s, cfg) = ListOf(g, s, cfg)
    BY <1>2, <1>5 DEF ExportOf, ListMovementsForSAFT
  <2> HIDE DEF oms
  <2> QED BY <1>5, <2>1, <2>2 DEF MapMovementLedgerToExport, oms
<1>6. CASE g = "WorkingDocuments"
  <2>1. [r \in Range(s) |-> IF InRange(r, cfg) THEN OmitWorking(r.faults) ELSE Undatable(r, cfg)] = oms
    BY <1>6 DEF OmissionsIn, OmissionsOf
  <2>2. ExportOf(g, s, cfg) = MapWorkingLedgerToExport(s, cfg) /\ ListWorkingForSAFT(s, cfg) = ListOf(g, s, cfg)
    BY <1>2, <1>6 DEF ExportOf, ListWorkingForSAFT
  <2> HIDE DEF oms
  <2> QED BY <1>6, <2>1, <2>2 DEF MapWorkingLedgerToExport, oms
<1>7. CASE g = "GeneralLedgerEntries"
  <2>1. [r \in Range(s) |-> IF InRange(r, cfg) THEN OmitGLEntries(r.faults) ELSE Undatable(r, cfg)] = oms
    BY <1>7 DEF OmissionsIn, OmissionsOf
  <2>2. ExportOf(g, s, cfg) = MapGLEntriesLedgerToExport(s, cfg) /\ ListGLEntriesForSAFT(s, cfg) = ListOf(g, s, cfg)
    BY <1>2, <1>7 DEF ExportOf, ListGLEntriesForSAFT
  <2> HIDE DEF oms
  <2> QED BY <1>7, <2>1, <2>2 DEF MapGLEntriesLedgerToExport, oms
<1> QED BY <1>1, <1>3, <1>4, <1>5, <1>6, <1>7 DEF SaftGroups

\* What a ledger is.
LEMMA RecordFacts ==
  ASSUME NEW g, NEW s \in Ledger(g)
  PROVE  /\ s \in Seq(Record(g)) /\ IsInjective(s) /\ Identify(Range(s)) /\ Range(s) \subseteq Record(g)
         /\ \A r \in Record(g) : r.doc \in Nat
<1>1. s \in Seq(Record(g)) /\ IsInjective(s) /\ Identify(Range(s)) /\ \A r \in Record(g) : r.doc \in Nat
  BY DEF Ledger, Record
<1>2. Range(s) \subseteq Record(g)
  BY <1>1, ListIsFun DEF Range
<1> QED BY <1>1, <1>2

\* The records, the order and the documents of an export are lists of
\* records of the ledger, each once.
LEMMA RecsFacts ==
  ASSUME NEW g, NEW s \in Ledger(g), NEW cfg
  PROVE  /\ RecsOf(g, s, cfg) \in Ledger(g)
         /\ Range(RecsOf(g, s, cfg)) = {r \in Range(s) : cfg.source => Listed(g, r, cfg)}
<1>1. s \in Seq(Record(g)) /\ IsInjective(s) /\ Identify(Range(s))
  BY RecordFacts
<1> DEFINE keep == {i \in DOMAIN s : Listed(g, s[i], cfg)}
           t == ListOf(g, s, cfg)
<1>2. t \in Seq(Record(g)) /\ IsInjective(t) /\ Range(t) = {s[i] : i \in keep \cap DOMAIN s}
  <2>1. t = Picked(s, keep)
    BY DEF ListOf
  <2> HIDE DEF keep, t
  <2> QED BY <1>1, <2>1, PickedFacts
<1>3. {s[i] : i \in keep \cap DOMAIN s} = {r \in Range(s) : Listed(g, r, cfg)}
  BY DEF Range
<1>4. Identify(Range(t))
  BY <1>1, <1>2, <1>3 DEF Identify
<1> HIDE DEF t, keep
<1>5. CASE cfg.source
  BY <1>2, <1>3, <1>4, <1>5 DEF RecsOf, Ledger, t
<1>6. CASE ~ cfg.source
  BY <1>6 DEF RecsOf
<1> QED BY <1>5, <1>6

LEMMA SortedFacts ==
  ASSUME NEW g, NEW s \in Ledger(g), NEW cfg
  PROVE  SortedOf(g, s, cfg) \in Ledger(g) /\ Range(SortedOf(g, s, cfg)) = Range(RecsOf(g, s, cfg))
<1> DEFINE t == RecsOf(g, s, cfg)
<1>1. t \in Ledger(g)
  BY RecsFacts
<1> HIDE DEF t
<1>2. t \in Seq(Record(g)) /\ IsInjective(t) /\ Identify(Range(t)) /\ \A r \in Record(g) : r.doc \in Nat
  BY <1>1, RecordFacts
<1>3. SortByDoc(t) \in Seq(Record(g)) /\ Range(SortByDoc(t)) = Range(t) /\ IsInjective(SortByDoc(t))
  BY <1>2, SortByDocFacts
<1> QED BY <1>2, <1>3 DEF SortedOf, Ledger, t

LEMMA MappedFacts ==
  ASSUME NEW g, NEW s \in Ledger(g), NEW cfg
  PROVE  /\ MappedOf(g, s, cfg) \in Ledger(g)
         /\ Range(MappedOf(g, s, cfg)) = {r \in Range(RecsOf(g, s, cfg)) : Kept(g, r, cfg)}
<1> DEFINE t == SortedOf(g, s, cfg)
           keep == {i \in DOMAIN t : Kept(g, t[i], cfg)}
           m == MappedOf(g, s, cfg)
<1>1. t \in Ledger(g) /\ Range(t) = Range(RecsOf(g, s, cfg))
  BY SortedFacts
<1>2. m = Picked(t, keep)
  BY DEF MappedOf
<1>3. t \in Seq(Record(g)) /\ IsInjective(t) /\ Identify(Range(t))
  BY <1>1 DEF Ledger
<1> HIDE DEF m, t
<1>4. m \in Seq(Record(g)) /\ IsInjective(m) /\ Range(m) = {t[i] : i \in keep \cap DOMAIN t}
  <2> HIDE DEF keep
  <2> QED BY <1>2, <1>3, PickedFacts
<1>5. {t[i] : i \in keep \cap DOMAIN t} = {r \in Range(t) : Kept(g, r, cfg)}
  BY DEF Range
<1>6. Identify(Range(m))
  BY <1>3, <1>4, <1>5 DEF Identify
<1> QED BY <1>1, <1>4, <1>5, <1>6 DEF Ledger, m

\* What MapSorted comes to.
LEMMA ExportCases ==
  ASSUME NEW g \in SaftGroups, NEW s \in Ledger(g), NEW cfg
  PROVE  ExportOf(g, s, cfg) =
           IF \/ cfg.source /\ SourceFails(g, RecsOf(g, s, cfg), cfg)
              \/ Weighed(Weights(g, cfg), SortedOf(g, s, cfg)) > Cap(cfg.maxOmissions)
              \/ Len(MappedOf(g, s, cfg)) > MaxTableEntries
              \/ BuiltOf(g, s, cfg).status = "failed"
           THEN Failed
           ELSE [BuiltOf(g, s, cfg) EXCEPT !.omitted = OmittedOf(g, s, cfg)]
<1> DEFINE oms == [r \in Range(s) |-> OmissionsIn(g, r, cfg)]
           t == SortedOf(g, s, cfg)
<1>1. t \in Ledger(g) /\ Range(t) \subseteq Range(s) /\ Range(t) \subseteq Record(g)
  BY SortedFacts, RecsFacts, RecordFacts
<1>2. \A r \in Range(t) : oms[r] = OmissionsIn(g, r, cfg)
  BY <1>1
<1>3. \A i \in DOMAIN t : t[i] \in Range(t) /\ t[i] \in Record(g)
  BY <1>1 DEF Range
<1> HIDE DEF t
<1>4. [i \in DOMAIN t |-> Cardinality(oms[t[i]])] = [i \in DOMAIN t |-> Weights(g, cfg)[t[i]]]
  BY <1>2, <1>3 DEF Weights
<1>5. {i \in DOMAIN t : InRange(t[i], cfg) /\ oms[t[i]] = {}} = {i \in DOMAIN t : Kept(g, t[i], cfg)}
  BY <1>2, <1>3 DEF Kept
<1>6. {r.doc : r \in {x \in Range(t) : oms[x] # {}}} = OmittedOf(g, s, cfg)
  BY <1>2 DEF OmittedOf, t
<1> HIDE DEF oms
<1>7. Picked(t, {i \in DOMAIN t : InRange(t[i], cfg) /\ oms[t[i]] = {}}) = MappedOf(g, s, cfg)
  BY <1>5 DEF MappedOf, t
<1>8. SumSeq([i \in DOMAIN t |-> Cardinality(oms[t[i]])]) = Weighed(Weights(g, cfg), t)
  BY <1>4 DEF Weighed
<1>9. MapSorted(g, t, cfg, oms) =
        IF \/ Weighed(Weights(g, cfg), t) > Cap(cfg.maxOmissions)
           \/ Len(MappedOf(g, s, cfg)) > MaxTableEntries
           \/ BuiltOf(g, s, cfg).status = "failed"
        THEN Failed
        ELSE [BuiltOf(g, s, cfg) EXCEPT !.omitted = OmittedOf(g, s, cfg)]
  BY <1>6, <1>7, <1>8 DEF MapSorted, BuiltOf
<1>10. ExportOf(g, s, cfg) = IF cfg.source /\ SourceFails(g, RecsOf(g, s, cfg), cfg) THEN Failed
                             ELSE MapSorted(g, t, cfg, oms)
  <2>1. ExportOf(g, s, cfg) = MapRecords(g, ListOf(g, s, cfg), s, cfg, oms)
    BY ExportIs DEF oms
  <2> QED BY <2>1 DEF MapRecords, RecsOf, SortedOf, t
<1>11. CASE cfg.source /\ SourceFails(g, RecsOf(g, s, cfg), cfg)
  BY <1>10, <1>11
<1>12. CASE ~ (cfg.source /\ SourceFails(g, RecsOf(g, s, cfg), cfg))
  <2>1. ExportOf(g, s, cfg) = MapSorted(g, t, cfg, oms)
    BY <1>10, <1>12
  <2>2. CASE \/ Weighed(Weights(g, cfg), t) > Cap(cfg.maxOmissions)
             \/ Len(MappedOf(g, s, cfg)) > MaxTableEntries
             \/ BuiltOf(g, s, cfg).status = "failed"
    BY <1>9, <2>1, <2>2, Zenon DEF t
  <2>3. CASE ~ \/ Weighed(Weights(g, cfg), t) > Cap(cfg.maxOmissions)
               \/ Len(MappedOf(g, s, cfg)) > MaxTableEntries
               \/ BuiltOf(g, s, cfg).status = "failed"
    BY <1>9, <1>12, <2>1, <2>3, Zenon DEF t
  <2> QED BY <2>2, <2>3
<1> QED BY <1>11, <1>12

\* Checks report faults the record has.
LEMMA FirstOfWithin ==
  ASSUME NEW checks, DOMAIN checks \subseteq Nat, NEW f
  PROVE  FirstOf(checks, f) \subseteq f
<1> DEFINE hit == {i \in DOMAIN checks : checks[i] \in f}
<1>1. CASE hit = {}
  BY <1>1 DEF FirstOf
<1>2. CASE hit # {}
  <2>1. \E i \in hit : \A j \in hit : i <= j
    <3>1. hit \in SUBSET Nat
      OBVIOUS
    <3> HIDE DEF hit
    <3> QED BY <1>2, <3>1, LeastNat
  <2> DEFINE k == CHOOSE i \in hit : \A j \in hit : i <= j
  <2>2. k \in hit
    BY <2>1
  <2>3. FirstOf(checks, f) = {checks[k]}
    BY <1>2 DEF FirstOf
  <2> HIDE DEF k
  <2> QED BY <2>2, <2>3
<1> QED BY <1>1, <1>2

LEMMA AllOrFirstWithin ==
  ASSUME NEW all, NEW checks, DOMAIN checks \subseteq Nat, NEW f
  PROVE  AllOrFirst(all, checks, f) \subseteq f
  BY FirstOfWithin DEF AllOrFirst

\* A record is omitted for faults it has.
LEMMA OmissionsWithin ==
  ASSUME NEW g \in SaftGroups, NEW f
  PROVE  OmissionsOf(g, f) \subseteq f
<1>1. CASE g = "SalesInvoices"
  <2> DEFINE heads == <<"document_type", "invoice_no">>
  <2>1. FirstOf(heads, f) \subseteq f
    <3>1. DOMAIN heads \subseteq Nat
      OBVIOUS
    <3> HIDE DEF heads
    <3> QED BY <3>1, FirstOfWithin
  <2>2. AllOrFirst({"hash", "hash_control", "source_id", "customer_id", "unit_of_measure", "lines"},
                   SalesLineChecks, f) \subseteq f
    <3>1. DOMAIN SalesLineChecks \subseteq Nat
      BY DEF SalesLineChecks
    <3> QED BY <3>1, AllOrFirstWithin
  <2> QED BY <1>1, <2>1, <2>2 DEF OmissionsOf, OmitSales
<1>2. CASE g = "Payments"
  <2>1. DOMAIN PaymentLineChecks \subseteq Nat
    BY DEF PaymentLineChecks
  <2> QED BY <1>2, <2>1, AllOrFirstWithin DEF OmissionsOf, OmitPayment
<1>3. CASE g = "PurchaseInvoices"
  BY <1>3 DEF OmissionsOf, OmitPurchase
<1>4. CASE g = "MovementOfGoods"
  <2>1. DOMAIN MovementLineChecks \subseteq Nat
    BY DEF MovementLineChecks
  <2> QED BY <1>4, <2>1, AllOrFirstWithin DEF OmissionsOf, OmitMovement
<1>5. CASE g = "WorkingDocuments"
  <2>1. DOMAIN WorkingLineChecks \subseteq Nat
    BY DEF WorkingLineChecks
  <2> QED BY <1>5, <2>1, AllOrFirstWithin DEF OmissionsOf, OmitWorking
<1>6. CASE g = "GeneralLedgerEntries"
  <2> DEFINE debit == <<"debit_record_id", "debit_account", "debit_amount", "debit_desc">>
             credit == <<"credit_record_id", "credit_account", "credit_amount", "credit_desc">>
  <2>1. FirstOf(debit, f) \subseteq f /\ FirstOf(credit, f) \subseteq f
    <3>1. DOMAIN debit \subseteq Nat /\ DOMAIN credit \subseteq Nat
      OBVIOUS
    <3> HIDE DEF debit, credit
    <3> QED BY <3>1, FirstOfWithin
  <2> QED BY <1>6, <2>1 DEF OmissionsOf, OmitGLEntries, OmitGLLines
<1> QED BY <1>1, <1>2, <1>3, <1>4, <1>5, <1>6 DEF SaftGroups

\* In the period, a record is omitted for its faults alone.
LEMMA OmissionsInRange ==
  ASSUME NEW g, NEW r, NEW cfg, InRange(r, cfg)
  PROVE  OmissionsIn(g, r, cfg) = OmissionsOf(g, r.faults)
<1>1. ElsewhereOf(r, cfg) = {}
  BY DEF ElsewhereOf, InRange
<1> QED BY <1>1 DEF OmissionsIn

\* A record outside the period has one omission at most.
LEMMA OmissionsElsewhere ==
  ASSUME NEW g, NEW r, NEW cfg, ~ InRange(r, cfg)
  PROVE  /\ OmissionsIn(g, r, cfg) = {} \/ \E x : OmissionsIn(g, r, cfg) = {x}
         /\ r.scope = cfg.scope /\ r.day = Undated => OmissionsIn(g, r, cfg) # {}
<1>1. CASE g = "SalesInvoices"
  <2>1. ElsewhereOf(r, cfg) = {"scope_id"} \/ ElsewhereOf(r, cfg) = {"issued_at"}
    BY DEF ElsewhereOf
  <2>2. OmissionsIn(g, r, cfg) = ElsewhereOf(r, cfg)
    BY <1>1, <2>1 DEF OmissionsIn
  <2> QED BY <2>1, <2>2
<1>2. CASE g # "SalesInvoices"
  <2>1. OmissionsIn(g, r, cfg) = Undatable(r, cfg)
    BY <1>2 DEF OmissionsIn
  <2> QED BY <2>1 DEF Undatable
<1> QED BY <1>1, <1>2

\* A record has at most one omission for each fault and one for its place.
LEMMA OmissionsCount ==
  ASSUME NEW g \in SaftGroups, NEW r \in Record(g), NEW cfg
  PROVE  /\ Cardinality(OmissionsIn(g, r, cfg)) \in Nat
         /\ Cardinality(r.faults) \in Nat
         /\ Cardinality(OmissionsIn(g, r, cfg)) <= Cardinality(r.faults) + Count(~ InRange(r, cfg))
<1>1. IsFiniteSet(r.faults) /\ Cardinality(r.faults) \in Nat
  BY FS_CardinalityType DEF Record
<1>2. CASE InRange(r, cfg)
  <2> DEFINE o == OmissionsIn(g, r, cfg)
  <2>1. o \in SUBSET r.faults
    BY <1>2, OmissionsInRange, OmissionsWithin
  <2> HIDE DEF o
  <2>2. IsFiniteSet(o) /\ Cardinality(o) <= Cardinality(r.faults)
    BY <1>1, <2>1, FS_Subset
  <2>3. Cardinality(o) \in Nat
    BY <2>2, FS_CardinalityType
  <2>4. Count(~ InRange(r, cfg)) = 0
    BY <1>2 DEF Count
  <2> QED BY <1>1, <2>2, <2>3, <2>4 DEF o
<1>3. CASE ~ InRange(r, cfg)
  <2>1. Cardinality(OmissionsIn(g, r, cfg)) \in {0, 1}
    <3> DEFINE o == OmissionsIn(g, r, cfg)
    <3>1. o = {} \/ \E x : o = {x}
      BY <1>3, OmissionsElsewhere
    <3> HIDE DEF o
    <3>2. o = {} => Cardinality(o) = 0
      BY FS_EmptySet
    <3>3. (\E x : o = {x}) => Cardinality(o) = 1
      BY FS_Singleton
    <3> QED BY <3>1, <3>2, <3>3 DEF o
  <2>2. Count(~ InRange(r, cfg)) = 1
    BY <1>3 DEF Count
  <2> QED BY <1>1, <2>1, <2>2
<1> QED BY <1>2, <1>3

\* The totals of a group's file.
TotalsOf(g, docs, debit, credit, entries, quantity) ==
  /\ g = "SalesInvoices" => credit = TotalOf(AllLineTotals(docs))
  /\ g = "MovementOfGoods" => /\ quantity = addDecimalNonNeg(AllQuantities(docs))
                              /\ \A i \in DOMAIN docs : ReadableQuantities(docs[i])
  /\ g = "PurchaseInvoices" => entries = Len(docs)
  /\ g \in {"Payments", "WorkingDocuments", "GeneralLedgerEntries"} =>
       debit = TotalOf(AllDebits(docs)) /\ credit = TotalOf(AllCredits(docs))

\* A file that is built has the totals of its documents.
LEMMA BuildResult ==
  ASSUME NEW g \in SaftGroups, NEW docs, NEW cfg
  PROVE  \/ BuildIncrementalExport(g, docs, cfg) = Failed
         \/ \E a, b, n, q : /\ BuildIncrementalExport(g, docs, cfg) = Built(docs, a, b, n, q)
                            /\ TotalsOf(g, docs, a, b, n, q)
<1>1. CASE g = "SalesInvoices"
  BY <1>1 DEF BuildIncrementalExport, BuildSales, TotalsOf
<1>2. CASE g = "Payments"
  BY <1>2 DEF BuildIncrementalExport, BuildPayments, TotalsOf
<1>3. CASE g = "PurchaseInvoices"
  BY <1>3 DEF BuildIncrementalExport, BuildPurchases, TotalsOf
<1>4. CASE g = "MovementOfGoods"
  <2>1. TotalsOf(g, docs, formatCents(0), formatCents(0), SumSeq([i \in DOMAIN docs |-> Len(docs[i].lines)]),
                 addDecimalNonNeg(AllQuantities(docs)))
          <=> \A i \in DOMAIN docs : ReadableQuantities(docs[i])
    BY <1>4 DEF TotalsOf
  <2> QED BY <1>4, <2>1 DEF BuildIncrementalExport, BuildMovements
<1>5. CASE g = "WorkingDocuments"
  BY <1>5 DEF BuildIncrementalExport, BuildWorking, TotalsOf
<1>6. CASE g = "GeneralLedgerEntries"
  BY <1>6 DEF BuildIncrementalExport, BuildGLEntries, TotalsOf
<1> QED BY <1>1, <1>2, <1>3, <1>4, <1>5, <1>6 DEF SaftGroups

\* An export that does not fail.
LEMMA ExportOk ==
  ASSUME NEW g \in SaftGroups, NEW s \in Ledger(g), NEW cfg, NEW res, res = ExportOf(g, s, cfg),
         res.status # "failed"
  PROVE  /\ res.status = "ok" /\ res.docs = [i \in DOMAIN MappedOf(g, s, cfg) |-> MappedOf(g, s, cfg)[i].doc]
         /\ res.omitted = OmittedOf(g, s, cfg)
         /\ TotalsOf(g, MappedOf(g, s, cfg), res.debit, res.credit, res.entries, res.quantity)
<1> DEFINE m == MappedOf(g, s, cfg)
<1>1. Failed.status = "failed"
  BY DEF Failed
<1>2. /\ res = [BuiltOf(g, s, cfg) EXCEPT !.omitted = OmittedOf(g, s, cfg)]
      /\ BuiltOf(g, s, cfg).status # "failed"
  BY <1>1, ExportCases, Zenon
<1>3. PICK a, b, n, q : BuiltOf(g, s, cfg) = Built(m, a, b, n, q) /\ TotalsOf(g, m, a, b, n, q)
  <2> HIDE DEF m
  <2>1. BuiltOf(g, s, cfg) = BuildIncrementalExport(g, m, cfg)
    BY DEF BuiltOf, m
  <2> QED BY <1>1, <1>2, <2>1, BuildResult
<1> HIDE DEF m
<1>4. res = [Built(m, a, b, n, q) EXCEPT !.omitted = OmittedOf(g, s, cfg)]
  BY <1>2, <1>3
<1>5. /\ res.status = "ok" /\ res.docs = [i \in DOMAIN m |-> m[i].doc] /\ res.debit = a
      /\ res.credit = b /\ res.entries = n /\ res.quantity = q /\ res.omitted = OmittedOf(g, s, cfg)
  BY <1>4 DEF Built
<1> QED BY <1>3, <1>5 DEF m

\* The documents of a list of records.
LEMMA DocsFacts ==
  ASSUME NEW g, NEW m \in Ledger(g), NEW docs, docs = [i \in DOMAIN m |-> m[i].doc]
  PROVE  /\ Range(docs) = {r.doc : r \in Range(m)} /\ Len(docs) = Len(m)
         /\ Len(docs) = Cardinality(Range(docs))
<1>1. m \in Seq(Record(g)) /\ IsInjective(m) /\ Identify(Range(m)) /\ \A r \in Record(g) : r.doc \in Nat
  BY RecordFacts
<1>2. Len(m) \in Nat /\ DOMAIN m = 1..Len(m) /\ \A i \in DOMAIN m : m[i] \in Record(g) /\ m[i] \in Range(m)
  BY <1>1, ListIsFun DEF Range
<1>3. docs \in [1..Len(m) -> Nat]
  BY <1>1, <1>2
<1>4. docs \in Seq(Nat) /\ Len(docs) = Len(m) /\ DOMAIN docs = 1..Len(m)
  BY <1>2, <1>3, FunIsList
<1>5. IsInjective(docs)
  <2> SUFFICES ASSUME NEW i \in DOMAIN m, NEW j \in DOMAIN m, m[i].doc = m[j].doc PROVE i = j
    BY DEF IsInjective
  <2>1. m[i] = m[j]
    BY <1>1, <1>2 DEF Identify
  <2> QED BY <1>1, <2>1 DEF IsInjective
<1>6. Range(docs) = {r.doc : r \in Range(m)}
  BY DEF Range
<1>7. Len(docs) = Cardinality(Range(docs))
  BY <1>4, <1>5, RangeCount
<1> QED BY <1>4, <1>6, <1>7

------------------------------------------------------------------------------
(* The ledger at every state, and the records of a period.                 *)

\* The ledger holds records that differ in doc, those of sales with an
\* instant, and once there is a result it is the export of the ledger.
SaftInv ==
  /\ saftGroup \in SaftGroups
  /\ saftLedger \in Ledger(saftGroup)
  /\ saftGroup = "SalesInvoices" => \A r \in Range(saftLedger) : r.day \in Days
  /\ saftResult.status # "pending" =>
       saftCfg \in ExportConfigs /\ saftResult = ExportOf(saftGroup, saftLedger, saftCfg)

\* A record with a doc of its own may be added.
LEMMA LedgerAppend ==
  ASSUME NEW g, NEW s \in Ledger(g), NEW r \in Record(g), \A i \in DOMAIN s : s[i].doc # r.doc
  PROVE  Append(s, r) \in Ledger(g) /\ Range(Append(s, r)) = Range(s) \cup {r}
<1>1. s \in Seq(Record(g)) /\ IsInjective(s) /\ Identify(Range(s))
  BY RecordFacts
<1>2. \A q \in Range(s) : q.doc # r.doc
  BY DEF Range
<1>3. r \notin Range(s)
  BY <1>2
<1>4. Append(s, r) \in Seq(Record(g)) /\ Range(Append(s, r)) = Range(s) \cup {r} /\ IsInjective(Append(s, r))
  BY <1>1, <1>3, RangeAppend, AppendProperties
<1>5. Identify(Range(Append(s, r)))
  BY <1>1, <1>2, <1>4 DEF Identify
<1> QED BY <1>4, <1>5 DEF Ledger

\* The inductive invariant of the ledger and its export.
LEMMA SaftInvHolds == SaftSpec => []SaftInv
<1>1. SaftInit => SaftInv
  <2> SUFFICES ASSUME SaftInit PROVE SaftInv
    OBVIOUS
  <2>1. saftGroup \in SaftGroups /\ saftLedger = <<>> /\ saftResult.status = "pending"
    BY DEF SaftInit, Pending
  <2>2. saftLedger \in Seq(Record(saftGroup)) /\ DOMAIN saftLedger = {}
    BY <2>1, EmptySeq
  <2>3. Range(saftLedger) = {}
    BY <2>2 DEF Range
  <2>4. IsInjective(saftLedger) /\ Identify(Range(saftLedger))
    BY <2>2, <2>3 DEF IsInjective, Identify
  <2> QED BY <2>1, <2>2, <2>3, <2>4 DEF SaftInv, Ledger
<1>2. ASSUME SaftInv, [SaftNext]_saftVars PROVE SaftInv'
  <2>1. ASSUME NEW doc \in 1..MaxRecords, RecordDocument(doc) PROVE SaftInv'
    <3>1. PICK day \in Days \cup (IF saftGroup = "SalesInvoices" THEN {} ELSE {Undated}),
               slot \in IF saftGroup = "SalesInvoices" THEN Slots ELSE {"mid"}, scope \in {"s1", "s2"},
               lines \in {PlainLines} \cup OtherLines, a, b \in AllFaults(saftGroup) \cup {None} :
            LET r == [doc |-> doc, day |-> day, slot |-> slot, scope |-> scope, lines |-> lines,
                      faults |-> {a, b} \ {None}]
            IN /\ Deviations(r) + TotalDeviations(saftLedger) <= MaxDeviations
               /\ Rare(r) + TotalRare(saftLedger) <= 1
               /\ saftLedger' = Append(saftLedger, r)
      BY <2>1, Zenon DEF RecordDocument
    <3>2. PICK f : f = {a, b} \ {None}
      OBVIOUS
    <3>3. PICK r : r = [doc |-> doc, day |-> day, slot |-> slot, scope |-> scope, lines |-> lines, faults |-> f]
      OBVIOUS
    <3>4. saftLedger' = Append(saftLedger, r)
      BY <3>1, <3>2, <3>3
    <3>5. /\ saftResult.status = "pending" /\ \A i \in DOMAIN saftLedger : saftLedger[i].doc # doc
          /\ saftGroup' = saftGroup /\ saftResult' = saftResult
      BY <2>1 DEF RecordDocument
    <3>6. IsFiniteSet(f) /\ f \in SUBSET (AllFaults(saftGroup) \cup {None})
      <4>1. IsFiniteSet({a}) /\ {a} \cup {b} = {a, b}
        BY FS_Singleton
      <4>2. IsFiniteSet({a, b})
        BY <4>1, FS_AddElement
      <4>3. f \in SUBSET {a, b}
        BY <3>2
      <4>4. IsFiniteSet(f)
        BY <4>2, <4>3, FS_Subset
      <4> QED BY <3>2, <4>4
    <3>7. doc \in Nat /\ day \in Nat /\ slot \in Slots /\ lines \in Seq(Line)
      BY <3>1, SaftAssumption DEF Slots, Undated
    <3>8. r \in Record(saftGroup) /\ r.doc = doc /\ r.day = day
      BY <3>1, <3>3, <3>6, <3>7 DEF Record
    <3>9. saftLedger' \in Ledger(saftGroup) /\ Range(saftLedger') = Range(saftLedger) \cup {r}
      BY <1>2, <3>4, <3>5, <3>8, LedgerAppend DEF SaftInv
    <3>10. saftGroup = "SalesInvoices" => \A x \in Range(saftLedger') : x.day \in Days
      BY <1>2, <3>1, <3>8, <3>9 DEF SaftInv
    <3> QED BY <1>2, <3>5, <3>9, <3>10 DEF SaftInv
  <2>2. CASE Export
    <3>1. /\ saftCfg' \in ExportConfigs /\ saftResult' = ExportOf(saftGroup, saftLedger, saftCfg')
          /\ saftGroup' = saftGroup /\ saftLedger' = saftLedger
      BY <2>2 DEF Export
    <3> QED BY <1>2, <3>1 DEF SaftInv
  <2>3. CASE UNCHANGED saftVars
    BY <1>2, <2>3 DEF saftVars, SaftInv
  <2> QED BY <1>2, <2>1, <2>2, <2>3 DEF SaftNext
<1> QED BY <1>1, <1>2, PTL DEF SaftSpec

\* What an export is configured with.
LEMMA ConfigFacts ==
  ASSUME NEW cfg \in ExportConfigs
  PROVE  /\ cfg.scope = "s1" /\ cfg.from \in Nat \ {0} /\ cfg.to \in Nat \ {0}
         /\ Cap(cfg.maxOmissions) \in Nat /\ Cap(cfg.maxDocuments) \in Nat /\ MaxTableEntries \in Nat
<1>1. PICK from \in Days, to \in Days, table \in BOOLEAN, source \in BOOLEAN, limits \in Limits :
        cfg = [scope |-> "s1", from |-> from, to |-> to, table |-> table, source |-> source,
               maxOmissions |-> limits[1], maxDocuments |-> limits[2]]
  BY DEF ExportConfigs
<1>2. limits[1] \in Nat /\ limits[2] \in Nat /\ MaxTableEntries \in Nat /\ from \in Nat \ {0} /\ to \in Nat \ {0}
  BY SaftAssumption
<1>3. /\ cfg.scope = "s1" /\ cfg.from = from /\ cfg.to = to
      /\ cfg.maxOmissions = limits[1] /\ cfg.maxDocuments = limits[2]
  BY <1>1
<1> QED BY <1>2, <1>3 DEF Cap

\* A sale of the first instant after the period, as PostgreSQL lists it.
NextMidnight(g, r, cfg) ==
  /\ SaftDialect = "postgres" /\ g = "SalesInvoices"
  /\ r.scope = cfg.scope /\ r.day = cfg.to + 1 /\ r.slot = "midnight"

\* Sources list records of the period, and sales of the midnight after it in
\* PostgreSQL; they list all of the period but for sales in SQLite.
LEMMA ListedInRange ==
  ASSUME NEW g, NEW r \in Record(g), NEW cfg \in ExportConfigs
  PROVE  /\ Listed(g, r, cfg) => InRange(r, cfg) \/ NextMidnight(g, r, cfg)
         /\ SaftDialect = "postgres" \/ g # "SalesInvoices" => (InRange(r, cfg) => Listed(g, r, cfg))
<1>1. cfg.from \in Nat \ {0} /\ cfg.to \in Nat \ {0} /\ r.day \in Nat
  BY ConfigFacts DEF Record
<1>2. CASE g # "SalesInvoices"
  BY <1>2 DEF Listed
<1>3. CASE g = "SalesInvoices"
  <2>1. Listed(g, r, cfg) <=> r.scope = cfg.scope /\ IssuedWithin(r, cfg.from, cfg.to)
    BY <1>3 DEF Listed
  <2>2. IssuedWithin(r, cfg.from, cfg.to) =>
          \/ cfg.from <= r.day /\ r.day <= cfg.to
          \/ SaftDialect = "postgres" /\ r.day = cfg.to + 1 /\ r.slot = "midnight"
    BY <1>1 DEF IssuedWithin
  <2>3. SaftDialect = "postgres" => (cfg.from <= r.day /\ r.day <= cfg.to => IssuedWithin(r, cfg.from, cfg.to))
    BY <1>1 DEF IssuedWithin
  <2>4. cfg.from <= r.day => r.day # Undated
    BY <1>1 DEF Undated
  <2> QED BY <1>3, <2>1, <2>2, <2>3, <2>4 DEF InRange, NextMidnight
<1> QED BY <1>2, <1>3

\* In an export that succeeds, each record of the period is a document once
\* or omitted.
Accounted(g, s, cfg, res) ==
  LET due == {r \in Range(s) : InRange(r, cfg)}
      reached == {r \in Range(s) : InRange(r, cfg) \/ NextMidnight(g, r, cfg)}
      docs == Range(res.docs)
  IN /\ {r.doc : r \in due} \subseteq docs \cup res.omitted
     /\ docs \cap res.omitted = {}
     /\ docs \subseteq {r.doc : r \in due}
     /\ Len(res.docs) = Cardinality(docs)
     /\ cfg.source => res.omitted \subseteq {r.doc : r \in reached}
     /\ ~ cfg.source => {r.doc : r \in {x \in Range(s) : x.scope = "s1" /\ x.day = Undated}} \subseteq res.omitted

\* No record of the period is lost or told twice.
LEMMA ExportAccounts ==
  ASSUME NEW g \in SaftGroups, NEW s \in Ledger(g), NEW cfg \in ExportConfigs, NEW res,
         res = ExportOf(g, s, cfg), res.status = "ok", SaftDialect = "postgres" \/ g # "SalesInvoices"
  PROVE  Accounted(g, s, cfg, res)
<1> DEFINE m == MappedOf(g, s, cfg)
           recs == RecsOf(g, s, cfg)
           due == {r \in Range(s) : InRange(r, cfg)}
           reached == {r \in Range(s) : InRange(r, cfg) \/ NextMidnight(g, r, cfg)}
           docs == Range(res.docs)
<1>1. res.docs = [i \in DOMAIN m |-> m[i].doc] /\ res.omitted = OmittedOf(g, s, cfg)
  BY ExportOk
<1>2. m \in Ledger(g) /\ Range(m) = {r \in Range(recs) : Kept(g, r, cfg)}
  BY MappedFacts
<1>3. Range(recs) = {r \in Range(s) : cfg.source => Listed(g, r, cfg)}
  BY RecsFacts
<1>4. OmittedOf(g, s, cfg) = {r.doc : r \in {x \in Range(recs) : OmissionsIn(g, x, cfg) # {}}}
  BY SortedFacts DEF OmittedOf
<1>5. \A r \in Range(s) : /\ InRange(r, cfg) => Listed(g, r, cfg)
                          /\ Listed(g, r, cfg) => InRange(r, cfg) \/ NextMidnight(g, r, cfg)
  BY RecordFacts, ListedInRange
<1> HIDE DEF m, recs
<1>6. docs = {r.doc : r \in Range(m)} /\ Len(res.docs) = Cardinality(docs)
  BY <1>1, <1>2, DocsFacts
<1>7. Identify(Range(s))
  BY RecordFacts
<1>8. \A r \in due : r \in Range(recs)
  BY <1>3, <1>5
<1>9. {r.doc : r \in due} \subseteq docs \cup res.omitted
  BY <1>1, <1>2, <1>4, <1>6, <1>8 DEF Kept
<1>10. docs \cap res.omitted = {}
  <2> SUFFICES ASSUME NEW q \in Range(m), NEW r \in Range(recs), OmissionsIn(g, r, cfg) # {}, q.doc = r.doc
               PROVE  FALSE
    BY <1>1, <1>4, <1>6
  <2>1. q \in Range(s) /\ r \in Range(s) /\ OmissionsIn(g, q, cfg) = {}
    BY <1>2, <1>3 DEF Kept
  <2> QED BY <1>7, <2>1 DEF Identify
<1>11. docs \subseteq {r.doc : r \in due}
  BY <1>2, <1>3, <1>6 DEF Kept
<1>12. cfg.source => res.omitted \subseteq {r.doc : r \in reached}
  BY <1>1, <1>3, <1>4, <1>5
<1>13. ASSUME ~ cfg.source, NEW r \in Range(s), r.scope = "s1", r.day = Undated PROVE r.doc \in res.omitted
  <2>1. ~ InRange(r, cfg) /\ r.scope = cfg.scope
    BY <1>13, ConfigFacts DEF InRange
  <2>2. OmissionsIn(g, r, cfg) # {} /\ r \in Range(recs)
    BY <1>3, <1>13, <2>1, OmissionsElsewhere
  <2> QED BY <1>1, <1>4, <2>2
<1> HIDE DEF due, reached, docs
<1>14. ~ cfg.source => {r.doc : r \in {x \in Range(s) : x.scope = "s1" /\ x.day = Undated}} \subseteq res.omitted
  BY <1>13
<1> QED BY <1>6, <1>9, <1>10, <1>11, <1>12, <1>14 DEF Accounted, due, reached, docs

\* EveryRecordAccounted for every ledger, period and limit, in every group
\* but that of sales kept in SQLite, whose source compares instants as text
\* (Map<group>LedgerToExport and the sources).
THEOREM RecordsAccounted ==
  SaftSpec => [](SaftDialect = "postgres" \/ saftGroup # "SalesInvoices" => EveryRecordAccounted)
<1>1. ASSUME SaftInv, SaftDialect = "postgres" \/ saftGroup # "SalesInvoices", Exported
      PROVE  EveryRecordAccounted
  <2>1. Accounted(saftGroup, saftLedger, saftCfg, saftResult)
    BY <1>1, ExportAccounts DEF SaftInv, Exported
  <2> QED BY <2>1 DEF Accounted, EveryRecordAccounted, Due, Reached, AtNextMidnight, NextMidnight, Given
<1>2. SaftInv => (SaftDialect = "postgres" \/ saftGroup # "SalesInvoices" => EveryRecordAccounted)
  BY <1>1 DEF EveryRecordAccounted
<1> QED BY <1>2, SaftInvHolds, PTL

------------------------------------------------------------------------------
(* The totals of the file.                                                 *)

\* The amounts of a record's lines.
LEMMA LineFacts ==
  ASSUME NEW g, NEW r \in Record(g)
  PROVE  /\ LineTotals(r) \in Seq(Nat) /\ Debits(r) \in Seq(Nat) /\ Credits(r) \in Seq(Nat)
         /\ Quantities(r) \in Seq(Nat) /\ [j \in DOMAIN r.lines |-> r.lines[j].qty] \in Seq(Nat)
<1> DEFINE n == Len(r.lines)
<1>1. r.lines \in Seq(Line)
  BY DEF Record
<1>2. n \in Nat /\ DOMAIN r.lines = 1..n /\ \A j \in 1..n : r.lines[j] \in Line
  BY <1>1, ListIsFun
<1>3. \A j \in 1..n : /\ r.lines[j].qty \in Nat /\ r.lines[j].price \in Nat
                      /\ r.lines[j].debit \in Nat /\ r.lines[j].credit \in Nat
  BY <1>2 DEF Line
<1> HIDE DEF n
<1>4. \A j \in 1..n : lineTotal(r.lines[j]) \in Nat
  <2>1. \A a, b \in Nat : (a * b) \div 10000 \in Nat
    <3>1. \A a, b \in Nat : a * b \in Nat
      OBVIOUS
    <3>2. \A c \in Nat : c \div 10000 \in Nat
      OBVIOUS
    <3> QED BY <3>1, <3>2
  <2> QED BY <1>3, <2>1 DEF lineTotal
<1>5. \A j \in 1..n : parseDecimalMilli(formatQuantity(r.lines[j].qty)) \in Nat
  <2>1. \A q \in Nat : parseDecimalMilli(formatQuantity(q)) \in Nat
    <3> TAKE q \in Nat
    <3>1. formatQuantity(q).whole = q \div 10000 /\ formatQuantity(q).frac = q % 10000
      BY DEF formatQuantity
    <3>2. q \div 10000 \in Nat /\ (q % 10000) \div 10 \in Nat
      OBVIOUS
    <3>3. (q \div 10000) * 1000 + ((q % 10000) \div 10) \in Nat
      BY <3>2
    <3> QED BY <3>1, <3>3 DEF parseDecimalMilli
  <2> QED BY <1>3, <2>1
<1>6. \A a \in [1..n -> Nat] : a \in Seq(Nat)
  BY <1>2, FunIsList
<1>7. LineTotals(r) \in [1..n -> Nat]
  BY <1>2, <1>4 DEF LineTotals
<1>8. Debits(r) \in [1..n -> Nat]
  BY <1>2, <1>3 DEF Debits
<1>9. Credits(r) \in [1..n -> Nat]
  BY <1>2, <1>3 DEF Credits
<1>10. Quantities(r) \in [1..n -> Nat]
  BY <1>2, <1>5 DEF Quantities
<1>11. [j \in DOMAIN r.lines |-> r.lines[j].qty] \in [1..n -> Nat]
  BY <1>2, <1>3
<1> QED BY <1>6, <1>7, <1>8, <1>9, <1>10, <1>11

\* A total over the documents, for amounts A of each record.
LEMMA TotalWithin ==
  ASSUME NEW g, NEW s \in Ledger(g), NEW m \in Ledger(g), Range(m) \subseteq Range(s),
         NEW A \in [Record(g) -> Seq(Nat)]
  PROVE  /\ Along(A, m) \in Seq(Seq(Nat))
         /\ SumSeq(SumsOf(Along(A, m))) = SumWithin(s, DocsOf(m), Along(A, s))
<1>1. s \in Seq(Record(g)) /\ m \in Seq(Record(g)) /\ IsInjective(s) /\ IsInjective(m) /\ Identify(Range(s))
  BY RecordFacts
<1> QED BY <1>1, MappedTotal

\* The credit of sales.
LEMMA SalesTotal ==
  ASSUME NEW g, NEW s \in Ledger(g), NEW m \in Ledger(g), Range(m) \subseteq Range(s)
  PROVE  parseMoneyCents(TotalOf(AllLineTotals(m))) = SumWithin(s, DocsOf(m), AllLineTotals(s))
<1> DEFINE A == [r \in Record(g) |-> LineTotals(r)]
<1>1. A \in [Record(g) -> Seq(Nat)]
  BY LineFacts
<1>2. \A i \in DOMAIN s : s[i] \in Record(g)
  BY RecordFacts DEF Range
<1>3. \A i \in DOMAIN m : m[i] \in Record(g)
  BY RecordFacts DEF Range
<1>4. AllLineTotals(s) = Along(A, s) /\ AllLineTotals(m) = Along(A, m)
  BY <1>2, <1>3 DEF AllLineTotals, Along
<1> HIDE DEF A
<1>5. /\ AllLineTotals(m) \in Seq(Seq(Nat))
      /\ SumSeq(SumsOf(AllLineTotals(m))) = SumWithin(s, DocsOf(m), AllLineTotals(s))
  BY <1>1, <1>4, TotalWithin
<1> QED BY <1>5, TotalOfIs

\* The debit and the credit of the other groups.
LEMMA AmountTotals ==
  ASSUME NEW g, NEW s \in Ledger(g), NEW m \in Ledger(g), Range(m) \subseteq Range(s)
  PROVE  /\ parseMoneyCents(TotalOf(AllDebits(m))) = SumWithin(s, DocsOf(m), AllDebits(s))
         /\ parseMoneyCents(TotalOf(AllCredits(m))) = SumWithin(s, DocsOf(m), AllCredits(s))
<1> DEFINE A == [r \in Record(g) |-> Debits(r)]
           B == [r \in Record(g) |-> Credits(r)]
<1>1. A \in [Record(g) -> Seq(Nat)] /\ B \in [Record(g) -> Seq(Nat)]
  BY LineFacts
<1>2. \A i \in DOMAIN s : s[i] \in Record(g)
  BY RecordFacts DEF Range
<1>3. \A i \in DOMAIN m : m[i] \in Record(g)
  BY RecordFacts DEF Range
<1>4. AllDebits(s) = Along(A, s) /\ AllDebits(m) = Along(A, m)
  BY <1>2, <1>3 DEF AllDebits, Along
<1>5. AllCredits(s) = Along(B, s) /\ AllCredits(m) = Along(B, m)
  BY <1>2, <1>3 DEF AllCredits, Along
<1> HIDE DEF A, B
<1>6. AllDebits(m) \in Seq(Seq(Nat)) /\ SumSeq(SumsOf(AllDebits(m))) = SumWithin(s, DocsOf(m), AllDebits(s))
  BY <1>1, <1>4, TotalWithin
<1>7. AllCredits(m) \in Seq(Seq(Nat)) /\ SumSeq(SumsOf(AllCredits(m))) = SumWithin(s, DocsOf(m), AllCredits(s))
  BY <1>1, <1>5, TotalWithin
<1> QED BY <1>6, <1>7, TotalOfIs

\* The quantities of the lines, as the records have them.
QtysOf(r) == [j \in DOMAIN r.lines |-> r.lines[j].qty]

\* Quantities of three places, in thousandths, are read back exactly.
LEMMA TenfoldQuantities ==
  ASSUME NEW g, NEW r \in Record(g), ReadableQuantities(r)
  PROVE  SumSeq(QtysOf(r)) = SumSeq(Quantities(r)) * 10
<1> DEFINE n == Len(r.lines)
<1>1. r.lines \in Seq(Line)
  BY DEF Record
<1>2. n \in Nat /\ DOMAIN r.lines = 1..n /\ \A j \in 1..n : r.lines[j] \in Line
  BY <1>1, ListIsFun
<1>3. \A j \in 1..n : r.lines[j].qty \in Nat
  BY <1>2 DEF Line
<1>4. Quantities(r) \in Seq(Nat) /\ DOMAIN Quantities(r) = 1..n /\ QtysOf(r) \in Seq(Nat) /\ DOMAIN QtysOf(r) = 1..n
  BY <1>2, LineFacts DEF Quantities, QtysOf
<1> HIDE DEF n
<1>5. \A j \in 1..n : QtysOf(r)[j] = Quantities(r)[j] * 10
  <2> TAKE j \in 1..n
  <2>1. MilliReadable(formatQuantity(r.lines[j].qty))
    BY <1>2 DEF ReadableQuantities
  <2>2. QtysOf(r)[j] = r.lines[j].qty /\ Quantities(r)[j] = parseDecimalMilli(formatQuantity(r.lines[j].qty))
    BY <1>2 DEF QtysOf, Quantities
  <2> QED BY <1>3, <2>1, <2>2, AmountsAddExactly
<1>6. Quantities(r) \in [1..n -> Int] /\ QtysOf(r) \in [1..n -> Int]
  <2>1. Quantities(r) \in [1..n -> Nat] /\ QtysOf(r) \in [1..n -> Nat]
    BY <1>4, ListOn
  <2> QED BY <2>1
<1> QED BY <1>2, <1>5, <1>6, SumTenfold

\* The quantity of movements.
LEMMA QuantityTotal ==
  ASSUME NEW g, NEW s \in Ledger(g), NEW m \in Ledger(g), Range(m) \subseteq Range(s),
         \A i \in DOMAIN m : ReadableQuantities(m[i]),
         NEW amounts, amounts = [i \in DOMAIN s |-> QtysOf(s[i])]
  PROVE  addDecimalNonNeg(AllQuantities(m)) * 10 = SumWithin(s, DocsOf(m), amounts)
<1> DEFINE A == [r \in Record(g) |-> QtysOf(r)]
           rows == Along(A, m)
           B == [r \in Record(g) |-> Quantities(r)]
           milli == Along(B, m)
<1>1. A \in [Record(g) -> Seq(Nat)] /\ B \in [Record(g) -> Seq(Nat)]
  BY LineFacts DEF QtysOf
<1>2. \A i \in DOMAIN s : s[i] \in Record(g)
  BY RecordFacts DEF Range
<1>3. \A i \in DOMAIN m : m[i] \in Record(g)
  BY RecordFacts DEF Range
<1>4. amounts = Along(A, s)
  BY <1>2 DEF Along
<1>5. AllQuantities(m) = milli
  BY <1>3 DEF AllQuantities, Along
<1>6. \A i \in DOMAIN m : rows[i] = QtysOf(m[i]) /\ milli[i] = Quantities(m[i])
  BY <1>3 DEF Along
<1>7. \A i \in DOMAIN m : SumSeq(rows[i]) = SumSeq(milli[i]) * 10
  BY <1>3, <1>6, TenfoldQuantities
<1>8. DOMAIN rows = DOMAIN m /\ DOMAIN milli = DOMAIN m
  BY DEF Along
<1> HIDE DEF A, B
<1>9. rows \in Seq(Seq(Nat)) /\ SumSeq(SumsOf(rows)) = SumWithin(s, DocsOf(m), amounts)
  BY <1>1, <1>4, TotalWithin
<1>10. milli \in Seq(Seq(Nat))
  BY <1>1, TotalWithin
<1> HIDE DEF rows, milli
<1>11. Len(m) \in Nat /\ DOMAIN m = 1..Len(m)
  BY RecordFacts, ListIsFun
<1>12. SumsOf(rows) \in [1..Len(m) -> Int] /\ SumsOf(milli) \in [1..Len(m) -> Int]
  <2>1. SumsOf(rows) \in Seq(Nat) /\ SumsOf(milli) \in Seq(Nat)
    BY <1>9, <1>10, SumsOfType
  <2>2. DOMAIN SumsOf(rows) = 1..Len(m) /\ DOMAIN SumsOf(milli) = 1..Len(m)
    BY <1>8, <1>11 DEF SumsOf
  <2>3. SumsOf(rows) \in [1..Len(m) -> Nat] /\ SumsOf(milli) \in [1..Len(m) -> Nat]
    BY <2>1, <2>2, ListOn
  <2> QED BY <2>3
<1>13. \A i \in 1..Len(m) : SumsOf(rows)[i] = SumsOf(milli)[i] * 10
  BY <1>7, <1>8, <1>11 DEF SumsOf
<1>14. SumSeq(SumsOf(rows)) = SumSeq(SumsOf(milli)) * 10
  BY <1>11, <1>12, <1>13, SumTenfold
<1>15. addDecimalNonNeg(milli) = SumSeq(SumsOf(milli))
  BY DEF addDecimalNonNeg, SumsOf
<1> QED BY <1>5, <1>9, <1>14, <1>15

\* TotalsExact for lines of any number and amounts of any size, in every
\* group and with either store (addMoney2AsDecimal, addDecimalNonNeg,
\* formatQuantity).
THEOREM TotalsAreExact == SaftSpec => []TotalsExact
<1>1. ASSUME SaftInv, Exported PROVE TotalsExact
  <2> DEFINE s == saftLedger
             docs == saftResult.docs
             m == MappedOf(saftGroup, saftLedger, saftCfg)
  <2>1. saftGroup \in SaftGroups /\ s \in Ledger(saftGroup)
    BY <1>1 DEF SaftInv
  <2>2. /\ docs = DocsOf(m)
        /\ TotalsOf(saftGroup, m, saftResult.debit, saftResult.credit, saftResult.entries, saftResult.quantity)
    <3>1. saftResult = ExportOf(saftGroup, saftLedger, saftCfg) /\ saftResult.status # "failed"
      BY <1>1 DEF SaftInv, Exported
    <3> QED BY <2>1, <3>1, ExportOk DEF DocsOf
  <2>3. m \in Ledger(saftGroup) /\ Range(m) \subseteq Range(s)
    BY <2>1, MappedFacts, RecsFacts
  <2>4. \A amounts : SumOf(amounts) = SumWithin(s, docs, amounts)
    BY DEF SumOf, SumWithin
  <2> HIDE DEF m
  <2>5. CASE saftGroup = "SalesInvoices"
    <3>1. saftResult.credit = TotalOf(AllLineTotals(m))
      BY <2>2, <2>5 DEF TotalsOf
    <3>2. parseMoneyCents(saftResult.credit) = SumOf(AllLineTotals(saftLedger))
      BY <2>1, <2>2, <2>3, <2>4, <3>1, SalesTotal
    <3> QED BY <2>5, <3>2 DEF TotalsExact
  <2>6. CASE saftGroup = "MovementOfGoods"
    <3>1. saftResult.quantity = addDecimalNonNeg(AllQuantities(m)) /\ \A i \in DOMAIN m : ReadableQuantities(m[i])
      BY <2>2, <2>6 DEF TotalsOf
    <3> DEFINE amounts == [i \in DOMAIN saftLedger |->
                             [j \in DOMAIN saftLedger[i].lines |-> saftLedger[i].lines[j].qty]]
    <3>2. amounts = [i \in DOMAIN s |-> QtysOf(s[i])]
      BY DEF QtysOf
    <3> HIDE DEF amounts
    <3>3. saftResult.quantity * 10 = SumOf(amounts)
      BY <2>1, <2>2, <2>3, <2>4, <3>1, <3>2, QuantityTotal
    <3> QED BY <2>6, <3>3 DEF TotalsExact, amounts
  <2>7. CASE saftGroup = "PurchaseInvoices"
    <3>1. saftResult.entries = Len(m)
      BY <2>2, <2>7 DEF TotalsOf
    <3>2. Len(docs) = Len(m)
      BY <2>2, <2>3, DocsFacts DEF DocsOf
    <3> QED BY <2>7, <3>1, <3>2 DEF TotalsExact
  <2>8. CASE saftGroup \in {"Payments", "WorkingDocuments", "GeneralLedgerEntries"}
    <3>1. saftResult.debit = TotalOf(AllDebits(m)) /\ saftResult.credit = TotalOf(AllCredits(m))
      BY <2>2, <2>8 DEF TotalsOf
    <3>2. /\ parseMoneyCents(saftResult.debit) = SumOf(AllDebits(saftLedger))
          /\ parseMoneyCents(saftResult.credit) = SumOf(AllCredits(saftLedger))
      BY <2>1, <2>2, <2>3, <2>4, <3>1, AmountTotals
    <3> QED BY <2>8, <3>2 DEF TotalsExact
  <2> QED BY <2>1, <2>5, <2>6, <2>7, <2>8 DEF SaftGroups
<1>2. SaftInv => TotalsExact
  BY <1>1 DEF TotalsExact
<1> QED BY <1>2, SaftInvHolds, PTL

------------------------------------------------------------------------------
(* The order of the records, the periods, and why an export fails.         *)

\* An export depends on the records, not on their order.
LEMMA RearrangedExport ==
  ASSUME NEW g \in SaftGroups, NEW s \in Ledger(g), NEW t \in Rearranged(s), NEW cfg
  PROVE  ExportOf(g, t, cfg) = ExportOf(g, s, cfg)
<1>1. s \in Seq(Record(g)) /\ IsInjective(s) /\ Identify(Range(s)) /\ \A r \in Record(g) : r.doc \in Nat
  BY RecordFacts
<1>2. t \in Seq(Record(g)) /\ IsInjective(t) /\ Range(t) = Range(s)
  BY <1>1, RearrangedFacts
<1>3. t \in Ledger(g)
  BY <1>1, <1>2 DEF Ledger
<1> DEFINE u == RecsOf(g, s, cfg)
           v == RecsOf(g, t, cfg)
<1>4. u \in Ledger(g) /\ v \in Ledger(g) /\ Range(u) = Range(v)
  <2>1. u \in Ledger(g) /\ Range(u) = {r \in Range(s) : cfg.source => Listed(g, r, cfg)}
    BY RecsFacts
  <2>2. v \in Ledger(g) /\ Range(v) = {r \in Range(t) : cfg.source => Listed(g, r, cfg)}
    BY <1>3, RecsFacts
  <2> HIDE DEF u, v
  <2> QED BY <1>2, <2>1, <2>2
<1> HIDE DEF u, v
<1>5. /\ u \in Seq(Record(g)) /\ IsInjective(u) /\ Identify(Range(u))
      /\ v \in Seq(Record(g)) /\ IsInjective(v)
  BY <1>4, RecordFacts
<1>6. SortByDoc(u) = SortByDoc(v) /\ Len(u) = Len(v)
  BY <1>1, <1>4, <1>5, SortedAlike
<1>7. SortedOf(g, t, cfg) = SortedOf(g, s, cfg)
  BY <1>6 DEF SortedOf, u, v
<1>8. /\ MappedOf(g, t, cfg) = MappedOf(g, s, cfg) /\ OmittedOf(g, t, cfg) = OmittedOf(g, s, cfg)
      /\ BuiltOf(g, t, cfg) = BuiltOf(g, s, cfg)
  BY <1>7 DEF MappedOf, OmittedOf, BuiltOf
<1>9. SourceFails(g, u, cfg) <=> SourceFails(g, v, cfg)
  <2>1. \A x : (\E i \in DOMAIN x : "too_many_lines" \in x[i].faults)
                 <=> (\E r \in Range(x) : "too_many_lines" \in r.faults)
    BY DEF Range
  <2> QED BY <1>4, <1>6, <2>1 DEF SourceFails
<1>10. SourceFails(g, RecsOf(g, t, cfg), cfg) <=> SourceFails(g, RecsOf(g, s, cfg), cfg)
  BY <1>9 DEF u, v
<1>11. ExportOf(g, s, cfg) =
         IF \/ cfg.source /\ SourceFails(g, RecsOf(g, s, cfg), cfg)
            \/ Weighed(Weights(g, cfg), SortedOf(g, s, cfg)) > Cap(cfg.maxOmissions)
            \/ Len(MappedOf(g, s, cfg)) > MaxTableEntries
            \/ BuiltOf(g, s, cfg).status = "failed"
         THEN Failed
         ELSE [BuiltOf(g, s, cfg) EXCEPT !.omitted = OmittedOf(g, s, cfg)]
  BY ExportCases
<1>12. ExportOf(g, t, cfg) =
         IF \/ cfg.source /\ SourceFails(g, RecsOf(g, t, cfg), cfg)
            \/ Weighed(Weights(g, cfg), SortedOf(g, t, cfg)) > Cap(cfg.maxOmissions)
            \/ Len(MappedOf(g, t, cfg)) > MaxTableEntries
            \/ BuiltOf(g, t, cfg).status = "failed"
         THEN Failed
         ELSE [BuiltOf(g, t, cfg) EXCEPT !.omitted = OmittedOf(g, t, cfg)]
  BY <1>3, ExportCases
<1> QED BY <1>7, <1>8, <1>10, <1>11, <1>12

\* OrderIrrelevant for every ledger and each of its rearrangements, with
\* every configuration (the sort at the head of every mapping).
THEOREM OrderNeverMatters == SaftSpec => []OrderIrrelevant
<1>1. SaftInv => OrderIrrelevant
  BY RearrangedExport DEF SaftInv, OrderIrrelevant
<1> QED BY <1>1, SaftInvHolds, PTL

\* What an export fails for.
FaultsIn(g, r, cfg) ==
  IF cfg.source /\ ~ (InRange(r, cfg) \/ NextMidnight(g, r, cfg)) THEN 0
  ELSE Cardinality(r.faults) + Count(~ InRange(r, cfg))

FailsFor(g, s, cfg, due, reached) ==
  \/ Cardinality(due) > MaxTableEntries
  \/ cfg.source /\ Cardinality(reached) > Cap(cfg.maxDocuments)
  \/ SumSeq([i \in DOMAIN s |-> FaultsIn(g, s[i], cfg)]) > Cap(cfg.maxOmissions)
  \/ \E r \in due : \/ r.faults \cap Poison(g) # {}
                    \/ g = "MovementOfGoods" /\ \E j \in DOMAIN r.lines : r.lines[j].qty % 10 # 0
  \/ \E r \in reached \ due : cfg.source /\ "too_many_lines" \in r.faults

\* A list of some records of a ledger is no longer than these are many.
LEMMA ListedCount ==
  ASSUME NEW g, NEW s \in Ledger(g), NEW due, due \subseteq Range(s),
         NEW u \in Ledger(g), Range(u) \subseteq due
  PROVE  IsFiniteSet(due) /\ Len(u) <= Cardinality(due)
<1>1. IsFiniteSet(Range(s)) /\ Cardinality(Range(u)) = Len(u)
  BY RecordFacts, RangeCount
<1>2. IsFiniteSet(due)
  BY <1>1, FS_Subset
<1>3. Cardinality(Range(u)) <= Cardinality(due)
  BY <1>2, FS_Subset
<1> QED BY <1>1, <1>2, <1>3

\* What a source fails for.
LEMMA SourceFailsFor ==
  ASSUME NEW g \in SaftGroups, NEW s \in Ledger(g), NEW cfg \in ExportConfigs, NEW due, NEW reached,
         due = {r \in Range(s) : InRange(r, cfg)},
         reached = {r \in Range(s) : InRange(r, cfg) \/ NextMidnight(g, r, cfg)},
         cfg.source, SourceFails(g, RecsOf(g, s, cfg), cfg)
  PROVE  FailsFor(g, s, cfg, due, reached)
<1> DEFINE u == RecsOf(g, s, cfg)
<1>1. u \in Ledger(g) /\ Range(u) = {r \in Range(s) : Listed(g, r, cfg)}
  BY RecsFacts
<1>2. SourceFails(g, u, cfg)
  OBVIOUS
<1> HIDE DEF u
<1>3. Range(u) \subseteq reached
  BY <1>1, RecordFacts, ListedInRange
<1>4. CASE Len(u) > Cap(cfg.maxDocuments)
  <2>1. IsFiniteSet(reached) /\ Len(u) <= Cardinality(reached)
    BY <1>1, <1>3, ListedCount
  <2>2. Len(u) \in Nat /\ Cardinality(reached) \in Nat /\ Cap(cfg.maxDocuments) \in Nat
    BY <1>1, <2>1, RecordFacts, ListIsFun, FS_CardinalityType, ConfigFacts
  <2>3. Cardinality(reached) > Cap(cfg.maxDocuments)
    BY <1>4, <2>1, <2>2
  <2> QED BY <2>3 DEF FailsFor
<1>5. CASE g = "SalesInvoices" /\ \E i \in DOMAIN u : "too_many_lines" \in u[i].faults
  <2>1. PICK i \in DOMAIN u : "too_many_lines" \in u[i].faults
    BY <1>5
  <2>2. u[i] \in reached
    BY <1>3 DEF Range
  <2>3. "too_many_lines" \in Poison(g)
    BY <1>5 DEF Poison
  <2>4. \/ \E r \in due : r.faults \cap Poison(g) # {}
        \/ \E r \in reached \ due : cfg.source /\ "too_many_lines" \in r.faults
    BY <2>1, <2>2, <2>3
  <2> QED BY <2>4 DEF FailsFor
<1> QED BY <1>2, <1>4, <1>5 DEF SourceFails

\* More omissions than allowed are more defects than allowed.
LEMMA OmissionsFailFor ==
  ASSUME NEW g \in SaftGroups, NEW s \in Ledger(g), NEW cfg \in ExportConfigs,
         Weighed(Weights(g, cfg), SortedOf(g, s, cfg)) > Cap(cfg.maxOmissions)
  PROVE  SumSeq([i \in DOMAIN s |-> FaultsIn(g, s[i], cfg)]) > Cap(cfg.maxOmissions)
<1> DEFINE w == Weights(g, cfg)
           t == SortedOf(g, s, cfg)
           V == Record(g)
           n == Len(s)
           a == [i \in DOMAIN s |-> IF s[i] \in Range(t) THEN w[s[i]] ELSE 0]
           b == [i \in DOMAIN s |-> FaultsIn(g, s[i], cfg)]
<1>1. s \in Seq(V) /\ IsInjective(s) /\ t \in Seq(V) /\ IsInjective(t) /\ Range(t) \subseteq Range(s)
  <2>1. t \in Ledger(g) /\ Range(t) \subseteq Range(s)
    BY SortedFacts, RecsFacts
  <2> HIDE DEF t, V
  <2> QED BY <2>1, RecordFacts DEF V
<1>2. w \in [V -> Int] /\ \A r \in V : w[r] = Cardinality(OmissionsIn(g, r, cfg))
  BY OmissionsCount DEF Weights
<1>3. n \in Nat /\ DOMAIN s = 1..n /\ \A i \in 1..n : s[i] \in V
  <2> HIDE DEF V
  <2> QED BY <1>1, ListIsFun
<1>4. \A r \in V : /\ w[r] \in Nat /\ Cardinality(r.faults) \in Nat /\ Count(~ InRange(r, cfg)) \in Nat
                   /\ w[r] <= Cardinality(r.faults) + Count(~ InRange(r, cfg))
  BY <1>2, OmissionsCount DEF Count
<1>5. Weighed(w, t) = SumSeq(a)
  <2> HIDE DEF w, t, V
  <2>1. Weighed(w, t) = WeighedIn(w, s, Range(t))
    BY <1>1, <1>2, PartWeight
  <2> QED BY <2>1 DEF WeighedIn
<1>10. \A r \in Range(t) : cfg.source => Listed(g, r, cfg)
  BY SortedFacts, RecsFacts
<1> HIDE DEF w, t, V, n
<1>6. a \in [1..n -> Int] /\ b \in [1..n -> Int] /\ \A i \in 1..n : a[i] <= b[i]
  <2>1. \A i \in 1..n : FaultsIn(g, s[i], cfg) \in Nat
    BY <1>3, <1>4 DEF FaultsIn
  <2>2. ASSUME NEW i \in 1..n, s[i] \in Range(t) PROVE w[s[i]] <= FaultsIn(g, s[i], cfg)
    <3>1. cfg.source => InRange(s[i], cfg) \/ NextMidnight(g, s[i], cfg)
      BY <1>3, <1>10, <2>2, ListedInRange DEF V
    <3> QED BY <1>3, <1>4, <3>1 DEF FaultsIn
  <2>3. \A i \in 1..n : w[s[i]] \in Nat
    BY <1>3, <1>4
  <2> QED BY <1>3, <2>1, <2>2, <2>3
<1> HIDE DEF a, b
<1>7. SumSeq(a) <= SumSeq(b) /\ SumSeq(a) \in Int /\ SumSeq(b) \in Int
  BY <1>3, <1>6, SumLeq, SumType
<1>8. Cap(cfg.maxOmissions) \in Nat /\ SumSeq(a) > Cap(cfg.maxOmissions)
  BY <1>5, ConfigFacts DEF w, t
<1>9. SumSeq(b) > Cap(cfg.maxOmissions)
  BY <1>7, <1>8
<1> QED BY <1>9 DEF b

\* What the builder fails for.
LEMMA BuildFailsFor ==
  ASSUME NEW g \in SaftGroups, NEW s \in Ledger(g), NEW cfg, BuiltOf(g, s, cfg).status = "failed"
  PROVE  \E r \in {x \in Range(s) : InRange(x, cfg)} :
           \/ r.faults \cap Poison(g) # {}
           \/ g = "MovementOfGoods" /\ \E j \in DOMAIN r.lines : r.lines[j].qty % 10 # 0
<1> DEFINE m == MappedOf(g, s, cfg)
<1> SUFFICES ASSUME \A r \in Range(s) : InRange(r, cfg) =>
                      /\ r.faults \cap Poison(g) = {}
                      /\ g = "MovementOfGoods" => \A j \in DOMAIN r.lines : r.lines[j].qty % 10 = 0
             PROVE  FALSE
  OBVIOUS
<1>1. Range(m) = {r \in Range(RecsOf(g, s, cfg)) : Kept(g, r, cfg)} /\ Range(RecsOf(g, s, cfg)) \subseteq Range(s)
  BY MappedFacts, RecsFacts
<1>2. BuildIncrementalExport(g, m, cfg).status = "failed"
  BY DEF BuiltOf
<1> HIDE DEF m
<1>3. \A i \in DOMAIN m : m[i] \in Range(s) /\ m[i] \in Record(g) /\ Kept(g, m[i], cfg)
  BY <1>1, RecordFacts DEF Range
<1>4. \A i \in DOMAIN m : OmissionsOf(g, m[i].faults) = {} /\ m[i].faults \cap Poison(g) = {}
  BY <1>3, OmissionsInRange DEF Kept
<1>5. ASSUME g = "MovementOfGoods", NEW i \in DOMAIN m PROVE ReadableQuantities(m[i])
  <2> SUFFICES ASSUME NEW j \in DOMAIN m[i].lines PROVE MilliReadable(formatQuantity(m[i].lines[j].qty))
    BY DEF ReadableQuantities
  <2>1. m[i].lines[j].qty % 10 = 0
    BY <1>3, <1>5 DEF Kept
  <2>2. m[i].lines[j].qty \in Nat
    <3>1. m[i].lines \in Seq(Line)
      BY <1>3 DEF Record
    <3>2. m[i].lines[j] \in Line
      BY <3>1, ListIsFun
    <3> QED BY <3>2 DEF Line
  <2>3. \A q \in Nat : q % 10 = 0 => (q % 10000) % 10 = 0
    OBVIOUS
  <2> QED BY <2>1, <2>2, <2>3 DEF MilliReadable, formatQuantity
<1>6. BuildIncrementalExport(g, m, cfg).status = "ok"
  BY <1>4, <1>5, MappedIsBuilt
<1> QED BY <1>2, <1>6

\* Every failure of an export has one of the causes.
LEMMA ExportFailsFor ==
  ASSUME NEW g \in SaftGroups, NEW s \in Ledger(g), NEW cfg \in ExportConfigs, NEW due, NEW reached,
         due = {r \in Range(s) : InRange(r, cfg)},
         reached = {r \in Range(s) : InRange(r, cfg) \/ NextMidnight(g, r, cfg)},
         ExportOf(g, s, cfg).status = "failed"
  PROVE  FailsFor(g, s, cfg, due, reached)
<1>1. CASE cfg.source /\ SourceFails(g, RecsOf(g, s, cfg), cfg)
  BY <1>1, SourceFailsFor
<1>2. CASE Weighed(Weights(g, cfg), SortedOf(g, s, cfg)) > Cap(cfg.maxOmissions)
  BY <1>2, OmissionsFailFor DEF FailsFor
<1>3. CASE Len(MappedOf(g, s, cfg)) > MaxTableEntries
  <2> DEFINE m == MappedOf(g, s, cfg)
  <2>1. m \in Ledger(g) /\ Range(m) \subseteq due
    BY MappedFacts, RecsFacts DEF Kept
  <2>2. Len(m) > MaxTableEntries
    BY <1>3
  <2> HIDE DEF m
  <2>3. IsFiniteSet(due) /\ Len(m) <= Cardinality(due)
    BY <2>1, ListedCount
  <2>4. Len(m) \in Nat /\ Cardinality(due) \in Nat /\ MaxTableEntries \in Nat
    BY <2>1, <2>3, RecordFacts, ListIsFun, FS_CardinalityType, SaftAssumption
  <2>5. Cardinality(due) > MaxTableEntries
    BY <2>2, <2>3, <2>4
  <2> QED BY <2>5 DEF FailsFor
<1>4. CASE BuiltOf(g, s, cfg).status = "failed"
  BY <1>4, BuildFailsFor DEF FailsFor
<1>5. CASE ~ (\/ cfg.source /\ SourceFails(g, RecsOf(g, s, cfg), cfg)
              \/ Weighed(Weights(g, cfg), SortedOf(g, s, cfg)) > Cap(cfg.maxOmissions)
              \/ Len(MappedOf(g, s, cfg)) > MaxTableEntries
              \/ BuiltOf(g, s, cfg).status = "failed")
  <2>1. ExportOf(g, s, cfg) = [BuiltOf(g, s, cfg) EXCEPT !.omitted = OmittedOf(g, s, cfg)]
    BY <1>5, ExportCases, Zenon
  <2> DEFINE m == MappedOf(g, s, cfg)
  <2>2. BuiltOf(g, s, cfg) = BuildIncrementalExport(g, m, cfg)
    BY DEF BuiltOf
  <2> HIDE DEF m
  <2>3. PICK a, b, n, q : BuiltOf(g, s, cfg) = Built(m, a, b, n, q)
    BY <1>5, <2>2, BuildResult DEF Failed
  <2>4. ExportOf(g, s, cfg).status = "ok"
    BY <2>1, <2>3 DEF Built
  <2> QED BY <2>4
<1> QED BY <1>1, <1>2, <1>3, <1>4, <1>5

\* FailsOnlyForPoison for every ledger, period and limit, in every group and
\* with either store (Map<group>LedgerToExport, BuildIncrementalExport).
THEOREM OnlyPoisonFails == SaftSpec => []FailsOnlyForPoison
<1>1. ASSUME SaftInv, saftResult.status = "failed" PROVE FailsOnlyForPoison
  <2>1. FailsFor(saftGroup, saftLedger, saftCfg, Due, Reached)
    BY <1>1, ExportFailsFor DEF SaftInv, Due, Reached, AtNextMidnight, NextMidnight, Given
  <2>2. ASSUME NEW i \in DOMAIN saftLedger
        PROVE  FaultsIn(saftGroup, saftLedger[i], saftCfg) = Defects(saftLedger[i])
    BY DEF FaultsIn, Defects, Reached, AtNextMidnight, NextMidnight, Given, Range
  <2>3. [i \in DOMAIN saftLedger |-> FaultsIn(saftGroup, saftLedger[i], saftCfg)]
          = [i \in DOMAIN saftLedger |-> Defects(saftLedger[i])]
    BY <2>2
  <2> QED BY <1>1, <2>1, <2>3 DEF FailsFor, FailsOnlyForPoison
<1>2. SaftInv => FailsOnlyForPoison
  BY <1>1 DEF FailsOnlyForPoison
<1> QED BY <1>2, SaftInvHolds, PTL
==============================================================================
