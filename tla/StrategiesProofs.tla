-------------------------- MODULE StrategiesProofs --------------------------
(***************************************************************************)
(* Proofs about the strategies, for any window length and any prices, NaN  *)
(* and the infinities among them: the rolling sums are those of the last N *)
(* prices, Aberration opens and closes exactly where the standard          *)
(* deviation and the mean of these say so, DualThrust holds a position     *)
(* where it opened it while the price has not crossed that, and both       *)
(* implement the abstract Trader.                                          *)
(*                                                                         *)
(* The sums are recursive functions.  What they compute is proved with     *)
(* Induction, the least element of a set of naturals: the induction        *)
(* theorems of the library quantify over predicates.                       *)
(***************************************************************************)
EXTENDS Strategies, WellFoundedInduction, TLAPS

-----------------------------------------------------------------------------
(* Induction.  The theorems of the library that take a predicate cannot be *)
(* used here; this one is about a set.                                     *)
LEMMA Smallest ==
  ASSUME NEW S \in SUBSET Nat, S # {}
  PROVE  \E m \in S : \A n \in S : m <= n
<1>1. OpToRel(<, Nat) = {ss \in Nat \X Nat : ss[1] < ss[2]}
  BY Zenon DEF OpToRel
<1>2. PICK m \in S : \A n \in S : ~(<<n, m>> \in OpToRel(<, Nat))
  BY NatLessThanWellFounded, WFMin
<1>3. ASSUME NEW n \in S PROVE m <= n
  <2>1. <<n, m>> \in Nat \X Nat /\ <<n, m>>[1] = n /\ <<n, m>>[2] = m
    OBVIOUS
  <2>2. ~(n < m)
    BY <1>1, <1>2, <2>1
  <2> QED
    BY <2>2
<1> QED
  BY <1>3

LEMMA Induction ==
  ASSUME NEW S \in SUBSET Nat, 0 \in S, \A n \in S : n + 1 \in S
  PROVE  S = Nat
<1> SUFFICES ASSUME Nat \ S # {} PROVE FALSE
  OBVIOUS
<1>1. PICK m \in Nat \ S : \A n \in Nat \ S : m <= n
  BY Smallest
<1>2. m # 0 /\ m - 1 \in Nat /\ m - 1 < m /\ (m - 1) + 1 = m
  BY <1>1
<1>3. m - 1 \in S
  BY <1>1, <1>2
<1> QED
  BY <1>1, <1>2, <1>3

-----------------------------------------------------------------------------
(* Sums over the window.                                                   *)
LEMMA UptoExists ==
  ASSUME NEW f \in [1 .. N -> Int]
  PROVE  \E g \in [0 .. N -> Int] :
           g = [i \in 0 .. N |-> IF i = 0 THEN 0 ELSE g[i - 1] + f[i]]
<1> DEFINE Adds(g, n) == /\ g \in [0 .. n -> Int]
                         /\ g[0] = 0
                         /\ \A i \in 1 .. n : g[i] = g[i - 1] + f[i]
           S == {n \in Nat : n <= N => \E g : Adds(g, n)}
<1>1. 0 \in S
  <2>1. Adds([i \in 0 .. 0 |-> 0], 0)
    OBVIOUS
  <2> QED
    BY <2>1
<1>2. ASSUME NEW n \in S PROVE n + 1 \in S
  <2> SUFFICES ASSUME n + 1 <= N PROVE \E g : Adds(g, n + 1)
    OBVIOUS
  <2>1. n \in Nat /\ n <= N /\ n + 1 \in 1 .. N /\ f[n + 1] \in Int
    BY RollingAssumption
  <2>2. PICK g : Adds(g, n)
    BY <2>1
  <2> DEFINE h == [i \in 0 .. n + 1 |-> IF i = n + 1 THEN g[n] + f[n + 1] ELSE g[i]]
  <2>3. h \in [0 .. n + 1 -> Int] /\ h[0] = 0
    BY <2>1, <2>2
  <2>4. ASSUME NEW i \in 1 .. n + 1 PROVE h[i] = h[i - 1] + f[i]
    <3>1. /\ \A j \in 0 .. n : h[j] = g[j]
          /\ h[n + 1] = g[n] + f[n + 1]
          /\ \A j \in 1 .. n : g[j] = g[j - 1] + f[j]
      BY <2>1, <2>2
    <3> HIDE DEF h, S, Adds
    <3>2. CASE i = n + 1
      <4>1. i - 1 = n /\ n \in 0 .. n
        BY <2>1, <3>2
      <4> QED
        BY <3>1, <3>2, <4>1
    <3>3. CASE i # n + 1
      <4>1. i \in 1 .. n /\ i \in 0 .. n /\ i - 1 \in 0 .. n
        BY <2>1, <3>3
      <4> QED
        BY <3>1, <4>1
    <3> QED
      BY <3>2, <3>3
  <2> QED
    BY <2>3, <2>4
<1>3. N \in S
  <2> HIDE DEF S
  <2>1. S \in SUBSET Nat
    BY DEF S
  <2> QED
    BY <1>1, <1>2, <2>1, Induction, RollingAssumption
<1>4. PICK g : Adds(g, N)
  <2> HIDE DEF Adds
  <2> QED
    BY <1>3, RollingAssumption
<1>5. g = [i \in 0 .. N |-> IF i = 0 THEN 0 ELSE g[i - 1] + f[i]]
  BY <1>4, RollingAssumption
<1> QED
  BY <1>4, <1>5

LEMMA UptoIs ==
  ASSUME NEW f \in [1 .. N -> Int]
  PROVE  /\ Upto(f) \in [0 .. N -> Int]
         /\ Upto(f)[0] = 0
         /\ \A i \in 1 .. N : Upto(f)[i] = Upto(f)[i - 1] + f[i]
<1> DEFINE P(g) == g = [i \in 0 .. N |-> IF i = 0 THEN 0 ELSE g[i - 1] + f[i]]
<1>1. Upto(f) = CHOOSE g : P(g)
  BY Zenon DEF Upto
<1>2. PICK h \in [0 .. N -> Int] : P(h)
  BY UptoExists
<1>3. P(CHOOSE g : P(g))
  <2> HIDE DEF P
  <2> QED
    BY <1>2
<1>4. Upto(f) = [i \in 0 .. N |-> IF i = 0 THEN 0 ELSE Upto(f)[i - 1] + f[i]]
  BY <1>1, <1>3
<1> DEFINE u == Upto(f)
<1>5. /\ u = [i \in 0 .. N |-> IF i = 0 THEN 0 ELSE u[i - 1] + f[i]]
      /\ h = [i \in 0 .. N |-> IF i = 0 THEN 0 ELSE h[i - 1] + f[i]]
  BY <1>2, <1>4
<1> HIDE DEF u
<1> DEFINE S == {n \in Nat : n <= N => u[n] = h[n]}
<1>6. 0 \in S
  BY <1>5, RollingAssumption
<1>7. ASSUME NEW n \in S PROVE n + 1 \in S
  <2> SUFFICES ASSUME n + 1 <= N PROVE u[n + 1] = h[n + 1]
    OBVIOUS
  <2>1. n + 1 \in 0 .. N /\ n + 1 # 0 /\ (n + 1) - 1 = n /\ u[n] = h[n]
    BY RollingAssumption
  <2>2. u[n + 1] = u[n] + f[n + 1] /\ h[n + 1] = h[n] + f[n + 1]
    BY <1>5, <2>1
  <2> QED
    BY <2>1, <2>2
<1>8. \A n \in 0 .. N : n \in S
  <2> HIDE DEF S
  <2>1. S \in SUBSET Nat
    BY DEF S
  <2> QED
    BY <1>6, <1>7, <2>1, Induction
<1>9. \A n \in 0 .. N : u[n] \in Int
  BY <1>8, RollingAssumption
<1>10. u \in [0 .. N -> Int]
  BY <1>5, <1>9
<1>11. u[0] = 0 /\ \A i \in 1 .. N : u[i] = u[i - 1] + f[i]
  BY <1>5, RollingAssumption
<1> QED
  BY <1>10, <1>11 DEF u

(* When the window moves on by one, the sum loses the first value and      *)
(* gains the new one.                                                      *)
LEMMA SumMoves ==
  ASSUME NEW f \in [1 .. N -> Int], NEW g \in [1 .. N -> Int],
         \A i \in 1 .. N - 1 : g[i] = f[i + 1]
  PROVE  SumOf(g) = SumOf(f) - f[1] + g[N]
<1> DEFINE u == Upto(f)
           v == Upto(g)
           S == {n \in Nat : n + 1 <= N => v[n] = u[n + 1] - f[1]}
<1>1. /\ u \in [0 .. N -> Int] /\ u[0] = 0 /\ \A i \in 1 .. N : u[i] = u[i - 1] + f[i]
      /\ v \in [0 .. N -> Int] /\ v[0] = 0 /\ \A i \in 1 .. N : v[i] = v[i - 1] + g[i]
  BY UptoIs
<1> HIDE DEF u, v
<1>2. 1 \in 1 .. N /\ N \in 1 .. N /\ f[1] \in Int
  BY RollingAssumption
<1>3. 0 \in S
  BY <1>1, <1>2
<1>4. ASSUME NEW n \in S PROVE n + 1 \in S
  <2> SUFFICES ASSUME (n + 1) + 1 <= N PROVE v[n + 1] = u[(n + 1) + 1] - f[1]
    OBVIOUS
  <2>1. /\ n \in Nat /\ n + 1 \in 1 .. N - 1 /\ n + 1 \in 1 .. N /\ (n + 1) + 1 \in 1 .. N
        /\ (n + 1) - 1 = n /\ ((n + 1) + 1) - 1 = n + 1
    BY RollingAssumption
  <2>2. v[n] = u[n + 1] - f[1]
    BY <2>1, RollingAssumption
  <2>3. v[n + 1] = v[n] + g[n + 1] /\ u[(n + 1) + 1] = u[n + 1] + f[(n + 1) + 1]
    BY <1>1, <2>1
  <2> HIDE DEF S
  <2>4. g[n + 1] = f[(n + 1) + 1] /\ f[(n + 1) + 1] \in Int
    BY <2>1
  <2>5. u[n + 1] \in Int
    BY <1>1, <2>1
  <2> QED
    BY <1>2, <2>2, <2>3, <2>4, <2>5
<1>5. N - 1 \in S
  <2> HIDE DEF S
  <2>1. S \in SUBSET Nat /\ N - 1 \in Nat
    BY RollingAssumption DEF S
  <2> QED
    BY <1>3, <1>4, <2>1, Induction
<1>6. v[N - 1] = u[N] - f[1]
  BY <1>5, RollingAssumption
<1>7. v[N] = v[N - 1] + g[N] /\ u[N] \in Int /\ g[N] \in Int
  BY <1>1, <1>2, RollingAssumption
<1> QED
  BY <1>2, <1>6, <1>7 DEF SumOf, u, v

(* Sums are linear.                                                        *)
Combine(c, d, e, x, y, k) == c * x + d * y + e * k

LEMMA CombineType ==
  ASSUME NEW c \in Int, NEW d \in Int, NEW e \in Int,
         NEW x \in Int, NEW y \in Int, NEW k \in Int
  PROVE  Combine(c, d, e, x, y, k) \in Int
BY DEF Combine

Adding(x, a, z) == z = x + a

LEMMA CombineSum ==
  ASSUME NEW c \in Int, NEW d \in Int, NEW e \in Int,
         NEW x \in Int, NEW y \in Int, NEW k \in Int, NEW a \in Int, NEW b \in Int,
         NEW z \in Int, NEW w \in Int, NEW m \in Int,
         Adding(x, a, z), Adding(y, b, w), Adding(k, 1, m)
  PROVE  Combine(c, d, e, z, w, m) = Combine(c, d, e, x, y, k) + Combine(c, d, e, a, b, 1)
<1>1. c * (x + a) = c * x + c * a /\ c * x \in Int /\ c * a \in Int
  OBVIOUS
<1>2. d * (y + b) = d * y + d * b /\ d * y \in Int /\ d * b \in Int
  OBVIOUS
<1>3. e * (k + 1) = e * k + e /\ e * k \in Int
  OBVIOUS
<1> QED
  BY <1>1, <1>2, <1>3 DEF Combine, Adding

Combines(h, f, g, c, d, e) ==
  \A i \in 1 .. N : h[i] = Combine(c, d, e, f[i], g[i], 1)

LEMMA SumCombines ==
  ASSUME NEW f \in [1 .. N -> Int], NEW g \in [1 .. N -> Int], NEW h \in [1 .. N -> Int],
         NEW c \in Int, NEW d \in Int, NEW e \in Int, Combines(h, f, g, c, d, e)
  PROVE  SumOf(h) = Combine(c, d, e, SumOf(f), SumOf(g), N)
<1> DEFINE u == Upto(f)
           v == Upto(g)
           w == Upto(h)
           S == {n \in Nat : n <= N => w[n] = Combine(c, d, e, u[n], v[n], n)}
<1>1. /\ u \in [0 .. N -> Int] /\ u[0] = 0 /\ \A i \in 1 .. N : u[i] = u[i - 1] + f[i]
      /\ v \in [0 .. N -> Int] /\ v[0] = 0 /\ \A i \in 1 .. N : v[i] = v[i - 1] + g[i]
      /\ w \in [0 .. N -> Int] /\ w[0] = 0 /\ \A i \in 1 .. N : w[i] = w[i - 1] + h[i]
  BY UptoIs
<1> HIDE DEF u, v, w
<1>2. 0 \in S
  <2>1. Combine(c, d, e, 0, 0, 0) = 0
    BY DEF Combine
  <2> QED
    BY <1>1, <2>1
<1>3. ASSUME NEW n \in S PROVE n + 1 \in S
  <2> SUFFICES ASSUME n + 1 <= N
               PROVE  w[n + 1] = Combine(c, d, e, u[n + 1], v[n + 1], n + 1)
    OBVIOUS
  <2>1. n \in Nat /\ n + 1 \in 1 .. N /\ n \in 0 .. N /\ (n + 1) - 1 = n
    BY RollingAssumption
  <2>2. w[n] = Combine(c, d, e, u[n], v[n], n)
    BY <2>1, RollingAssumption
  <2>3. /\ w[n + 1] = w[n] + h[n + 1]
        /\ u[n + 1] = u[n] + f[n + 1]
        /\ v[n + 1] = v[n] + g[n + 1]
    BY <1>1, <2>1
  <2>4. h[n + 1] = Combine(c, d, e, f[n + 1], g[n + 1], 1)
    BY <2>1 DEF Combines
  <2>5. u[n] \in Int /\ v[n] \in Int /\ f[n + 1] \in Int /\ g[n + 1] \in Int /\ n \in Int
    BY <1>1, <2>1
  <2>6. u[n + 1] \in Int /\ v[n + 1] \in Int /\ n + 1 \in Int
    BY <1>1, <2>1
  <2>7. Combine(c, d, e, u[n + 1], v[n + 1], n + 1)
          = Combine(c, d, e, u[n], v[n], n) + Combine(c, d, e, f[n + 1], g[n + 1], 1)
    <3>1. Adding(u[n], f[n + 1], u[n + 1]) /\ Adding(v[n], g[n + 1], v[n + 1]) /\ Adding(n, 1, n + 1)
      BY <2>3 DEF Adding
    <3> HIDE DEF S
    <3> QED
      BY <2>5, <2>6, <3>1, CombineSum
  <2> QED
    BY <2>2, <2>3, <2>4, <2>7
<1>4. N \in S
  <2> HIDE DEF S
  <2>1. S \in SUBSET Nat /\ N \in Nat
    BY RollingAssumption DEF S
  <2> QED
    BY <1>2, <1>3, <2>1, Induction
<1>5. w[N] = Combine(c, d, e, u[N], v[N], N)
  BY <1>4, RollingAssumption
<1> QED
  BY <1>5 DEF SumOf, u, v, w

LEMMA SumType ==
  ASSUME NEW f \in [1 .. N -> Int]
  PROVE  SumOf(f) \in Int
BY UptoIs, RollingAssumption DEF SumOf

LEMMA SumConstant ==
  ASSUME NEW e \in Int
  PROVE  SumOf([i \in 1 .. N |-> e]) = e * N
<1> DEFINE f == [i \in 1 .. N |-> e]
<1>1. /\ f \in [1 .. N -> Int] /\ 0 \in Int
      /\ Combines(f, f, f, 0, 0, e)
  BY DEF Combine, Combines
<1> HIDE DEF f
<1>2. SumOf(f) \in Int /\ SumOf(f) = Combine(0, 0, e, SumOf(f), SumOf(f), N)
  BY <1>1, SumCombines, SumType
<1>3. SumOf(f) = e * N
  BY <1>2, RollingAssumption DEF Combine
<1> QED
  BY <1>3 DEF f

(* Counting: a sum of ones and zeros is 0 only if all are.                 *)
LEMMA SumCounts ==
  ASSUME NEW f \in [1 .. N -> {0, 1}]
  PROVE  /\ SumOf(f) \in 0 .. N
         /\ SumOf(f) = 0 => \A i \in 1 .. N : f[i] = 0
<1> DEFINE u == Upto(f)
           S == {n \in Nat : n <= N => /\ u[n] \in 0 .. n
                                       /\ u[n] = 0 => \A i \in 1 .. n : f[i] = 0}
<1>1. u \in [0 .. N -> Int] /\ u[0] = 0 /\ \A i \in 1 .. N : u[i] = u[i - 1] + f[i]
  <2>1. f \in [1 .. N -> Int]
    OBVIOUS
  <2> QED
    BY <2>1, UptoIs
<1> HIDE DEF u
<1>2. 0 \in S
  BY <1>1
<1>3. ASSUME NEW n \in S PROVE n + 1 \in S
  <2> SUFFICES ASSUME n + 1 <= N
               PROVE  /\ u[n + 1] \in 0 .. n + 1
                      /\ u[n + 1] = 0 => \A i \in 1 .. n + 1 : f[i] = 0
    OBVIOUS
  <2>1. n \in Nat /\ n + 1 \in 1 .. N /\ (n + 1) - 1 = n
    BY RollingAssumption
  <2>2. /\ u[n] \in 0 .. n /\ (u[n] = 0 => \A i \in 1 .. n : f[i] = 0)
        /\ u[n + 1] = u[n] + f[n + 1]
        /\ f[n + 1] \in {0, 1}
    BY <1>1, <2>1, RollingAssumption
  <2>3. u[n + 1] \in 0 .. n + 1
    BY <2>1, <2>2
  <2>4. ASSUME u[n + 1] = 0, NEW i \in 1 .. n + 1 PROVE f[i] = 0
    <3>1. u[n] = 0 /\ f[n + 1] = 0
      BY <2>1, <2>2, <2>4
    <3> QED
      BY <2>1, <2>2, <3>1
  <2> QED
    BY <2>3, <2>4
<1>4. N \in S
  <2> HIDE DEF S
  <2>1. S \in SUBSET Nat /\ N \in Nat
    BY RollingAssumption DEF S
  <2> QED
    BY <1>2, <1>3, <2>1, Induction
<1>5. u[N] \in 0 .. N /\ (u[N] = 0 => \A i \in 1 .. N : f[i] = 0)
  BY <1>4, RollingAssumption
<1> QED
  BY <1>5 DEF SumOf, u

(* The squared distances of all pairs from the sum and the sum of squares, *)
(* which is how Stder gets the variance.                                   *)
LEMMA PairsIdentity ==
  ASSUME NEW f \in [1 .. N -> Int]
  PROVE  SumOf([i \in 1 .. N |-> SumOf([j \in 1 .. N |-> (f[i] - f[j]) * (f[i] - f[j])])])
           = 2 * (N * SumOf([i \in 1 .. N |-> f[i] * f[i]]) - SumOf(f) * SumOf(f))
<1> DEFINE g == [i \in 1 .. N |-> f[i] * f[i]]
           s == SumOf(f)
           q == SumOf(g)
           inner(i) == [j \in 1 .. N |-> (f[i] - f[j]) * (f[i] - f[j])]
           outer == [i \in 1 .. N |-> SumOf(inner(i))]
<1>1. g \in [1 .. N -> Int] /\ \A i \in 1 .. N : g[i] = f[i] * f[i]
  OBVIOUS
<1>2. s \in Int /\ q \in Int /\ -2 * s \in Int /\ N \in Int
  <2>1. s \in Int /\ q \in Int
    BY <1>1, SumType
  <2> HIDE DEF s
  <2> QED
    BY <2>1, RollingAssumption
<1>3. ASSUME NEW i \in 1 .. N
      PROVE  SumOf(inner(i)) = Combine(N, -2 * s, q, g[i], f[i], 1)
  <2> DEFINE a == f[i]
             h == inner(i)
  <2>1. 1 \in Int /\ a \in Int /\ a * a \in Int /\ -2 * a \in Int /\ g[i] = a * a
    OBVIOUS
  <2>2. h \in [1 .. N -> Int]
    OBVIOUS
  <2>3. ASSUME NEW j \in 1 .. N
        PROVE  h[j] = Combine(1, -2 * a, a * a, g[j], f[j], 1)
    <3>1. h[j] = (a - f[j]) * (a - f[j]) /\ g[j] = f[j] * f[j] /\ f[j] \in Int
      OBVIOUS
    <3> HIDE DEF a, h, g
    <3> QED
      BY <2>1, <3>1 DEF Combine
  <2> HIDE DEF a, h, g
  <2>4. Combines(h, g, f, 1, -2 * a, a * a)
    BY <2>3 DEF Combines
  <2>5. SumOf(h) = Combine(1, -2 * a, a * a, SumOf(g), SumOf(f), N)
    BY <1>1, <2>1, <2>2, <2>4, SumCombines
  <2>6. SumOf(h) = Combine(1, -2 * a, a * a, q, s, N)
    BY <2>5
  <2> HIDE DEF s, q
  <2>7. Combine(1, -2 * a, a * a, q, s, N) = Combine(N, -2 * s, q, a * a, a, 1)
    BY <1>2, <2>1 DEF Combine
  <2>8. g[i] = a * a /\ f[i] = a
    BY <2>1 DEF a
  <2> QED
    BY <2>6, <2>7, <2>8 DEF h
<1>4. /\ outer \in [1 .. N -> Int]
      /\ Combines(outer, g, f, N, -2 * s, q)
  <2> HIDE DEF inner, g, s, q
  <2>1. ASSUME NEW i \in 1 .. N PROVE Combine(N, -2 * s, q, g[i], f[i], 1) \in Int
    <3>1. g[i] \in Int /\ f[i] \in Int /\ 1 \in Int
      BY <1>1
    <3> QED
      BY <1>2, <3>1, CombineType
  <2> QED
    BY <1>3, <2>1 DEF Combines
<1> HIDE DEF outer, g, inner
<1>5. SumOf(outer) = Combine(N, -2 * s, q, SumOf(g), SumOf(f), N)
  <2> HIDE DEF s, q
  <2>1. ASSUME NEW c \in Int, NEW d \in Int, NEW e \in Int, Combines(outer, g, f, c, d, e)
        PROVE  SumOf(outer) = Combine(c, d, e, SumOf(g), SumOf(f), N)
    BY <1>1, <1>4, <2>1, SumCombines
  <2> QED
    BY <1>2, <1>4, <2>1
<1>6. SumOf(outer) = 2 * (N * q - s * s)
  <2>1. SumOf(outer) = Combine(N, -2 * s, q, q, s, N)
    BY <1>5
  <2> HIDE DEF s, q
  <2> QED
    BY <1>2, <2>1 DEF Combine
<1> QED
  BY <1>6 DEF outer, g, inner

-----------------------------------------------------------------------------
(* Sumer.  Where the i-th oldest value of the window is in the buffer.     *)
Place(h, i) == IF h + i - 1 < N THEN h + i - 1 ELSE h + i - 1 - N

NansOf(q) == [i \in 1 .. N |-> Nans(q[i])]
AmountsOf(q) == [i \in 1 .. N |-> Amount(q[i])]

(* The Sumer s is what the values q, oldest first, make of it.             *)
Tracks(s, q) == /\ s \in Sumers
                /\ \A i \in 1 .. N : s.buf[Place(s.head_idx, i)] = q[i]
                /\ s.nan_count = SumOf(NansOf(q))
                /\ s.sum = SumOf(AmountsOf(q))

(* r is the window q after the value x.                                    *)
Shifts(q, r, x) == /\ \A i \in 1 .. N - 1 : r[i] = q[i + 1]
                   /\ r[N] = x

LEMMA ValueType ==
  ASSUME NEW x \in Double
  PROVE  /\ Nans(x) \in {0, 1} /\ Nans(x) \in Int /\ Amount(x) \in Int
         /\ Square(x) \in Double /\ Nans(Square(x)) = Nans(x)
BY DoublesAssumption DEF Nans, Amount, NanOrInf, Double, Square

LEMMA WindowType ==
  ASSUME NEW q \in [1 .. N -> Double]
  PROVE  /\ NansOf(q) \in [1 .. N -> {0, 1}] /\ NansOf(q) \in [1 .. N -> Int]
         /\ AmountsOf(q) \in [1 .. N -> Int]
<1>1. ASSUME NEW i \in 1 .. N
      PROVE  Nans(q[i]) \in {0, 1} /\ Nans(q[i]) \in Int /\ Amount(q[i]) \in Int
  BY ValueType
<1> QED
  BY <1>1 DEF NansOf, AmountsOf

LEMMA NewTracks ==
  ASSUME NEW q \in [1 .. N -> Double], \A i \in 1 .. N : q[i] = NaN
  PROVE  Tracks(NewSumer, q)
<1>1. N \in Nat /\ N > 0
  BY RollingAssumption
<1>2. NewSumer \in Sumers
  BY <1>1 DEF NewSumer, Sumers, Indices, Double
<1>3. \A i \in 1 .. N : NewSumer.buf[Place(NewSumer.head_idx, i)] = q[i]
  BY <1>1 DEF NewSumer, Indices, Place
<1>4. NansOf(q) = [i \in 1 .. N |-> 1] /\ AmountsOf(q) = [i \in 1 .. N |-> 0]
  BY DEF NansOf, AmountsOf, Nans, Amount, NanOrInf
<1>5. /\ SumOf([i \in 1 .. N |-> 1]) = 1 * N
      /\ SumOf([i \in 1 .. N |-> 0]) = 0 * N
  <2>1. 1 \in Int /\ 0 \in Int
    OBVIOUS
  <2> QED
    BY Zenon, <2>1, SumConstant
<1>6. NewSumer.nan_count = N /\ NewSumer.sum = 0
  BY DEF NewSumer
<1>7. SumOf(NansOf(q)) = N /\ SumOf(AmountsOf(q)) = 0
  BY <1>1, <1>4, <1>5
<1> QED
  BY <1>2, <1>3, <1>6, <1>7 DEF Tracks

(* One update() keeps the counts exact: what goes is what was counted when *)
(* it came.                                                                *)
LEMMA UpdateTracks ==
  ASSUME NEW s, NEW x \in Double,
         NEW q \in [1 .. N -> Double], NEW r \in [1 .. N -> Double],
         Tracks(s, q), Shifts(q, r, x)
  PROVE  Tracks(Update(s, x), r)
<1> DEFINE h == s.head_idx
           k == (h + 1) % N
           t == Update(s, x)
<1>1. N \in Nat /\ N > 0 /\ 1 \in 1 .. N /\ N \in 1 .. N
  BY RollingAssumption
<1>2. s \in Sumers /\ h \in Indices /\ s.buf \in [Indices -> Double]
  BY DEF Tracks, Sumers
<1>3. k \in Indices /\ k = IF h + 1 = N THEN 0 ELSE h + 1
  <2> HIDE DEF h
  <2>1. h \in Int /\ 0 <= h /\ h < N
    BY <1>1, <1>2 DEF Indices
  <2>2. CASE h + 1 = N
    <3>1. N % N = 0
      BY <1>1
    <3> QED
      BY <1>1, <2>2, <3>1 DEF Indices
  <2>3. CASE h + 1 < N
    <3>1. (h + 1) % N = h + 1
      BY <1>1, <2>1, <2>3
    <3> QED
      BY <1>1, <2>1, <2>3, <3>1 DEF Indices
  <2> QED
    BY <1>1, <2>1, <2>2, <2>3
<1>4. s.buf[h] = q[1] /\ q[1] \in Double
  <2>1. Place(h, 1) = h
    BY <1>1, <1>2 DEF Place, Indices
  <2> QED
    BY <1>1, <2>1 DEF Tracks
<1>5. /\ t.buf = [s.buf EXCEPT ![h] = x] /\ t.head_idx = k
      /\ t.nan_count = s.nan_count - Nans(q[1]) + Nans(x)
      /\ t.sum = s.sum - Amount(q[1]) + Amount(x)
  BY <1>4 DEF Update
<1> HIDE DEF k
<1>6. ASSUME NEW i \in 1 .. N PROVE t.buf[Place(k, i)] = r[i]
  <2>1. CASE i = N
    <3>1. Place(k, N) = h
      BY <1>1, <1>2, <1>3 DEF Place, Indices
    <3> QED
      BY <1>2, <1>5, <2>1, <3>1 DEF Shifts
  <2>2. CASE i # N
    <3>1. i \in 1 .. N - 1 /\ i + 1 \in 1 .. N
      BY <1>1, <2>2
    <3>2. Place(k, i) = Place(h, i + 1) /\ Place(k, i) # h /\ Place(k, i) \in Indices
      <4> HIDE DEF h, t
      <4>1. h \in Int /\ 0 <= h /\ h < N /\ i \in Int /\ 1 <= i /\ i < N
        BY <1>1, <1>2, <3>1 DEF Indices
      <4>2. CASE h + 1 = N
        BY <1>1, <1>3, <4>1, <4>2 DEF Place, Indices
      <4>3. CASE h + 1 # N
        <5>1. k = h + 1
          BY <1>3, <4>3
        <5> QED
          BY <1>1, <4>1, <4>3, <5>1 DEF Place, Indices
      <4> QED
        BY <4>2, <4>3
    <3>3. r[i] = q[i + 1] /\ s.buf[Place(h, i + 1)] = q[i + 1]
      BY <3>1 DEF Shifts, Tracks
    <3> QED
      BY <1>2, <1>5, <3>2, <3>3
  <2> QED
    BY <2>1, <2>2
<1>7. /\ SumOf(NansOf(r)) = SumOf(NansOf(q)) - Nans(q[1]) + Nans(x)
      /\ SumOf(AmountsOf(r)) = SumOf(AmountsOf(q)) - Amount(q[1]) + Amount(x)
  <2>1. /\ NansOf(q) \in [1 .. N -> Int] /\ NansOf(r) \in [1 .. N -> Int]
        /\ AmountsOf(q) \in [1 .. N -> Int] /\ AmountsOf(r) \in [1 .. N -> Int]
    BY WindowType
  <2>2. \A i \in 1 .. N - 1 : /\ NansOf(r)[i] = NansOf(q)[i + 1]
                              /\ AmountsOf(r)[i] = AmountsOf(q)[i + 1]
    BY <1>1 DEF NansOf, AmountsOf, Shifts
  <2>3. /\ NansOf(q)[1] = Nans(q[1]) /\ NansOf(r)[N] = Nans(x)
        /\ AmountsOf(q)[1] = Amount(q[1]) /\ AmountsOf(r)[N] = Amount(x)
    BY <1>1 DEF NansOf, AmountsOf, Shifts
  <2>4. SumOf(NansOf(r)) = SumOf(NansOf(q)) - NansOf(q)[1] + NansOf(r)[N]
    BY <2>1, <2>2, SumMoves
  <2>5. SumOf(AmountsOf(r)) = SumOf(AmountsOf(q)) - AmountsOf(q)[1] + AmountsOf(r)[N]
    BY <2>1, <2>2, SumMoves
  <2> QED
    BY <2>3, <2>4, <2>5
<1>8. t.nan_count = SumOf(NansOf(r)) /\ t.sum = SumOf(AmountsOf(r))
  BY <1>5, <1>7 DEF Tracks
<1>9. t \in Sumers
  <2>1. [s.buf EXCEPT ![h] = x] \in [Indices -> Double]
    BY <1>2
  <2>2. t.nan_count \in Nat
    <3>1. NansOf(r) \in [1 .. N -> {0, 1}]
      BY WindowType
    <3>2. SumOf(NansOf(r)) \in 0 .. N
      BY <3>1, SumCounts
    <3> QED
      BY <1>1, <1>8, <3>2
  <2>3. t.sum \in Int
    BY <1>8, WindowType, SumType
  <2>4. t = [buf |-> [s.buf EXCEPT ![h] = x], head_idx |-> k,
             nan_count |-> t.nan_count, sum |-> t.sum]
    BY DEF Update, k
  <2> HIDE DEF t
  <2> QED
    BY <1>3, <2>1, <2>2, <2>3, <2>4 DEF Sumers
<1> HIDE DEF t, h
<1> QED
  BY <1>5, <1>6, <1>8, <1>9 DEF Tracks, t

-----------------------------------------------------------------------------
(* The inductive invariant.                                                *)
(* The last N prices.                                                      *)
SeenType == seen \in Seq(Double) /\ Len(seen) = N

(* Aberration has its Sumers over the last N prices and their squares.     *)
SquaresOf(q) == [i \in 1 .. N |-> Square(q[i])]

AbbState == /\ Tracks(meaner, seen)
            /\ Tracks(sumer, seen)
            /\ Tracks(sq_sumer, SquaresOf(seen))
            /\ a_position \in {-1, 0, 1}

(* Between its ticks DualThrust holds a long position opened at _open, or  *)
(* begins anew, or has begun with NaN and is stuck.  The rest is what      *)
(* infinities do: begun with one it waits until it comes again.            *)
DualState == /\ initialized \in BOOLEAN
             /\ open \in Double /\ max \in Double /\ min \in Double
             /\ d_position \in {-1, 0, 1}
             /\ ~initialized => d_position = 0
             /\ initialized =>
                  /\ open \in Int => d_position = 1
                  /\ open = NaN => max = NaN /\ min = NaN /\ d_position = 0
                  /\ open = PosInf => max = PosInf /\ min # NaN /\ d_position # -1
                  /\ open = NegInf => min = NegInf /\ max # NaN /\ d_position # 1
             /\ HeldFromEntry

IndInv == SeenType /\ AbbState /\ DualState

-----------------------------------------------------------------------------
(* What a tick appends is the last price.                                  *)
LEMMA SeenStep ==
  ASSUME SeenType, NEW last \in Double, seen' = Append(Tail(seen), last)
  PROVE  SeenType' /\ price' = last
<1>1. /\ seen \in Seq(Double) /\ Len(seen) = N /\ N \in Nat /\ N > 0 /\ seen # <<>>
  BY RollingAssumption DEF SeenType
<1>2. Tail(seen) \in Seq(Double) /\ Len(Tail(seen)) = N - 1
  BY <1>1
<1>3. seen' \in Seq(Double) /\ Len(seen') = N /\ seen'[N] = last
  BY <1>1, <1>2
<1> QED
  BY <1>3 DEF SeenType, price

-----------------------------------------------------------------------------
(* Aberration's three Sumers.                                              *)
LEMMA SeenFunction ==
  ASSUME SeenType
  PROVE  /\ seen \in [1 .. N -> Double]
         /\ SquaresOf(seen) \in [1 .. N -> Double]
<1>1. seen \in [1 .. N -> Double]
  BY DEF SeenType
<1>2. \A i \in 1 .. N : Square(seen[i]) \in Double
  BY <1>1, ValueType
<1> QED
  BY <1>1, <1>2 DEF SquaresOf

(* A tick moves the window, and the window of the squares.                 *)
LEMMA SeenShifts ==
  ASSUME SeenType, NEW last \in Double, seen' = Append(Tail(seen), last)
  PROVE  /\ Shifts(seen, seen', last)
         /\ Shifts(SquaresOf(seen), SquaresOf(seen'), Square(last))
<1>1. /\ seen \in Seq(Double) /\ Len(seen) = N /\ N \in Nat /\ N > 0 /\ seen # <<>>
  BY RollingAssumption DEF SeenType
<1>2. /\ Tail(seen) \in Seq(Double) /\ Len(Tail(seen)) = N - 1
      /\ \A i \in 1 .. N - 1 : Tail(seen)[i] = seen[i + 1]
  BY <1>1
<1>3. ASSUME NEW i \in 1 .. N - 1
      PROVE  /\ seen'[i] = seen[i + 1] /\ i \in 1 .. N /\ i + 1 \in 1 .. N
             /\ SquaresOf(seen')[i] = SquaresOf(seen)[i + 1]
  <2>1. seen'[i] = seen[i + 1]
    BY <1>1, <1>2
  <2>2. i \in 1 .. N /\ i + 1 \in 1 .. N
    BY <1>1
  <2> QED
    BY <2>1, <2>2 DEF SquaresOf
<1>4. seen'[N] = last /\ N \in 1 .. N
  BY <1>1, <1>2
<1>5. SquaresOf(seen')[N] = Square(last)
  BY <1>4 DEF SquaresOf
<1> QED
  BY <1>3, <1>4, <1>5 DEF Shifts

LEMMA AbbNames ==
  /\ A!NewSumer = NewSumer
  /\ \A s, x : A!Update(s, x) = Update(s, x)
  /\ \A x : A!Square(x) = Square(x)
  /\ \A s : A!Returned(s) = Returned(s)
<1>1. A!NewSumer = NewSumer
  BY DEF A!NewSumer, NewSumer, A!Indices, Indices
<1>2. ASSUME NEW s, NEW x PROVE A!Update(s, x) = Update(s, x)
  BY DEF A!Update, Update, A!Nans, Nans, A!Amount, Amount, A!NanOrInf, NanOrInf
<1>3. ASSUME NEW x PROVE A!Square(x) = Square(x)
  BY DEF A!Square, Square, A!NanOrInf, NanOrInf
<1>4. ASSUME NEW s PROVE A!Returned(s) = Returned(s)
  BY DEF A!Returned, Returned
<1> QED
  BY <1>1, <1>2, <1>3, <1>4

LEMMA AbbInit == Init => AbbState
<1> SUFFICES ASSUME Init PROVE AbbState
  OBVIOUS
<1>1. /\ \A i \in 1 .. N : seen[i] = NaN
      /\ \A i \in 1 .. N : SquaresOf(seen)[i] = NaN
  BY DEF Init, SquaresOf, Square, NanOrInf
<1>2. /\ seen \in [1 .. N -> Double] /\ SquaresOf(seen) \in [1 .. N -> Double]
  BY DEF Init, SquaresOf, Square, NanOrInf, Double
<1>3. Tracks(NewSumer, seen) /\ Tracks(NewSumer, SquaresOf(seen))
  BY <1>1, <1>2, NewTracks
<1>4. meaner = NewSumer /\ sumer = NewSumer /\ sq_sumer = NewSumer /\ a_position = 0
  BY AbbNames DEF Init, A!Init
<1> QED
  BY <1>3, <1>4 DEF AbbState

LEMMA AbbKeeps ==
  ASSUME SeenType, AbbState, NEW last \in Double, OnTick(last)
  PROVE  AbbState'
<1>1. A!OnTick(last) /\ seen' = Append(Tail(seen), last)
  BY DEF OnTick
<1>2. /\ meaner' = Update(meaner, last)
      /\ sumer' = Update(sumer, last)
      /\ sq_sumer' = Update(sq_sumer, Square(last))
  BY <1>1, AbbNames DEF A!OnTick
<1>3. SeenType' /\ Square(last) \in Double
  BY <1>1, SeenStep, ValueType
<1>4. /\ seen \in [1 .. N -> Double] /\ SquaresOf(seen) \in [1 .. N -> Double]
      /\ seen' \in [1 .. N -> Double] /\ SquaresOf(seen') \in [1 .. N -> Double]
  <2>1. SeenType => seen \in [1 .. N -> Double] /\ SquaresOf(seen) \in [1 .. N -> Double]
    BY SeenFunction
  <2>2. seen' \in [1 .. N -> Double]
    BY <1>3 DEF SeenType
  <2>3. \A i \in 1 .. N : Square(seen'[i]) \in Double
    BY <2>2, ValueType
  <2> QED
    BY <2>1, <2>2, <2>3 DEF SquaresOf
<1>5. /\ Shifts(seen, seen', last)
      /\ Shifts(SquaresOf(seen), SquaresOf(seen'), Square(last))
  BY <1>1, SeenShifts
<1>6. Tracks(meaner', seen') /\ Tracks(sumer', seen')
  BY <1>2, <1>4, <1>5, UpdateTracks DEF AbbState
<1>7. Tracks(sq_sumer', SquaresOf(seen'))
  BY <1>2, <1>3, <1>4, <1>5, UpdateTracks DEF AbbState
<1>8. a_position' \in {-1, 0, 1}
  <2>1. ASSUME NEW side \in {1, -1}, NEW dist, A!Open(side, dist) PROVE a_position' \in {-1, 0, 1}
    BY <2>1 DEF A!Open
  <2>2. ASSUME NEW dist, A!Close(dist) PROVE a_position' \in {-1, 0, 1}
    BY <2>2 DEF A!Close
  <2>3. ASSUME NEW dist, A!Nothing(dist) PROVE a_position' \in {-1, 0, 1}
    BY <2>3 DEF A!Nothing, AbbState
  <2> QED
    BY <1>1, <2>1, <2>2, <2>3 DEF A!OnTick
<1> QED
  BY <1>6, <1>7, <1>8 DEF AbbState, SquaresOf

-----------------------------------------------------------------------------
(* Which position DualThrust opens, by what _open is.                      *)
LEMMA DualNames ==
  ASSUME NEW x, NEW y
  PROVE  /\ D!Less(x, y) = Less(x, y) /\ D!AtLeast(x, y) = AtLeast(x, y)
         /\ D!StdMax(x, y) = StdMax(x, y) /\ D!StdMin(x, y) = StdMin(x, y)
         /\ D!Plus(x, y) = Plus(x, y) /\ D!Minus(x, y) = Minus(x, y)
<1>1. \A z, u : D!Less(z, u) = Less(z, u)
  BY DEF D!Less, Less, D!NanOrInf, NanOrInf
<1>2. D!AtLeast(x, y) = AtLeast(x, y)
  BY <1>1 DEF D!AtLeast, AtLeast
<1>3. D!StdMax(x, y) = StdMax(x, y) /\ D!StdMin(x, y) = StdMin(x, y)
  BY <1>1 DEF D!StdMax, StdMax, D!StdMin, StdMin
<1>4. \A z, u : D!Plus(z, u) = Plus(z, u)
  BY Zenon DEF D!Plus, Plus, D!NanOrInf, NanOrInf
<1>5. \A u : D!Negative(u) = Negative(u)
  BY DEF D!Negative, Negative
<1>6. D!Minus(x, y) = Minus(x, y)
  BY <1>4, <1>5 DEF D!Minus, Minus
<1> QED
  BY <1>1, <1>2, <1>3, <1>4, <1>6

(* The two thresholds, as functions of what they are computed from.        *)
Above(x, o, hi, lo) == AtLeast(Plus(x, x), Plus(Plus(o, o), Minus(hi, lo)))
Below(x, o, hi, lo) == AtLeast(Minus(Plus(o, o), Minus(hi, lo)), Plus(x, x))

LEMMA SideIs ==
  ASSUME NEW last
  PROVE  D!Side(last) = IF Above(last, open', max', min') THEN 1
                        ELSE IF Below(last, open', max', min') THEN -1 ELSE 0
<1>1. D!Twice(last) = Plus(last, last) /\ D!Twice(open') = Plus(open', open')
  BY DualNames DEF D!Twice
<1>2. D!Range = Minus(max', min')
  BY DualNames DEF D!Range
<1>3. D!Buys(last) <=> Above(last, open', max', min')
  BY <1>1, <1>2, DualNames DEF D!Buys, Above
<1>4. D!Sells(last) <=> Below(last, open', max', min')
  BY <1>1, <1>2, DualNames DEF D!Sells, Below
<1> QED
  BY <1>3, <1>4 DEF D!Side

(* The first tick opens at a finite price, on a range of 0.                *)
LEMMA FirstFinite ==
  ASSUME NEW x \in Int
  PROVE  Above(x, x, x, x)
<1>1. ~NanOrInf(x) /\ ~NanOrInf(-x) /\ ~NanOrInf(x + x) /\ Negative(x) = -x
  BY DoublesAssumption DEF NanOrInf, Negative
<1>2. ~NanOrInf(0) /\ x + (-x) = 0 /\ (x + x) + 0 = x + x
  BY DoublesAssumption DEF NanOrInf
<1>3. Minus(x, x) = 0 /\ Plus(x, x) = x + x /\ Plus(x + x, 0) = x + x
  BY <1>1, <1>2 DEF Minus, Plus
<1>4. x + x # NaN
  BY <1>1 DEF NanOrInf
<1> QED
  BY <1>3, <1>4 DEF Above, AtLeast

LEMMA PlusInfinite ==
  /\ Plus(PosInf, PosInf) = PosInf /\ Plus(NegInf, NegInf) = NegInf
  /\ Plus(PosInf, NegInf) = NaN /\ Plus(NegInf, PosInf) = NaN
  /\ Negative(PosInf) = NegInf /\ Negative(NegInf) = PosInf /\ Negative(NaN) = NaN
  /\ \A x : Plus(NaN, x) = NaN /\ Plus(x, NaN) = NaN
  /\ \A x \in Int : /\ Plus(PosInf, x) = PosInf /\ Plus(x, PosInf) = PosInf
                    /\ Negative(x) \in Int
BY DoublesAssumption DEF Plus, Negative, NanOrInf

(* Every comparison with NaN fails.                                        *)
LEMMA AtLeastNaN ==
  ASSUME NEW x
  PROVE  ~AtLeast(x, NaN) /\ ~AtLeast(NaN, x)
BY DoublesAssumption DEF AtLeast, Less, NanOrInf

(* Only plus infinity is at or above it, only minus infinity at or below.  *)
LEMMA AtLeastInfinite ==
  ASSUME NEW x \in Double
  PROVE  /\ AtLeast(Plus(x, x), PosInf) => x = PosInf
         /\ AtLeast(NegInf, Plus(x, x)) => x = NegInf
<1>1. CASE x \in Int
  <2>1. Plus(x, x) \in Int
    BY <1>1, DoublesAssumption DEF Plus, NanOrInf
  <2> QED
    BY <2>1, DoublesAssumption DEF AtLeast, Less, NanOrInf
<1>2. CASE x \in {NaN, PosInf, NegInf}
  BY <1>2, PlusInfinite, DoublesAssumption DEF AtLeast, Less, NanOrInf
<1> QED
  BY <1>1, <1>2 DEF Double

(* The range is nothing or plus infinity once one end of it is infinite.   *)
LEMMA RangeInfinite ==
  ASSUME NEW x \in Double \ {NaN}
  PROVE  /\ Minus(PosInf, x) \in {NaN, PosInf}
         /\ Minus(x, NegInf) \in {NaN, PosInf}
<1>1. CASE x \in Int
  BY <1>1, PlusInfinite DEF Minus
<1>2. CASE x \in {PosInf, NegInf}
  BY <1>2, PlusInfinite DEF Minus
<1> QED
  BY <1>1, <1>2 DEF Double

LEMMA SideInfinite ==
  ASSUME NEW x \in Double, NEW hi \in Double, NEW lo \in Double
  PROVE  /\ ~Above(x, NaN, hi, lo) /\ ~Below(x, NaN, hi, lo)
         /\ lo # NaN => /\ ~Below(x, PosInf, PosInf, lo)
                        /\ Above(x, PosInf, PosInf, lo) => x = PosInf
         /\ hi # NaN => /\ ~Above(x, NegInf, hi, NegInf)
                        /\ Below(x, NegInf, hi, NegInf) => x = NegInf
<1>1. ~Above(x, NaN, hi, lo) /\ ~Below(x, NaN, hi, lo)
  BY PlusInfinite, AtLeastNaN DEF Above, Below, Minus
<1>2. ASSUME lo # NaN
      PROVE  /\ ~Below(x, PosInf, PosInf, lo)
             /\ Above(x, PosInf, PosInf, lo) => x = PosInf
  <2>1. Minus(PosInf, lo) \in {NaN, PosInf}
    BY <1>2, RangeInfinite
  <2>2. /\ Minus(PosInf, NaN) = NaN /\ Minus(PosInf, PosInf) = NaN
        /\ Plus(PosInf, NaN) = NaN /\ Plus(PosInf, PosInf) = PosInf
    BY PlusInfinite DEF Minus
  <2> QED
    BY <2>1, <2>2, AtLeastNaN, AtLeastInfinite DEF Above, Below
<1>3. ASSUME hi # NaN
      PROVE  /\ ~Above(x, NegInf, hi, NegInf)
             /\ Below(x, NegInf, hi, NegInf) => x = NegInf
  <2>1. Minus(hi, NegInf) \in {NaN, PosInf}
    BY <1>3, RangeInfinite
  <2>2. /\ Minus(NegInf, NaN) = NaN /\ Minus(NegInf, PosInf) = NegInf
        /\ Plus(NegInf, NaN) = NaN /\ Plus(NegInf, PosInf) = NaN
        /\ Plus(NegInf, NegInf) = NegInf
    BY PlusInfinite DEF Minus
  <2> QED
    BY <2>1, <2>2, AtLeastNaN, AtLeastInfinite DEF Above, Below
<1> QED
  BY <1>1, <1>2, <1>3

(* The first tick after a beginning.                                       *)
LEMMA DualBegins ==
  ASSUME DualState, NEW last \in Double, D!OnTick(last), ~initialized
  PROVE  /\ d_position = 0 /\ initialized'
         /\ open' = last /\ max' = last /\ min' = last
         /\ d_position' = IF last \in Int THEN 1 ELSE 0
<1>1. d_position = 0
  BY DEF DualState
<1>2. open' = last /\ max' = last /\ min' = last
  BY DEF D!OnTick, D!Observe
<1>3. D!Side(last) = IF last \in Int THEN 1 ELSE 0
  <2>1. CASE last \in Int
    BY <1>2, <2>1, SideIs, FirstFinite
  <2>2. CASE last \in {NaN, PosInf, NegInf}
    <3>1. Minus(last, last) = NaN
      BY <2>2, PlusInfinite DEF Minus
    <3>2. Minus(Plus(last, last), NaN) = NaN
      BY PlusInfinite DEF Minus
    <3>3. ~Above(last, last, last, last) /\ ~Below(last, last, last, last)
      BY <3>1, <3>2, PlusInfinite, AtLeastNaN DEF Above, Below
    <3> QED
      BY <1>2, <2>2, <3>3, SideIs, DoublesAssumption
  <2> QED
    BY <2>1, <2>2 DEF Double
<1> QED
  BY <1>1, <1>2, <1>3 DEF D!OnTick, D!Open, D!Close, D!Nothing

LEMMA DualStep ==
  ASSUME SeenType, DualState, NEW last \in Double, OnTick(last)
  PROVE  SeenType' /\ DualState'
<1>1. /\ D!OnTick(last)
      /\ seen' = Append(Tail(seen), last)
      /\ entry' = IF d_position = 0 /\ d_position' # 0 THEN last ELSE entry
  BY DEF OnTick
<1>2. SeenType' /\ price' = last
  BY <1>1, SeenStep
<1> DEFINE now == price'
<1>3. CASE ~initialized
  <2>1. /\ d_position = 0 /\ initialized' = TRUE
        /\ open' = last /\ max' = last /\ min' = last
        /\ d_position' = IF last \in Int THEN 1 ELSE 0
    BY <1>1, <1>3, DualBegins DEF D!OnTick, D!Open, D!Close, D!Nothing
  <2>2. d_position' = 1 => last \in Int /\ entry' = last /\ ~Less(last, last)
    BY <1>1, <2>1, DoublesAssumption DEF Less, NanOrInf
  <2>3. HeldFromEntry'
    BY <1>2, <2>1, <2>2, DoublesAssumption DEF HeldFromEntry, Less, NanOrInf
  <2> QED
    BY <1>2, <2>1, <2>3, DoublesAssumption DEF DualState
<1>4. CASE initialized
  <2>1. /\ open' = open /\ max' = StdMax(max, last) /\ min' = StdMin(min, last)
    BY <1>1, <1>4, DualNames DEF D!OnTick, D!Observe
  <2>2. open' \in Double /\ max' \in Double /\ min' \in Double
    BY <2>1 DEF DualState, StdMax, StdMin
  <2>3. /\ open = NaN => max' = NaN /\ min' = NaN
        /\ open = PosInf => max' = PosInf /\ min' # NaN
        /\ open = NegInf => min' = NegInf /\ max' # NaN
    BY <1>4, <2>1, DoublesAssumption DEF DualState, StdMax, StdMin, Less, NanOrInf
  <2>4. initialized' \in BOOLEAN /\ (~initialized' => d_position' = 0)
    BY <1>1 DEF D!OnTick, D!Open, D!Close, D!Nothing
  <2>5. open \in Int \cup {NaN, PosInf, NegInf}
    BY DEF DualState, Double
  <2>6. CASE d_position = 0
    <3>1. open \in {NaN, PosInf, NegInf}
      BY <1>4, <2>5, <2>6 DEF DualState
    <3>2. /\ open = NaN => D!Side(last) = 0
          /\ open = PosInf => D!Side(last) = 0 \/ (D!Side(last) = 1 /\ last = PosInf)
          /\ open = NegInf => D!Side(last) = 0 \/ (D!Side(last) = -1 /\ last = NegInf)
      BY <2>1, <2>2, <2>3, SideIs, SideInfinite
    <3>3. d_position' = D!Side(last) /\ initialized' = TRUE
      BY <1>1, <2>6 DEF D!OnTick, D!Open, D!Close, D!Nothing
    <3>4. D!Side(last) # 0 => entry' = last /\ open = last
      BY <1>1, <2>6, <3>1, <3>2, <3>3
    <3>5. HeldFromEntry'
      BY <1>2, <2>1, <3>1, <3>2, <3>3, <3>4, DoublesAssumption DEF HeldFromEntry, Less, NanOrInf
    <3> QED
      BY <2>1, <1>2, <2>2, <2>3, <3>1, <3>2, <3>3, <3>5, DoublesAssumption DEF DualState
  <2>7. CASE d_position # 0
    <3>1. entry' = entry /\ open = entry
      BY <1>1, <2>7 DEF DualState, HeldFromEntry
    <3>2. CASE D!Close(last)
      BY <1>2, <2>2, <3>2 DEF D!Close, DualState, HeldFromEntry
    <3>3. CASE D!Nothing(last)
      <4>1. d_position' = d_position /\ initialized' = TRUE /\ ~D!Crosses(last)
        BY <2>7, <3>3 DEF D!Nothing
      <4>2. /\ d_position > 0 => ~Less(last, open')
            /\ d_position < 0 => ~Less(open', last)
        BY <4>1, DualNames DEF D!Crosses, DualState
      <4>3. HeldFromEntry'
        BY <1>2, <2>1, <2>7, <3>1, <4>1, <4>2 DEF HeldFromEntry, DualState, Less, NanOrInf
      <4> QED
        BY <1>2, <1>4, <2>1, <2>2, <2>3, <4>1, <4>3 DEF DualState
    <3> QED
      BY <1>1, <2>7, <3>2, <3>3 DEF D!OnTick, D!Open
  <2> QED
    BY <2>6, <2>7
<1> QED
  BY <1>3, <1>4 DEF DualState

LEMMA InitInv == Init => IndInv
<1> SUFFICES ASSUME Init PROVE IndInv
  OBVIOUS
<1>1. SeenType
  BY RollingAssumption DEF Init, SeenType, Double
<1>2. DualState
  <2>1. initialized = FALSE /\ open = 0 /\ max = 0 /\ min = 0 /\ d_position = 0
    BY DEF Init, D!Init
  <2>2. initialized \in BOOLEAN /\ ~initialized
    BY <2>1
  <2>3. HeldFromEntry /\ 0 \in Double
    BY <2>1 DEF HeldFromEntry, Double
  <2> QED
    BY <2>1, <2>2, <2>3 DEF DualState
<1> QED
  BY <1>1, <1>2, AbbInit DEF IndInv

LEMMA PricesDouble == Prices \subseteq Double
BY StrategiesAssumption

(* What DualThrust can be between two ticks is an invariant.               *)
THEOREM Inductive == Spec => []IndInv
<1>1. IndInv /\ [Next]_vars => IndInv'
  <2> SUFFICES ASSUME IndInv, [Next]_vars PROVE IndInv'
    OBVIOUS
  <2>1. CASE Next
    BY <2>1, DualStep, AbbKeeps, PricesDouble DEF Next, IndInv
  <2>2. CASE UNCHANGED vars
    BY <2>2 DEF vars, dual, abb, IndInv, SeenType, AbbState, DualState, HeldFromEntry, price, Less, NanOrInf
  <2> QED
    BY <2>1, <2>2
<1> QED
  BY InitInv, <1>1, PTL DEF Spec

(* DualThrust holds a position only where it opened it, while the price    *)
(* has not crossed that, and short only from minus infinity.               *)
THEOREM HeldFromEntryAlways == Spec => []HeldFromEntry
<1>1. IndInv => HeldFromEntry
  BY DEF IndInv, DualState
<1> QED
  BY Inductive, <1>1, PTL

(* The tick after a closing, or the first of all, opens a long position if *)
(* its price is finite.                                                    *)
THEOREM ReopensAtOnceAlways == Spec => ReopensAtOnce
<1>1. IndInv /\ [Next]_vars
        => [(~initialized /\ ~NanOrInf(price')) => d_position' = 1]_vars
  <2> SUFFICES ASSUME IndInv, NEW last \in Double, OnTick(last),
                      ~initialized, ~NanOrInf(price')
               PROVE  d_position' = 1
    BY PricesDouble DEF Next
  <2>1. price' = last /\ D!OnTick(last)
    BY SeenStep DEF IndInv, OnTick
  <2>2. last \in Int
    BY <2>1 DEF NanOrInf, Double
  <2> QED
    BY <2>1, <2>2, DualBegins DEF IndInv
<1> QED
  BY Inductive, <1>1, PTL DEF Spec, ReopensAtOnce

(* A step of Aberration is a step of the abstract strategy.                *)
LEMMA AbbStep ==
  ASSUME NEW last, A!OnTick(last)
  PROVE  AbbTrader!Next
<1>1. ASSUME NEW side \in {1, -1}, NEW dist, A!Open(side, dist)
      PROVE  AbbTrader!Next
  BY <1>1 DEF A!Open, AbbTrader!Next, AbbTrader!Open, AbbTrader!Opening
<1>2. ASSUME NEW dist, A!Close(dist)
      PROVE  AbbTrader!Next
  BY <1>2 DEF A!Close, AbbTrader!Next, AbbTrader!Close, AbbTrader!Closing
<1>3. ASSUME NEW dist, A!Nothing(dist)
      PROVE  AbbTrader!Next
  BY <1>3 DEF A!Nothing, AbbTrader!Next, AbbTrader!Nothing
<1> QED
  BY <1>1, <1>2, <1>3 DEF A!OnTick

(* A step of DualThrust is a step of the abstract strategy.                *)
LEMMA DualTraderStep ==
  ASSUME NEW last, D!OnTick(last)
  PROVE  DualTrader!Next
<1>1. CASE D!Open(last)
  <2>1. D!Side(last) \in {1, -1}
    BY <1>1 DEF D!Open, D!Side
  <2> QED
    BY <1>1, <2>1 DEF D!Open, DualTrader!Next, DualTrader!Open, DualTrader!Opening
<1>2. CASE D!Close(last)
  BY <1>2 DEF D!Close, DualTrader!Next, DualTrader!Close, DualTrader!Closing
<1>3. CASE D!Nothing(last)
  BY <1>3 DEF D!Nothing, DualTrader!Next, DualTrader!Nothing
<1> QED
  BY <1>1, <1>2, <1>3 DEF D!OnTick

(* Both strategies open from no position, close what they opened and do    *)
(* nothing else, whatever the prices.                                      *)
THEOREM Refinement == Spec => ImplementTrader
<1>1. Init => AbbTrader!Init /\ DualTrader!Init
  BY DEF Init, A!Init, D!Init, AbbTrader!Init, DualTrader!Init
<1>2. [Next]_vars => /\ [AbbTrader!Next]_<<a_position, a_order>>
                     /\ [DualTrader!Next]_<<d_position, d_order>>
  BY AbbStep, DualTraderStep DEF Next, OnTick, vars, abb, dual
<1> QED
  BY <1>1, <1>2, PTL DEF Spec, ImplementTrader, AbbTrader!Spec, DualTrader!Spec

-----------------------------------------------------------------------------
(* What the window's sums say of its values.                               *)
LEMMA SumsSeen ==
  IndInv => /\ NansSeen = SumOf(NansOf(seen)) /\ NansSeen = SumOf(NansOf(SquaresOf(seen)))
            /\ SumSeen = SumOf(AmountsOf(seen))
            /\ SquaresSeen = SumOf(AmountsOf(SquaresOf(seen)))
            /\ NansSeen \in 0 .. N /\ SumSeen \in Int /\ SquaresSeen \in Int
<1> SUFFICES ASSUME IndInv
             PROVE  /\ NansSeen = SumOf(NansOf(seen))
                    /\ NansSeen = SumOf(NansOf(SquaresOf(seen)))
                    /\ SumSeen = SumOf(AmountsOf(seen))
                    /\ SquaresSeen = SumOf(AmountsOf(SquaresOf(seen)))
                    /\ NansSeen \in 0 .. N /\ SumSeen \in Int /\ SquaresSeen \in Int
  OBVIOUS
<1>1. seen \in [1 .. N -> Double] /\ SquaresOf(seen) \in [1 .. N -> Double]
  BY SeenFunction DEF IndInv
<1>2. NansOf(SquaresOf(seen)) = NansOf(seen)
  <2>1. \A i \in 1 .. N : /\ SquaresOf(seen)[i] = Square(seen[i])
                          /\ Nans(Square(seen[i])) = Nans(seen[i])
    BY <1>1, ValueType DEF SquaresOf
  <2> QED
    BY <2>1 DEF NansOf
<1>3. AmountsOf(SquaresOf(seen)) = [i \in 1 .. N |-> Amount(Square(seen[i]))]
  BY DEF AmountsOf, SquaresOf
<1>4. /\ NansSeen = SumOf(NansOf(seen))
      /\ SumSeen = SumOf(AmountsOf(seen))
      /\ SquaresSeen = SumOf(AmountsOf(SquaresOf(seen)))
  BY <1>3 DEF NansSeen, SumSeen, SquaresSeen, NansOf, AmountsOf
<1>5. /\ NansOf(seen) \in [1 .. N -> {0, 1}]
      /\ AmountsOf(seen) \in [1 .. N -> Int]
      /\ AmountsOf(SquaresOf(seen)) \in [1 .. N -> Int]
  BY <1>1, WindowType
<1>6. /\ SumOf(NansOf(seen)) \in 0 .. N
      /\ SumOf(AmountsOf(seen)) \in Int
      /\ SumOf(AmountsOf(SquaresOf(seen))) \in Int
  BY <1>5, SumCounts, SumType
<1> QED
  BY <1>2, <1>4, <1>6

(* Type correctness, the counts of NaNs among it, which never leave 0..N.  *)
THEOREM TypeCorrect == Spec => []TypeOK
<1>1. IndInv => TypeOK
  <2> SUFFICES ASSUME IndInv PROVE TypeOK
    OBVIOUS
  <2>1. /\ meaner \in Sumers /\ meaner.nan_count = NansSeen
        /\ sumer \in Sumers /\ sumer.nan_count = NansSeen
        /\ sq_sumer \in Sumers /\ sq_sumer.nan_count = NansSeen
    BY SumsSeen DEF IndInv, AbbState, Tracks
  <2>2. NansSeen <= N
    BY SumsSeen, RollingAssumption
  <2>3. \A s \in {meaner, sumer, sq_sumer} : s \in Sumers /\ s.nan_count <= N
    BY <2>1, <2>2
  <2>4. initialized \in BOOLEAN /\ {open, max, min} \subseteq Double /\ d_position \in {-1, 0, 1}
    BY DEF IndInv, DualState
  <2>5. a_position \in {-1, 0, 1}
    BY DEF IndInv, AbbState
  <2> QED
    BY <2>3, <2>4, <2>5 DEF TypeOK
<1> QED
  BY Inductive, <1>1, PTL

LEMMA Exact == IndInv => WindowExact
BY SumsSeen DEF IndInv, AbbState, Tracks, WindowExact

(* The rolling sums and the counts of NaNs are those of the last N prices, *)
(* for any N and however long the strategy runs.                           *)
THEOREM WindowExactAlways == Spec => []WindowExact
BY Inductive, Exact, PTL

(* Without a NaN in the window every price is finite.                      *)
LEMMA AllFinite ==
  ASSUME IndInv, NansSeen = 0
  PROVE  seen \in [1 .. N -> Int]
<1>1. seen \in [1 .. N -> Double]
  BY SeenFunction DEF IndInv
<1>2. NansOf(seen) \in [1 .. N -> {0, 1}] /\ SumOf(NansOf(seen)) = 0
  BY <1>1, SumsSeen, WindowType
<1>3. \A i \in 1 .. N : NansOf(seen)[i] = 0
  BY <1>2, SumCounts
<1>4. \A i \in 1 .. N : seen[i] \in Int
  BY <1>1, <1>3 DEF NansOf, Nans, NanOrInf, Double
<1> QED
  BY <1>1, <1>4

(* The distance from the mean Aberration decides on.                       *)
Distance == A!OffMean(price, A!Returned(meaner))

DistanceExact == /\ Distance = IF NansSeen = 0 THEN Off ELSE NaN
                 /\ NansSeen = 0 => Off \in Int

LEMMA DistanceIs == IndInv => DistanceExact
<1> SUFFICES ASSUME IndInv PROVE DistanceExact
  OBVIOUS
<1>1. meaner.nan_count = NansSeen /\ meaner.sum = SumSeen /\ NansSeen \in 0 .. N /\ SumSeen \in Int
  BY SumsSeen, Exact DEF WindowExact
<1>2. CASE NansSeen = 0
  <2>1. price \in Int /\ N \in 1 .. N
    BY <1>2, AllFinite, RollingAssumption DEF price
  <2>2. A!Returned(meaner) = SumSeen
    BY <1>1, <1>2 DEF A!Returned
  <2> QED
    BY <1>1, <1>2, <2>1, <2>2, DoublesAssumption
       DEF DistanceExact, Distance, A!OffMean, A!NanOrInf, Off
<1>3. CASE NansSeen # 0
  <2>1. A!Returned(meaner) = NaN
    BY <1>1, <1>3, RollingAssumption DEF A!Returned
  <2> QED
    BY <1>3, <2>1 DEF DistanceExact, Distance, A!OffMean, A!NanOrInf
<1> QED
  BY <1>2, <1>3

LEMMA SquareFinite ==
  ASSUME NEW x \in Int
  PROVE  Square(x) = x * x /\ Amount(Square(x)) = x * x
<1>1. ~NanOrInf(x) /\ x # NaN
  BY DoublesAssumption DEF NanOrInf
<1>2. ~NanOrInf(x * x)
  <2>1. x * x \in Int
    OBVIOUS
  <2> QED
    BY <2>1, DoublesAssumption DEF NanOrInf
<1> QED
  BY <1>1, <1>2 DEF Square, Amount

(* PairsSeen is what Stder's sums make of the variance.                    *)
LEMMA PairsIs ==
  ASSUME IndInv, NansSeen = 0
  PROVE  PairsSeen = N * SquaresSeen - SumSeen * SumSeen
<1>1. seen \in [1 .. N -> Int]
  BY AllFinite
<1>2. SumSeen = SumOf(seen)
  <2>1. seen = [i \in 1 .. N |-> Amount(seen[i])]
    BY <1>1, DoublesAssumption DEF Amount, NanOrInf
  <2> QED
    BY <2>1 DEF SumSeen
<1>3. SquaresSeen = SumOf([i \in 1 .. N |-> seen[i] * seen[i]])
  <2>1. \A i \in 1 .. N : Amount(Square(seen[i])) = seen[i] * seen[i]
    BY <1>1, SquareFinite
  <2>2. [i \in 1 .. N |-> Amount(Square(seen[i]))] = [i \in 1 .. N |-> seen[i] * seen[i]]
    BY <2>1
  <2> QED
    BY <2>2 DEF SquaresSeen
<1>4. \A i, j \in 1 .. N : Square(seen[i] - seen[j]) = (seen[i] - seen[j]) * (seen[i] - seen[j])
  <2>1. \A i, j \in 1 .. N : seen[i] - seen[j] \in Int
    BY <1>1
  <2> QED
    BY <2>1, SquareFinite
<1>5. PairsSeen = SumOf([i \in 1 .. N |->
         SumOf([j \in 1 .. N |-> (seen[i] - seen[j]) * (seen[i] - seen[j])])]) \div 2
  <2>1. ASSUME NEW i \in 1 .. N
        PROVE  [j \in 1 .. N |-> Square(seen[i] - seen[j])]
                 = [j \in 1 .. N |-> (seen[i] - seen[j]) * (seen[i] - seen[j])]
    BY <1>4
  <2>2. [i \in 1 .. N |-> SumOf([j \in 1 .. N |-> Square(seen[i] - seen[j])])]
          = [i \in 1 .. N |->
               SumOf([j \in 1 .. N |-> (seen[i] - seen[j]) * (seen[i] - seen[j])])]
    BY <2>1
  <2> QED
    BY <2>2 DEF PairsSeen
<1>6. PairsSeen = (2 * (N * SquaresSeen - SumSeen * SumSeen)) \div 2
  BY <1>1, <1>2, <1>3, <1>5, PairsIdentity
<1>7. N * SquaresSeen - SumSeen * SumSeen \in Int
  BY SumsSeen, RollingAssumption
<1>8. ASSUME NEW z \in Int PROVE (2 * z) \div 2 = z
  OBVIOUS
<1> QED
  BY <1>6, <1>7, <1>8

(* OverBand, from the sums Stder keeps, is BandBroken, from the prices.    *)
BandExact == \A side \in {1, -1} :
               A!OverBand(A!Times(side, Distance), A!Returned(sumer), A!Returned(sq_sumer))
                 <=> BandBroken(side)

LEMMA BandIs == IndInv => BandExact
<1> SUFFICES ASSUME IndInv, NEW side \in {1, -1}
             PROVE  A!OverBand(A!Times(side, Distance), A!Returned(sumer), A!Returned(sq_sumer))
                      <=> BandBroken(side)
  BY DEF BandExact
<1>1. /\ sumer.nan_count = NansSeen /\ sumer.sum = SumSeen
      /\ sq_sumer.nan_count = NansSeen /\ sq_sumer.sum = SquaresSeen
      /\ NansSeen \in 0 .. N /\ SumSeen \in Int /\ SquaresSeen \in Int /\ N \in Nat
  BY SumsSeen, Exact, RollingAssumption DEF WindowExact
<1>2. CASE NansSeen # 0
  <2>1. A!Returned(sumer) = NaN
    BY <1>1, <1>2 DEF A!Returned
  <2> QED
    BY <1>2, <2>1 DEF A!OverBand, A!NanOrInf, BandBroken
<1>3. CASE NansSeen = 0
  <2>1. A!Returned(sumer) = SumSeen /\ A!Returned(sq_sumer) = SquaresSeen
    BY <1>1, <1>3 DEF A!Returned
  <2>2. Off \in Int
    <3>1. price \in Int
      BY <1>3, AllFinite, RollingAssumption DEF price
    <3> QED
      BY <1>1, <3>1 DEF Off
  <2>3. Distance = Off
    BY <1>3, DistanceIs DEF DistanceExact
  <2>4. A!Times(side, Distance) = side * Off /\ side * Off \in Int
    <3>1. ~A!NanOrInf(Off)
      BY <2>2, DoublesAssumption DEF A!NanOrInf
    <3> QED
      BY <2>2, <2>3, <3>1 DEF A!Times
  <2>5. (side * Off) * (side * Off) = Off * Off
    BY <2>2
  <2>6. PairsSeen = N * SquaresSeen - SumSeen * SumSeen
    BY <1>3, PairsIs
  <2>7. A!Less(0, side * Off) <=> side * Off > 0
    BY <2>4, DoublesAssumption DEF A!Less, A!NanOrInf
  <2>8. ~A!NanOrInf(SumSeen) /\ ~A!NanOrInf(SquaresSeen)
    BY <1>1, DoublesAssumption DEF A!NanOrInf
  <2>9. A!OverBand(side * Off, SumSeen, SquaresSeen)
          <=> /\ side * Off > 0
              /\ Off * Off * (N - 1) > 4 * N * PairsSeen
    BY <2>5, <2>6, <2>7, <2>8 DEF A!OverBand
  <2> QED
    BY <1>3, <2>1, <2>4, <2>9 DEF BandBroken
<1> QED
  BY <1>2, <1>3

(* Both on the sums the tick has brought up to date.                       *)
LEMMA Decides ==
  ASSUME SeenType, NEW last \in Double, OnTick(last)
  PROVE  \/ \E side \in {1, -1} : A!Open(side, Distance')
         \/ A!Close(Distance')
         \/ A!Nothing(Distance')
<1>1. A!OnTick(last) /\ price' = last
  BY SeenStep DEF OnTick
<1>2. Distance' = A!OffMean(last, A!Returned(meaner'))
  BY <1>1 DEF Distance
<1> QED
  BY <1>1, <1>2 DEF A!OnTick

(* Aberration gives up a position exactly when the price is across the     *)
(* mean of N finite prices.                                                *)
THEOREM ClosesAtMeanAlways == Spec => ClosesAtMean
<1>1. IndInv /\ DistanceExact' /\ [Next]_vars
        => [a_position # 0 =>
              (a_position' = 0 <=> NansSeen' = 0 /\ a_position * Off' < 0)]_vars
  <2> SUFFICES ASSUME IndInv, DistanceExact', NEW last \in Double, OnTick(last), a_position # 0
               PROVE  a_position' = 0 <=> NansSeen' = 0 /\ a_position * Off' < 0
    BY PricesDouble DEF Next
  <2>1. a_position \in {1, -1}
    BY DEF IndInv, AbbState
  <2>2. \/ A!Close(Distance')
        \/ A!Nothing(Distance')
    BY Decides DEF IndInv, A!Open
  <2>3. A!Crosses(Distance') <=> NansSeen' = 0 /\ a_position * Off' < 0
    <3>1. CASE NansSeen' = 0
      <4>1. Distance' = Off' /\ Off' \in Int
        BY <3>1 DEF DistanceExact
      <4>2. a_position * Off' \in Int
        BY <2>1, <4>1
      <4>3. A!Times(a_position, Distance') = a_position * Off'
        BY <4>1, DoublesAssumption DEF A!Times, A!NanOrInf
      <4>4. A!Less(a_position * Off', 0) <=> a_position * Off' < 0
        <5> DEFINE z == a_position * Off'
        <5>1. z \in Int
          BY <4>2
        <5> HIDE DEF z
        <5>2. A!Less(z, 0) <=> z < 0
          BY <5>1, DoublesAssumption DEF A!Less, A!NanOrInf
        <5> QED
          BY <5>2 DEF z
      <4> QED
        BY <3>1, <4>3, <4>4 DEF A!Crosses
    <3>2. CASE NansSeen' # 0
      <4>1. Distance' = NaN
        BY <3>2 DEF DistanceExact
      <4>2. A!Times(a_position, Distance') = NaN /\ ~A!Less(NaN, 0)
        BY <4>1, DoublesAssumption DEF A!Times, A!Less, A!NanOrInf
      <4> QED
        BY <3>2, <4>2 DEF A!Crosses
    <3> QED
      BY <3>1, <3>2
  <2> QED
    BY <2>1, <2>2, <2>3 DEF A!Close, A!Nothing
<1> QED
  BY Inductive, DistanceIs, <1>1, PTL DEF Spec, ClosesAtMean

(* Aberration opens exactly when the last of N finite prices is beyond two *)
(* standard deviations of these, and in the direction of the break.        *)
THEOREM OpensAtBandAlways == Spec => OpensAtBand
<1>1. IndInv /\ BandExact' /\ DistanceExact' /\ [Next]_vars
        => [a_position = 0 =>
              \A side \in {1, -1} : a_position' = side <=> BandBroken(side)']_vars
  <2> SUFFICES ASSUME IndInv, BandExact', DistanceExact', NEW last \in Double,
                      OnTick(last), a_position = 0, NEW side \in {1, -1}
               PROVE  a_position' = side <=> BandBroken(side)'
    BY PricesDouble DEF Next
  <2>1. \/ \E way \in {1, -1} : A!Open(way, Distance')
        \/ A!Nothing(Distance')
    BY Decides DEF IndInv, A!Close
  <2>2. \A way \in {1, -1} : A!Breaks(way, Distance') <=> BandBroken(way)'
    BY DEF BandExact, A!Breaks
  <2>3. CASE A!Nothing(Distance')
    BY <2>2, <2>3 DEF A!Nothing
  <2>4. ASSUME NEW way \in {1, -1}, A!Open(way, Distance')
        PROVE  a_position' = side <=> BandBroken(side)'
    <3>1. a_position' = way /\ BandBroken(way)'
      BY <2>2, <2>4 DEF A!Open
    <3>2. BandBroken(side)' => side = way
      <4> SUFFICES ASSUME BandBroken(side)' PROVE side = way
        OBVIOUS
      <4> DEFINE off == Off'
      <4>1. NansSeen' = 0 /\ side * off > 0 /\ way * off > 0
        BY <3>1 DEF BandBroken
      <4>2. off \in Int
        BY <4>1 DEF DistanceExact
      <4> HIDE DEF off
      <4> QED
        BY <4>1, <4>2
    <3> QED
      BY <3>1, <3>2
  <2> QED
    BY <2>1, <2>3, <2>4
<1> QED
  BY Inductive, BandIs, DistanceIs, <1>1, PTL DEF Spec, OpensAtBand
=============================================================================
