---------------------------- MODULE KnTreeProofs ----------------------------
(***************************************************************************)
(* Proofs about the k-nomial tree and its iterator, for every group size,  *)
(* degree, root and rank.                                                  *)
(***************************************************************************)
EXTENDS KnTree, NatFacts, FiniteSetTheorems

-----------------------------------------------------------------------------
(* Arithmetic *)

\* What is left of a number after division, in the range of remainders.
LEMMA DivMod ==
  ASSUME NEW m \in Nat \ {0}, NEW q \in Nat, NEW r \in 0..(m - 1)
  PROVE  (m * q + r) \div m = q /\ (m * q + r) % m = r
OBVIOUS

\* Every number is a multiple and a remainder.
LEMMA Quotient ==
  ASSUME NEW m \in Nat \ {0}, NEW x \in Nat
  PROVE  \E q \in Nat, r \in 0..(m - 1) : x = m * q + r
<1> DEFINE M == {y \in Nat : \E q \in Nat, r \in 0..(m - 1) : y = m * q + r}
<1>1. 0 \in M
  <2>1. 0 = m * 0 + 0 /\ 0 \in 0..(m - 1)
    OBVIOUS
  <2> QED
    BY <2>1
<1>2. ASSUME NEW y \in Nat, y \in M PROVE y + 1 \in M
  <2>1. PICK q \in Nat, r \in 0..(m - 1) : y = m * q + r
    BY <1>2
  <2>2. CASE r + 1 \in 0..(m - 1)
    <3>1. y + 1 = m * q + (r + 1)
      BY <2>1
    <3> QED
      BY <2>2, <3>1
  <2>3. CASE r + 1 = m
    <3>1. m * (q + 1) = m * q + m
      OBVIOUS
    <3>2. y + 1 = m * (q + 1) + 0 /\ q + 1 \in Nat /\ 0 \in 0..(m - 1)
      BY <2>1, <2>3, <3>1
    <3>3. \E p \in Nat, s \in 0..(m - 1) : y + 1 = m * p + s
      BY ONLY <3>2
    <3> QED
      BY <3>3
  <2> QED
    BY <2>2, <2>3
<1> HIDE DEF M
<1>3. x \in M
  BY <1>1, <1>2, Induction
<1> QED
  BY <1>3 DEF M

Divides(m, x) == \E q \in Nat : x = m * q

\* A remainder is zero for multiples only.
LEMMA ModIsZero ==
  ASSUME NEW m \in Nat \ {0}, NEW x \in Nat
  PROVE  x % m = 0 <=> Divides(m, x)
<1>1. PICK q \in Nat, r \in 0..(m - 1) : x = m * q + r
  BY Quotient
<1>2. x % m = r
  BY <1>1, DivMod
<1>3. ASSUME x % m = 0 PROVE Divides(m, x)
  <2>1. x = m * q
    BY <1>1, <1>2, <1>3
  <2> QED
    BY <2>1 DEF Divides
<1>4. ASSUME Divides(m, x) PROVE x % m = 0
  <2>1. PICK p \in Nat : x = m * p
    BY <1>4 DEF Divides
  <2>2. x = m * p + 0 /\ 0 \in 0..(m - 1)
    BY <2>1
  <2> QED
    BY <2>2, DivMod
<1> QED
  BY <1>3, <1>4

-----------------------------------------------------------------------------
(* Powers *)

\* The powers satisfy the equations of their recursive definition.
LEMMA PowerFacts ==
  ASSUME NEW d \in Nat \ {0}
  PROVE  /\ Power(d, 0) = 1
         /\ \A k \in Nat : Power(d, k) \in Nat \ {0} /\ Power(d, k + 1) = d * Power(d, k)
<1> DEFINE Body(g) == [j \in Nat |-> IF j = 0 THEN 1 ELSE d * g[j - 1]]
           Part(g, k) == /\ g \in [0..k -> Nat \ {0}]
                         /\ g[0] = 1
                         /\ \A j \in 1..k : g[j] = d * g[j - 1]
           M == {k \in Nat : \E g : Part(g, k)}
           U == {k \in Nat : \A m \in Nat : \A g, h : m <= k /\ Part(g, m) /\ Part(h, k) => g[m] = h[m]}
<1>1. \A k \in Nat : k \in M
  <2>1. 0 \in M
    <3>1. Part([j \in 0..0 |-> 1], 0)
      OBVIOUS
    <3> QED
      BY <3>1
  <2>2. ASSUME NEW k \in Nat, k \in M PROVE k + 1 \in M
    <3>1. PICK g : Part(g, k)
      BY <2>2
    <3> DEFINE h == [j \in 0..(k + 1) |-> IF j = k + 1 THEN d * g[k] ELSE g[j]]
    <3>2. g[k] \in Nat \ {0} /\ d * g[k] \in Nat \ {0}
      BY <3>1
    <3>3. h \in [0..(k + 1) -> Nat \ {0}] /\ h[0] = 1
      BY <3>1, <3>2
    <3>4. \A j \in 1..(k + 1) : h[j] = d * h[j - 1]
      BY <3>1
    <3>5. Part(h, k + 1)
      BY <3>3, <3>4
    <3> HIDE DEF h, Part
    <3>6. \E b : Part(b, k + 1)
      BY <3>5
    <3> QED
      BY <3>6
  <2> HIDE DEF M
  <2> QED
    BY <2>1, <2>2, Induction
<1> DEFINE P(k) == CHOOSE g : Part(g, k)
           f == [k \in Nat |-> P(k)[k]]
<1>2. \A k \in Nat : Part(P(k), k)
  <2>1. \A k \in Nat : \E g : Part(g, k)
    BY <1>1
  <2> HIDE DEF Part
  <2> QED
    BY <2>1
<1>3. \A k, m \in Nat : m <= k => P(m)[m] = P(k)[m]
  <2> SUFFICES ASSUME NEW k \in Nat PROVE \A m \in Nat : m <= k => P(m)[m] = P(k)[m]
    OBVIOUS
  <2>1. ASSUME NEW g, NEW h, NEW l \in Nat, Part(g, l), Part(h, k), l <= k
        PROVE  g[l] = h[l]
    <3> DEFINE E == {j \in Nat : j <= l => g[j] = h[j]}
    <3>1. 0 \in E
      BY <2>1
    <3>2. ASSUME NEW j \in Nat, j \in E PROVE j + 1 \in E
      <4> SUFFICES ASSUME j + 1 <= l PROVE g[j + 1] = h[j + 1]
        OBVIOUS
      <4>1. j + 1 \in 1..l /\ j + 1 \in 1..k /\ (j + 1) - 1 = j /\ g[j] = h[j]
        BY <2>1, <3>2
      <4> QED
        BY <2>1, <4>1
    <3> HIDE DEF E
    <3>3. l \in E
      BY <3>1, <3>2, Induction
    <3> QED
      BY <3>3 DEF E
  <2> HIDE DEF P, Part
  <2> QED
    BY <1>2, <2>1
<1>4. \A k \in Nat : f[k] \in Nat \ {0} /\ f[k + 1] = d * f[k] /\ f[0] = 1
  <2> SUFFICES ASSUME NEW k \in Nat
               PROVE  f[k] \in Nat \ {0} /\ f[k + 1] = d * f[k] /\ f[0] = 1
    OBVIOUS
  <2>3. f[k] = P(k)[k] /\ f[k + 1] = P(k + 1)[k + 1] /\ f[0] = P(0)[0]
    <3> HIDE DEF P
    <3> QED
      OBVIOUS
  <2> HIDE DEF P, f
  <2>1. Part(P(k), k) /\ Part(P(k + 1), k + 1) /\ Part(P(0), 0)
    <3> HIDE DEF Part
    <3> QED
      BY <1>2
  <2>2. P(k)[k] = P(k + 1)[k]
    BY <1>3
  <2>4. P(k + 1)[k + 1] = d * P(k + 1)[k]
    <3>1. k + 1 \in 1..(k + 1) /\ (k + 1) - 1 = k
      OBVIOUS
    <3> QED
      BY <2>1, <3>1
  <2> QED
    BY <2>1, <2>2, <2>3, <2>4
<1>5. f = Body(f)
  <2>1. ASSUME NEW j \in Nat PROVE f[j] = Body(f)[j]
    <3>1. CASE j = 0
      BY <1>4, <3>1
    <3>2. CASE j # 0
      <4>1. j - 1 \in Nat /\ (j - 1) + 1 = j
        BY <3>2
      <4> HIDE DEF f
      <4>2. f[j] = d * f[j - 1]
        BY <1>4, <4>1
      <4> QED
        BY <3>2, <4>2
    <3> QED
      BY <3>1, <3>2
  <2>2. f = [j \in Nat |-> f[j]]
    OBVIOUS
  <2> HIDE DEF f
  <2> QED
    BY <2>1, <2>2
<1> DEFINE pow == CHOOSE g : g = Body(g)
<1> HIDE DEF f
<1>6. pow = Body(pow)
  BY <1>5
<1>7. \A k : Power(d, k) = pow[k]
  BY DEF Power
<1> HIDE DEF pow
<1>8. pow[0] = 1 /\ \A k \in Nat : pow[k + 1] = d * pow[k]
  <2>1. \A k \in Nat : k + 1 \in Nat /\ k + 1 # 0 /\ (k + 1) - 1 = k
    OBVIOUS
  <2> QED
    BY <1>6, <2>1
<1> DEFINE T == {k \in Nat : pow[k] \in Nat \ {0}}
<1>9. \A k \in Nat : k \in T
  <2>1. 0 \in T
    BY <1>8
  <2>2. ASSUME NEW k \in Nat, k \in T PROVE k + 1 \in T
    <3>1. pow[k] \in Nat \ {0} /\ pow[k + 1] = d * pow[k]
      BY <1>8, <2>2
    <3> QED
      BY <3>1
  <2> HIDE DEF T
  <2> QED
    BY <2>1, <2>2, Induction
<1> QED
  BY <1>7, <1>8, <1>9

\* The same, for one power and the next.
LEMMA PowerStep ==
  ASSUME NEW d \in Nat \ {0}, NEW k \in Nat
  PROVE  /\ Power(d, k) \in Nat \ {0} /\ Power(d, k + 1) \in Nat \ {0}
         /\ Power(d, k + 1) = d * Power(d, k)
<1>1. k + 1 \in Nat
  OBVIOUS
<1> QED
  BY <1>1, PowerFacts

\* A higher power is a multiple of a lower one.
LEMMA PowerMultiple ==
  ASSUME NEW d \in Nat \ {0}, NEW i \in Nat, NEW j \in Nat, i <= j
  PROVE  \E q \in Nat \ {0} : Power(d, j) = Power(d, i) * q
<1> DEFINE M == {e \in Nat : \E q \in Nat \ {0} : Power(d, i + e) = Power(d, i) * q}
<1>1. 0 \in M
  <2>1. i + 0 = i /\ Power(d, i) = Power(d, i) * 1
    BY PowerStep
  <2> QED
    BY <2>1
<1>2. ASSUME NEW e \in Nat, e \in M PROVE e + 1 \in M
  <2>1. PICK q \in Nat \ {0} : Power(d, i + e) = Power(d, i) * q
    BY <1>2
  <2>2. i + (e + 1) = (i + e) + 1 /\ i + e \in Nat
    OBVIOUS
  <2>3. Power(d, i + (e + 1)) = d * Power(d, i + e) /\ Power(d, i) \in Nat
    BY <2>2, PowerStep
  <2>4. d * (Power(d, i) * q) = Power(d, i) * (d * q) /\ d * q \in Nat \ {0}
    BY <2>3
  <2> HIDE DEF M
  <2>5. \E p \in Nat \ {0} : Power(d, i + (e + 1)) = Power(d, i) * p
    BY ONLY <2>1, <2>3, <2>4
  <2> QED
    BY <2>5 DEF M
<1> HIDE DEF M
<1>3. j - i \in Nat /\ i + (j - i) = j /\ j - i \in M
  <2>1. j - i \in Nat /\ i + (j - i) = j
    OBVIOUS
  <2> QED
    BY <1>1, <1>2, <2>1, Induction
<1> QED
  BY <1>3 DEF M

\* Powers grow.
LEMMA PowerGrows ==
  ASSUME NEW d \in Nat, d >= 2, NEW i \in Nat, NEW j \in Nat, i < j
  PROVE  Power(d, i) < Power(d, j)
<1>0. d \in Nat \ {0}
  OBVIOUS
<1>1. PICK q \in Nat \ {0} : Power(d, j) = Power(d, i + 1) * q
  BY <1>0, PowerMultiple
<1>2. Power(d, i) \in Nat \ {0} /\ Power(d, i + 1) = d * Power(d, i)
  BY <1>0, PowerStep
<1> DEFINE p == Power(d, i)
<1> HIDE DEF p
<1>3. p \in Nat \ {0} /\ Power(d, j) = (d * p) * q
  BY <1>1, <1>2 DEF p
<1>4. d * p >= 2 * p
  BY <1>3
<1>5. (d * p) * q >= d * p
  <2> DEFINE r == d * p
  <2>1. r \in Nat
    BY <1>3
  <2> HIDE DEF r
  <2>2. r * q >= r
    BY <2>1
  <2> QED
    BY <2>2 DEF r
<1> QED
  BY <1>3, <1>4, <1>5 DEF p

\* The size is below some power.
LEMMA PowerAbove ==
  ASSUME NEW d \in Nat, d >= 2, NEW k \in Nat
  PROVE  Power(d, k) > k
<1>0. d \in Nat \ {0}
  OBVIOUS
<1> DEFINE M == {e \in Nat : Power(d, e) > e}
<1>1. 0 \in M
  BY <1>0, PowerFacts
<1>2. ASSUME NEW e \in Nat, e \in M PROVE e + 1 \in M
  <2>1. Power(d, e) < Power(d, e + 1)
    BY PowerGrows
  <2>2. Power(d, e) \in Nat /\ Power(d, e + 1) \in Nat
    BY <1>0, PowerStep
  <2> QED
    BY <1>2, <2>1, <2>2
<1> HIDE DEF M
<1>3. k \in M
  BY <1>1, <1>2, Induction
<1> QED
  BY <1>3 DEF M

\* A multiple of a higher power is one of a lower power.
LEMMA DividesLower ==
  ASSUME NEW d \in Nat \ {0}, NEW i \in Nat, NEW j \in Nat, i <= j,
         NEW x \in Nat, Divides(Power(d, j), x)
  PROVE  Divides(Power(d, i), x)
<1>1. PICK q \in Nat : x = Power(d, j) * q
  BY DEF Divides
<1>2. PICK p \in Nat \ {0} : Power(d, j) = Power(d, i) * p
  BY PowerMultiple
<1>3. Power(d, i) \in Nat
  BY PowerStep
<1>4. (Power(d, i) * p) * q = Power(d, i) * (p * q) /\ p * q \in Nat
  BY <1>3
<1>5. x = Power(d, i) * (p * q)
  BY <1>1, <1>2, <1>4
<1> QED
  BY <1>4, <1>5 DEF Divides

\* A number with the digit i at position j, and zeros below it.
LEMMA DigitFacts ==
  ASSUME NEW d \in Nat, d >= 2, NEW j \in Nat, NEW i \in 1..(d - 1),
         NEW v \in Nat, Divides(Power(d, j + 1), v)
  PROVE  LET c == v + Power(d, j) * i
         IN  /\ c \in Nat /\ c > v
             /\ Divides(Power(d, j), c)
             /\ ~Divides(Power(d, j + 1), c)
             /\ (c \div (Power(d, j) * d)) * (Power(d, j) * d) = v
<1>0. d \in Nat \ {0}
  OBVIOUS
<1> DEFINE p == Power(d, j)
           m == d * p
<1>1. p \in Nat \ {0} /\ Power(d, j + 1) = m /\ p * d = m
  <2>1. p \in Nat \ {0} /\ Power(d, j + 1) = m
    BY <1>0, PowerStep
  <2> QED
    BY <2>1
<1> HIDE DEF p
<1>2. m \in Nat \ {0}
  BY <1>1
<1>3. PICK q \in Nat : v = m * q
  BY <1>1 DEF Divides
<1>4. p * i \in 1..(m - 1)
  <2>1. p * i >= 1
    BY <1>1
  <2>2. p * i <= p * (d - 1)
    BY <1>1
  <2>3. p * (d - 1) = m - p
    BY <1>1
  <2> QED
    BY <1>1, <2>1, <2>2, <2>3
<1> DEFINE r == p * i
           c == v + r
<1>5. c \in Nat /\ c > v
  BY <1>4
<1>6. Divides(p, c)
  <2>1. c = p * (d * q + i)
    BY <1>1, <1>3
  <2>2. d * q + i \in Nat
    OBVIOUS
  <2> QED
    BY <2>1, <2>2 DEF Divides
<1>7. c = m * q + r /\ r \in 0..(m - 1)
  BY <1>3, <1>4
<1> HIDE DEF m, r
<1>8. c \div m = q /\ c % m = r
  BY <1>2, <1>7, DivMod
<1>9. ~Divides(m, c)
  BY <1>2, <1>4, <1>5, <1>8, ModIsZero DEF r
<1>10. (c \div m) * m = v
  BY <1>2, <1>3, <1>8
<1> QED
  BY <1>1, <1>5, <1>6, <1>9, <1>10 DEF p, r

\* The number of a position gives the position.
LEMMA DigitPosition ==
  ASSUME NEW d \in Nat, d >= 2, NEW j \in Nat, NEW i \in 1..(d - 1), NEW e \in Nat,
         Divides(Power(d, e), Power(d, j) * i), ~Divides(Power(d, e + 1), Power(d, j) * i)
  PROVE  e = j
<1>0. d \in Nat \ {0}
  OBVIOUS
<1> DEFINE x == Power(d, j) * i
<1>1. 0 + x = x /\ x \in Nat
  <2>1. Power(d, j) \in Nat /\ i \in Nat
    BY <1>0, PowerStep
  <2> QED
    BY <2>1
<1>2. Divides(Power(d, j + 1), 0)
  <2>1. 0 = Power(d, j + 1) * 0
    BY <1>0, PowerStep
  <2> QED
    BY <2>1 DEF Divides
<1>3. Divides(Power(d, j), x) /\ ~Divides(Power(d, j + 1), x)
  BY <1>1, <1>2, DigitFacts
<1> HIDE DEF x
<1>4. ~(e + 1 <= j)
  BY <1>1, <1>3, <1>0, DividesLower DEF x
<1>5. ~(j + 1 <= e)
  BY <1>1, <1>3, <1>0, DividesLower DEF x
<1> QED
  BY <1>4, <1>5

-----------------------------------------------------------------------------
(* Parents and children *)

\* The search for the parent of v stops at level j.
Stops(v, d, n, j) == Power(d, j) >= n \/ v % Power(d, j + 1) # 0

\* The level of the largest sub-tree rooted at v.
Level(v, d, n) ==
  IF n = 1 THEN 0
  ELSE CHOOSE j \in 0..n : Stops(v, d, n, j) /\ \A i \in 0..(j - 1) : ~Stops(v, d, n, i)

\* The search ends, and at the level that no lower one precedes.
LEMMA LevelFacts ==
  ASSUME NEW d \in Nat, d >= 2, NEW n \in Nat, n >= 2, NEW v \in Nat
  PROVE  /\ Level(v, d, n) \in 0..n
         /\ MaxSubsize(v, d, n) = Power(d, Level(v, d, n))
         /\ Stops(v, d, n, Level(v, d, n))
         /\ \A i \in 0..(Level(v, d, n) - 1) : ~Stops(v, d, n, i)
<1> DEFINE First(j) == Stops(v, d, n, j) /\ \A i \in 0..(j - 1) : ~Stops(v, d, n, i)
           T == {j \in Nat : Stops(v, d, n, j)}
<1>1. Power(d, n) > n /\ Power(d, n) \in Nat
  BY PowerAbove, PowerFacts
<1>2. n \in T
  BY <1>1 DEF Stops
<1>3. PICK k \in T : \A j \in T : k <= j
  <2>1. T \in SUBSET Nat /\ T # {}
    BY <1>2
  <2> HIDE DEF T
  <2> QED
    BY <2>1, Least
<1>4. k \in 0..n /\ First(k)
  BY <1>2, <1>3
<1>5. Level(v, d, n) = CHOOSE j \in 0..n : First(j)
  BY DEF Level
<1>6. MaxSubsize(v, d, n) = Power(d, CHOOSE j \in 0..n : First(j))
  BY DEF MaxSubsize, Stops
<1> HIDE DEF First
<1>7. Level(v, d, n) \in 0..n /\ First(Level(v, d, n))
  BY <1>4, <1>5
<1> QED
  BY <1>5, <1>6, <1>7 DEF First

\* Only one level stops the search first.
LEMMA LevelIs ==
  ASSUME NEW d \in Nat, d >= 2, NEW n \in Nat, n >= 2, NEW v \in Nat, NEW j \in Nat,
         Stops(v, d, n, j), \A i \in 0..(j - 1) : ~Stops(v, d, n, i)
  PROVE  Level(v, d, n) = j
<1> DEFINE k == Level(v, d, n)
<1>1. k \in 0..n /\ Stops(v, d, n, k) /\ \A i \in 0..(k - 1) : ~Stops(v, d, n, i)
  BY LevelFacts
<1> HIDE DEF k
<1>2. ~(j < k)
  BY <1>1
<1>3. ~(k < j)
  BY <1>1
<1> QED
  BY <1>1, <1>2, <1>3 DEF k

\* What the search passed over divides v.
LEMMA LevelDivides ==
  ASSUME NEW d \in Nat, d >= 2, NEW n \in Nat, n >= 2, NEW v \in Nat,
         NEW j \in 0..Level(v, d, n)
  PROVE  Divides(Power(d, j), v)
<1>0. d \in Nat \ {0} /\ j \in Nat
  BY LevelFacts
<1>1. CASE j = 0
  <2>1. v = Power(d, 0) * v
    BY <1>0, PowerFacts
  <2> QED
    BY <1>1, <2>1 DEF Divides
<1>2. CASE j # 0
  <2>1. j - 1 \in 0..(Level(v, d, n) - 1) /\ j - 1 \in Nat /\ (j - 1) + 1 = j
    BY <1>0, <1>2, LevelFacts
  <2>2. ~Stops(v, d, n, j - 1)
    BY <2>1, LevelFacts
  <2>3. v % Power(d, j) = 0
    BY <2>1, <2>2 DEF Stops
  <2>4. Power(d, j) \in Nat \ {0}
    BY <1>0, PowerStep
  <2> QED
    BY <2>3, <2>4, ModIsZero
<1> QED
  BY <1>1, <1>2

\* The rank at distance i times the j-th power from v.
At(v, d, j, i) == v + Power(d, j) * i

\* The ranks below v in the tree: one for each digit at a lower level.
LEMMA ChildIsAt ==
  ASSUME NEW d \in Nat, d >= 2, NEW n \in Nat, n >= 2, NEW v \in 0..(n - 1),
         NEW j \in 0..(Level(v, d, n) - 1), NEW i \in 1..(d - 1), At(v, d, j, i) < n
  PROVE  At(v, d, j, i) \in KnChildren(v, d, n)
<1> DEFINE c == v + Power(d, j) * i
<1>0. d \in Nat \ {0} /\ j \in Nat /\ j + 1 \in 0..Level(v, d, n) /\ v \in Nat
  <2>1. v \in Nat
    OBVIOUS
  <2>2. Level(v, d, n) \in 0..n
    BY <2>1, LevelFacts
  <2> QED
    BY <2>1, <2>2
<1>1. Divides(Power(d, j + 1), v)
  BY <1>0, LevelDivides
<1>2. /\ c \in Nat /\ c > v
      /\ Divides(Power(d, j), c)
      /\ ~Divides(Power(d, j + 1), c)
      /\ (c \div (Power(d, j) * d)) * (Power(d, j) * d) = v
  BY <1>0, <1>1, DigitFacts
<1>3. Power(d, j) \in Nat \ {0} /\ Power(d, j + 1) \in Nat \ {0}
  BY <1>0, PowerStep
<1>4. Power(d, j) < n
  <2>1. Power(d, j) * i >= Power(d, j)
    BY <1>3
  <2> QED
    BY <1>0, <1>3, <2>1 DEF At
<1>5. c = At(v, d, j, i) /\ c \in 0..(n - 1)
  BY <1>2 DEF At
<1> HIDE DEF c
<1>6. Stops(c, d, n, j)
  BY <1>2, <1>3, ModIsZero DEF Stops
<1>7. ASSUME NEW h \in 0..(j - 1) PROVE ~Stops(c, d, n, h)
  <2>1. h \in Nat /\ h + 1 <= j /\ h < j /\ h + 1 \in Nat
    BY <1>0
  <2>2. Power(d, h) < Power(d, j) /\ Power(d, h) \in Nat /\ Power(d, h + 1) \in Nat \ {0}
    BY <1>0, <2>1, PowerGrows, PowerStep
  <2>3. Divides(Power(d, h + 1), c)
    BY <1>0, <1>2, <2>1, DividesLower
  <2>4. c % Power(d, h + 1) = 0
    BY <1>2, <2>2, <2>3, ModIsZero
  <2> QED
    BY <1>3, <1>4, <2>2, <2>4 DEF Stops
<1>8. Level(c, d, n) = j
  BY <1>0, <1>2, <1>6, <1>7, LevelIs
<1>9. MaxSubsize(c, d, n) = Power(d, j)
  BY <1>2, <1>8, LevelFacts
<1>10. ParentOf(c, d, n) = v
  BY <1>2, <1>3, <1>4, <1>9 DEF ParentOf
<1> QED
  BY <1>5, <1>10 DEF KnChildren

\* There are no others.
LEMMA ChildHasDigit ==
  ASSUME NEW d \in Nat, d >= 2, NEW n \in Nat, n >= 2, NEW c \in 0..(n - 1),
         ParentOf(c, d, n) # INVALID_RANK
  PROVE  LET v == ParentOf(c, d, n)
         IN  /\ v \in 0..(c - 1)
             /\ \E j \in 0..(Level(v, d, n) - 1), i \in 1..(d - 1) : c = At(v, d, j, i)
<1> DEFINE j == Level(c, d, n)
           v == ParentOf(c, d, n)
<1>0. d \in Nat \ {0} /\ j \in Nat /\ j + 1 \in Nat /\ c \in Nat
  <2>1. c \in Nat
    OBVIOUS
  <2>2. j \in 0..n
    BY <2>1, LevelFacts
  <2> QED
    BY <2>1, <2>2
<1> HIDE DEF j
<1> DEFINE p == Power(d, j)
           m == p * d
<1>1. p \in Nat \ {0} /\ Power(d, j + 1) = m /\ m \in Nat \ {0}
  <2>1. p \in Nat \ {0} /\ Power(d, j + 1) = d * p /\ Power(d, j + 1) \in Nat \ {0}
    BY <1>0, PowerStep
  <2> HIDE DEF p
  <2> QED
    BY <2>1
<1>2. MaxSubsize(c, d, n) = p /\ Stops(c, d, n, j)
  BY <1>0, LevelFacts DEF j
<1>3. p < n /\ v = (c \div m) * m
  BY <1>0, <1>1, <1>2 DEF ParentOf
<1>4. PICK q \in Nat, r \in 0..(m - 1) : c = m * q + r
  <2> HIDE DEF m
  <2> QED
    BY <1>0, <1>1, Quotient
<1>5. c \div m = q /\ c % m = r
  <2> HIDE DEF m
  <2> QED
    BY <1>1, <1>4, DivMod
<1>6. r # 0
  BY <1>1, <1>2, <1>3, <1>5 DEF Stops
<1>7. v = m * q /\ v \in Nat /\ c = v + r
  <2> HIDE DEF m, v
  <2> QED
    BY <1>1, <1>3, <1>4, <1>5
<1>8. Divides(p, c)
  BY <1>0, LevelDivides DEF j
<1>9. PICK a \in Nat : c = p * a
  BY <1>8 DEF Divides
<1> DEFINE i == a - d * q
<1>10. r = p * i
  <2> HIDE DEF p, v
  <2>1. m * q = p * (d * q)
    BY <1>1
  <2> QED
    BY <1>1, <1>4, <1>9, <2>1
<1>11. i \in 1..(d - 1)
  <2> HIDE DEF p, v
  <2>1. i \in Int
    BY <1>1
  <2> HIDE DEF i
  <2>2. p * i >= 1 /\ p * i < p * d
    BY <1>1, <1>4, <1>6, <1>10
  <2>3. i >= 1
    BY <1>1, <2>1, <2>2
  <2>4. i < d
    BY <1>1, <2>1, <2>2
  <2> QED
    BY <2>1, <2>3, <2>4
<1> HIDE DEF i, v
<1>12. c = At(v, d, j, i)
  BY <1>7, <1>10 DEF At
<1>13. v \in 0..(c - 1)
  BY <1>4, <1>6, <1>7
<1>14. Divides(Power(d, j + 1), v)
  BY <1>1, <1>7 DEF Divides
<1>15. ASSUME NEW h \in 0..j PROVE ~Stops(v, d, n, h)
  <2>1. h \in Nat /\ h + 1 \in Nat /\ h + 1 <= j + 1 /\ h <= j
    BY <1>0
  <2>2. Power(d, h) < n
    <3>1. CASE h = j
      BY <1>3, <3>1
    <3>2. CASE h < j
      <4>1. Power(d, h) < Power(d, j) /\ Power(d, h) \in Nat
        BY <1>0, <2>1, <3>2, PowerGrows, PowerStep
      <4> QED
        BY <1>1, <1>3, <4>1
    <3> QED
      BY <1>0, <2>1, <3>1, <3>2
  <2>3. Power(d, h + 1) \in Nat \ {0} /\ Power(d, h) \in Nat
    BY <1>0, <2>1, PowerStep
  <2>4. Divides(Power(d, h + 1), v)
    BY <1>0, <1>7, <1>14, <2>1, DividesLower
  <2>5. v % Power(d, h + 1) = 0
    BY <1>7, <2>3, <2>4, ModIsZero
  <2> QED
    BY <2>2, <2>3, <2>5 DEF Stops
<1>16. Level(v, d, n) \in 0..n /\ Stops(v, d, n, Level(v, d, n))
  BY <1>7, LevelFacts
<1>17. j \in 0..(Level(v, d, n) - 1)
  BY <1>0, <1>15, <1>16
<1> QED
  BY <1>11, <1>12, <1>13, <1>17 DEF v

-----------------------------------------------------------------------------
(* The iterator *)

\* Its steps: the left-most scan goes from the highest level down and through
\* the digits upwards, the right-most scan the other way round.
StepsOf(v, d, n) == 0..(Level(v, d, n) - 1)
LevelAt(v, d, n, left, s) == IF left THEN Level(v, d, n) - 1 - s ELSE s
DigitAt(d, left, x) == IF left THEN x ELSE d - x
ScanAt(v, d, n, left, s, x) == At(v, d, LevelAt(v, d, n, left, s), DigitAt(d, left, x))

\* The value of subsize in step s.
SubsizeAt(v, d, n, left, s) == Power(d, IF left THEN Level(v, d, n) - s ELSE s)

Earlier(s, x, t, y) == s < t \/ (s = t /\ x < y)

\* The rank c is looked at before the digit x of step s.
Seen(v, d, n, left, s, x, c) ==
  \E t \in StepsOf(v, d, n), y \in 1..(d - 1) :
    Earlier(t, y, s, x) /\ c = ScanAt(v, d, n, left, t, y)

\* The scan meets the rank a before the rank b.
MetBefore(v, d, n, left, a, b) ==
  \E s, t \in StepsOf(v, d, n), x, y \in 1..(d - 1) :
    /\ Earlier(s, x, t, y)
    /\ a = ScanAt(v, d, n, left, s, x) /\ b = ScanAt(v, d, n, left, t, y)

\* The children in g are those the scan met before the digit x of step s.
Collected(v, d, n, left, g, s, x) ==
  /\ \A h \in 1..Len(g) : g[h] < n /\ Seen(v, d, n, left, s, x, g[h])
  /\ \A t \in StepsOf(v, d, n), y \in 1..(d - 1) :
       Earlier(t, y, s, x) /\ ScanAt(v, d, n, left, t, y) < n =>
         \E h \in 1..Len(g) : g[h] = ScanAt(v, d, n, left, t, y)
  /\ \A h, i \in 1..Len(g) : h < i => MetBefore(v, d, n, left, g[h], g[i])

Params(v, d, n, left) ==
  d \in Nat /\ d >= 2 /\ n \in Nat /\ n >= 2 /\ v \in 0..(n - 1) /\ left \in BOOLEAN

\* Every step looks at a level and a digit a child may have.
LEMMA ScanFacts ==
  ASSUME NEW v, NEW d, NEW n, NEW left, Params(v, d, n, left),
         NEW s \in StepsOf(v, d, n), NEW x \in 1..(d - 1)
  PROVE  /\ Level(v, d, n) \in 0..n
         /\ s \in 0..(Level(v, d, n) - 1) /\ s \in Nat
         /\ LevelAt(v, d, n, left, s) \in 0..(Level(v, d, n) - 1)
         /\ LevelAt(v, d, n, left, s) \in Nat
         /\ DigitAt(d, left, x) \in 1..(d - 1)
         /\ ScanAt(v, d, n, left, s, x) \in Nat
<1>1. d \in Nat /\ d \in Nat \ {0} /\ d >= 2 /\ n \in Nat /\ n >= 2 /\ v \in Nat /\ left \in BOOLEAN
  BY DEF Params
<1>2. Level(v, d, n) \in 0..n
  BY <1>1, LevelFacts
<1>3. s \in 0..(Level(v, d, n) - 1) /\ s \in Nat
  BY <1>2 DEF StepsOf
<1>4. LevelAt(v, d, n, left, s) \in 0..(Level(v, d, n) - 1) /\ LevelAt(v, d, n, left, s) \in Nat
  BY <1>2, <1>3 DEF LevelAt
<1>5. DigitAt(d, left, x) \in 1..(d - 1)
  BY <1>1 DEF DigitAt
<1>6. Power(d, LevelAt(v, d, n, left, s)) \in Nat
  BY <1>1, <1>4, PowerStep
<1>7. ScanAt(v, d, n, left, s, x) \in Nat
  BY <1>1, <1>5, <1>6 DEF ScanAt, At
<1> QED
  BY <1>2, <1>3, <1>4, <1>5, <1>7

\* Nothing is collected at the start.
LEMMA CollectedNone ==
  ASSUME NEW v, NEW d, NEW n, NEW left, Params(v, d, n, left)
  PROVE  Collected(v, d, n, left, <<>>, 0, 1)
<1>1. \A t \in StepsOf(v, d, n), y \in 1..(d - 1) : ~Earlier(t, y, 0, 1)
  BY ScanFacts DEF Earlier, StepsOf, Params
<1> QED
  BY <1>1 DEF Collected

\* What is met from one point to the next.
LEMMA SeenNext ==
  ASSUME NEW v, NEW d, NEW n, NEW left, Params(v, d, n, left),
         NEW s \in StepsOf(v, d, n), NEW x \in 1..(d - 1),
         NEW t \in StepsOf(v, d, n), NEW y \in 1..(d - 1)
  PROVE  Earlier(t, y, s, x + 1) <=> Earlier(t, y, s, x) \/ (t = s /\ y = x)
BY ScanFacts DEF Earlier, Params

\* A child is added.
LEMMA CollectedHit ==
  ASSUME NEW v, NEW d, NEW n, NEW left, Params(v, d, n, left),
         NEW s \in StepsOf(v, d, n), NEW x \in 1..(d - 1), NEW g \in Seq(Nat),
         Collected(v, d, n, left, g, s, x), ScanAt(v, d, n, left, s, x) < n
  PROVE  Collected(v, d, n, left, Append(g, ScanAt(v, d, n, left, s, x)), s, x + 1)
<1> DEFINE c == ScanAt(v, d, n, left, s, x)
           f == Append(g, c)
<1>1. c \in Nat /\ c < n
  BY ScanFacts
<1> HIDE DEF c
<1>2. Len(f) = Len(g) + 1 /\ Len(g) \in Nat /\ f[Len(g) + 1] = c /\ \A h \in 1..Len(g) : f[h] = g[h]
  BY <1>1
<1> HIDE DEF f
<1>3. \A e : Seen(v, d, n, left, s, x, e) => Seen(v, d, n, left, s, x + 1, e)
  BY SeenNext DEF Seen
<1>4. Seen(v, d, n, left, s, x + 1, c)
  <2>1. Earlier(s, x, s, x + 1)
    BY SeenNext
  <2> QED
    BY <2>1 DEF Seen, c
<1>5. ASSUME NEW h \in 1..Len(f) PROVE f[h] < n /\ Seen(v, d, n, left, s, x + 1, f[h])
  <2>1. CASE h \in 1..Len(g)
    BY <1>2, <1>3, <2>1 DEF Collected
  <2>2. CASE h = Len(g) + 1
    BY <1>1, <1>2, <1>4, <2>2
  <2> QED
    BY <1>2, <2>1, <2>2
<1>6. ASSUME NEW t \in StepsOf(v, d, n), NEW y \in 1..(d - 1),
             Earlier(t, y, s, x + 1), ScanAt(v, d, n, left, t, y) < n
      PROVE  \E h \in 1..Len(f) : f[h] = ScanAt(v, d, n, left, t, y)
  <2>1. CASE Earlier(t, y, s, x)
    <3>1. PICK h \in 1..Len(g) : g[h] = ScanAt(v, d, n, left, t, y)
      BY <1>6, <2>1 DEF Collected
    <3> QED
      BY <1>2, <3>1
  <2>2. CASE t = s /\ y = x
    <3>1. Len(g) + 1 \in 1..Len(f)
      BY <1>2
    <3> QED
      BY <1>2, <2>2, <3>1 DEF c
  <2> QED
    BY <1>6, <2>1, <2>2, SeenNext
<1>7. ASSUME NEW h \in 1..Len(f), NEW i \in 1..Len(f), h < i
      PROVE  MetBefore(v, d, n, left, f[h], f[i])
  <2>1. h \in 1..Len(g) /\ f[h] = g[h]
    BY <1>2, <1>7
  <2>2. CASE i \in 1..Len(g)
    BY <1>2, <1>7, <2>1, <2>2 DEF Collected
  <2>3. CASE i = Len(g) + 1
    <3>1. Seen(v, d, n, left, s, x, g[h]) /\ f[i] = c
      BY <1>2, <2>1, <2>3 DEF Collected
    <3> QED
      BY <2>1, <3>1 DEF Seen, MetBefore, c
  <2> QED
    BY <1>2, <2>2, <2>3
<1>8. Collected(v, d, n, left, f, s, x + 1)
  BY <1>5, <1>6, <1>7 DEF Collected
<1> QED
  BY <1>8 DEF f, c

\* A rank outside of the group is passed over.
LEMMA CollectedMiss ==
  ASSUME NEW v, NEW d, NEW n, NEW left, Params(v, d, n, left),
         NEW s \in StepsOf(v, d, n), NEW x \in 1..(d - 1), NEW g \in Seq(Nat),
         Collected(v, d, n, left, g, s, x), ScanAt(v, d, n, left, s, x) >= n
  PROVE  Collected(v, d, n, left, g, s, x + 1)
<1>1. \A e : Seen(v, d, n, left, s, x, e) => Seen(v, d, n, left, s, x + 1, e)
  BY SeenNext DEF Seen
<1>2. ASSUME NEW t \in StepsOf(v, d, n), NEW y \in 1..(d - 1),
             Earlier(t, y, s, x + 1), ScanAt(v, d, n, left, t, y) < n
      PROVE  Earlier(t, y, s, x)
  <2>1. ScanAt(v, d, n, left, s, x) \in Nat /\ n \in Nat
    BY ScanFacts DEF Params
  <2>2. ~(t = s /\ y = x)
    BY <1>2, <2>1
  <2> QED
    BY <1>2, <2>2, SeenNext
<1> QED
  BY <1>1, <1>2 DEF Collected

\* The first digit of the next step follows on the last one of a step.
LEMMA CollectedStep ==
  ASSUME NEW v, NEW d, NEW n, NEW left, Params(v, d, n, left),
         NEW s \in StepsOf(v, d, n), NEW g \in Seq(Nat), Collected(v, d, n, left, g, s, d)
  PROVE  Collected(v, d, n, left, g, s + 1, 1)
<1>1. ASSUME NEW t \in StepsOf(v, d, n), NEW y \in 1..(d - 1)
      PROVE  Earlier(t, y, s + 1, 1) <=> Earlier(t, y, s, d)
  <2>1. s \in Nat /\ t \in Nat /\ d \in Nat
    BY ScanFacts DEF Params
  <2> QED
    BY <2>1 DEF Earlier
<1>2. \A e : Seen(v, d, n, left, s + 1, 1, e) <=> Seen(v, d, n, left, s, d, e)
  BY <1>1 DEF Seen
<1> QED
  BY <1>1, <1>2 DEF Collected

\* At the end all children are collected.
LEMMA CollectedAll ==
  ASSUME NEW v, NEW d, NEW n, NEW left, Params(v, d, n, left),
         NEW g \in Seq(Nat), NEW x, Collected(v, d, n, left, g, Level(v, d, n), x)
  PROVE  {g[h] : h \in 1..Len(g)} = KnChildren(v, d, n)
<1>0. d \in Nat /\ d >= 2 /\ n \in Nat /\ n >= 2 /\ v \in 0..(n - 1) /\ v \in Nat /\ left \in BOOLEAN
  BY DEF Params
<1>1. Level(v, d, n) \in 0..n
  BY <1>0, LevelFacts
<1>2. ASSUME NEW h \in 1..Len(g) PROVE g[h] \in KnChildren(v, d, n)
  <2>1. g[h] < n /\ Seen(v, d, n, left, Level(v, d, n), x, g[h])
    BY DEF Collected
  <2>2. PICK t \in StepsOf(v, d, n), y \in 1..(d - 1) : g[h] = ScanAt(v, d, n, left, t, y)
    BY <2>1 DEF Seen
  <2>3. /\ LevelAt(v, d, n, left, t) \in 0..(Level(v, d, n) - 1)
        /\ DigitAt(d, left, y) \in 1..(d - 1)
    BY ScanFacts
  <2> QED
    BY <1>0, <2>1, <2>2, <2>3, ChildIsAt DEF ScanAt
<1>3. ASSUME NEW c \in KnChildren(v, d, n) PROVE \E h \in 1..Len(g) : g[h] = c
  <2>1. c \in 0..(n - 1) /\ ParentOf(c, d, n) = v /\ v # INVALID_RANK
    BY <1>0 DEF KnChildren, INVALID_RANK
  <2>2. PICK j \in 0..(Level(v, d, n) - 1), i \in 1..(d - 1) : c = At(v, d, j, i)
    BY <1>0, <2>1, ChildHasDigit
  <2> DEFINE t == IF left THEN Level(v, d, n) - 1 - j ELSE j
             y == IF left THEN i ELSE d - i
  <2>3. t \in StepsOf(v, d, n) /\ LevelAt(v, d, n, left, t) = j /\ t < Level(v, d, n)
    BY <1>1 DEF StepsOf, LevelAt
  <2>4. y \in 1..(d - 1) /\ DigitAt(d, left, y) = i
    BY <1>0 DEF DigitAt
  <2> HIDE DEF t, y
  <2>5. c = ScanAt(v, d, n, left, t, y) /\ Earlier(t, y, Level(v, d, n), x) /\ c < n
    BY <1>0, <2>1, <2>2, <2>3, <2>4 DEF ScanAt, Earlier
  <2> QED
    BY <2>3, <2>4, <2>5 DEF Collected
<1> QED
  BY <1>2, <1>3

\* The level at which c lies below v.
StrideLevel(c, v, d, n) ==
  CHOOSE h \in 0..n : /\ (c - v) % Power(d, h) = 0
                     /\ (c - v) % Power(d, h + 1) # 0

\* A child at level j lies at a distance the highest power in which is the j-th.
LEMMA StrideIs ==
  ASSUME NEW v, NEW d, NEW n, NEW left, Params(v, d, n, left),
         NEW j \in 0..(Level(v, d, n) - 1), NEW i \in 1..(d - 1)
  PROVE  StrideLevel(At(v, d, j, i), v, d, n) = j
<1>0. d \in Nat /\ d \in Nat \ {0} /\ d >= 2 /\ n \in Nat /\ n >= 2 /\ v \in Nat
  BY DEF Params
<1>1. j \in 0..n /\ j \in Nat
  <2>1. Level(v, d, n) \in 0..n
    BY <1>0, LevelFacts
  <2> QED
    BY <1>0, <2>1
<1> DEFINE x == Power(d, j) * i
           c == At(v, d, j, i)
           e == StrideLevel(c, v, d, n)
<1>2. c - v = x /\ x \in Nat
  <2>1. Power(d, j) \in Nat
    BY <1>0, <1>1, PowerStep
  <2> QED
    BY <1>0, <2>1 DEF At
<1>3. Divides(Power(d, j), x) /\ ~Divides(Power(d, j + 1), x)
  <2>1. Divides(Power(d, j + 1), 0)
    <3>1. Power(d, j + 1) \in Nat
      BY <1>0, <1>1, PowerStep
    <3>2. 0 = Power(d, j + 1) * 0
      BY <3>1
    <3> QED
      BY <3>2 DEF Divides
  <2>2. 0 + x = x
    BY <1>2
  <2>3. Divides(Power(d, j), 0 + x) /\ ~Divides(Power(d, j + 1), 0 + x)
    BY <1>0, <1>1, <2>1, DigitFacts
  <2> QED
    BY <2>2, <2>3
<1> HIDE DEF x
<1>4. ASSUME NEW h \in 0..n
      PROVE  /\ (c - v) % Power(d, h) = 0 <=> Divides(Power(d, h), x)
             /\ (c - v) % Power(d, h + 1) = 0 <=> Divides(Power(d, h + 1), x)
  <2>1. h \in Nat
    BY <1>0
  <2>2. Power(d, h) \in Nat \ {0} /\ Power(d, h + 1) \in Nat \ {0}
    BY <1>0, <2>1, PowerStep
  <2> QED
    BY <1>2, <2>2, ModIsZero
<1> HIDE DEF c
<1>5. e \in 0..n /\ Divides(Power(d, e), x) /\ ~Divides(Power(d, e + 1), x)
  <2>1. e \in 0..n /\ (c - v) % Power(d, e) = 0 /\ (c - v) % Power(d, e + 1) # 0
    BY <1>1, <1>3, <1>4 DEF StrideLevel
  <2> HIDE DEF e
  <2> QED
    BY <1>4, <2>1
<1> HIDE DEF e
<1>6. e \in Nat
  BY <1>0, <1>5
<1>7. e = j
  BY <1>0, <1>1, <1>5, <1>6, DigitPosition DEF x
<1> QED
  BY <1>7 DEF e, c

\* The order of the scan: from great strides to small ones and from small
\* children to great ones, or the opposite.
LEMMA ScanOrder ==
  ASSUME NEW v, NEW d, NEW n, NEW left, Params(v, d, n, left), NEW a, NEW b,
         MetBefore(v, d, n, left, a, b)
  PROVE  \E j, k \in 0..(Level(v, d, n) - 1), i, h \in 1..(d - 1) :
           /\ a = At(v, d, j, i) /\ b = At(v, d, k, h)
           /\ IF left THEN Power(d, j) > Power(d, k) \/ (j = k /\ a < b)
              ELSE Power(d, k) > Power(d, j) \/ (j = k /\ b < a)
<1>0. d \in Nat /\ d \in Nat \ {0} /\ d >= 2 /\ n \in Nat /\ n >= 2 /\ v \in Nat /\ left \in BOOLEAN
  BY DEF Params
<1>1. PICK s \in StepsOf(v, d, n), t \in StepsOf(v, d, n), x \in 1..(d - 1), y \in 1..(d - 1) :
        /\ Earlier(s, x, t, y)
        /\ a = ScanAt(v, d, n, left, s, x) /\ b = ScanAt(v, d, n, left, t, y)
  BY DEF MetBefore
<1> DEFINE j == LevelAt(v, d, n, left, s)
           k == LevelAt(v, d, n, left, t)
           i == DigitAt(d, left, x)
           h == DigitAt(d, left, y)
           l == Level(v, d, n)
<1>2. /\ j \in 0..(l - 1) /\ k \in 0..(l - 1) /\ i \in 1..(d - 1) /\ h \in 1..(d - 1)
      /\ j \in Nat /\ k \in Nat /\ s \in Nat /\ t \in Nat /\ l \in 0..n
  BY ScanFacts
<1>3. a = At(v, d, j, i) /\ b = At(v, d, k, h)
  BY <1>1 DEF ScanAt
<1>4. IF left THEN k < j \/ (j = k /\ i < h) ELSE j < k \/ (j = k /\ h < i)
  BY <1>0, <1>1, <1>2 DEF Earlier, LevelAt, DigitAt
<1> HIDE DEF j, k, i, h, l
<1>5. k < j => Power(d, j) > Power(d, k)
  <2>1. Power(d, j) \in Nat /\ Power(d, k) \in Nat
    BY <1>0, <1>2, PowerStep
  <2> QED
    BY <1>0, <1>2, <2>1, PowerGrows
<1>6. j < k => Power(d, k) > Power(d, j)
  <2>1. Power(d, j) \in Nat /\ Power(d, k) \in Nat
    BY <1>0, <1>2, PowerStep
  <2> QED
    BY <1>0, <1>2, <2>1, PowerGrows
<1>7. ASSUME NEW p \in 1..(d - 1), NEW q \in 1..(d - 1), p < q
      PROVE  At(v, d, j, p) < At(v, d, j, q)
  <2>1. Power(d, j) \in Nat \ {0}
    BY <1>0, <1>2, PowerStep
  <2> DEFINE w == Power(d, j)
  <2> HIDE DEF w
  <2>2. w * p < w * q
    <3>1. w \in Nat \ {0} /\ q - p \in Nat \ {0} /\ p \in Nat /\ q \in Nat
      BY <1>0, <1>7, <2>1 DEF w
    <3>2. w * (q - p) >= 1
      BY <3>1
    <3>3. w * (q - p) = w * q - w * p
      BY <3>1
    <3> QED
      BY <3>1, <3>2, <3>3
  <2>3. w * p \in Nat /\ w * q \in Nat
    BY <1>0, <2>1 DEF w
  <2> QED
    BY <1>0, <2>2, <2>3 DEF At, w
<1>8. j = k /\ i < h => a < b
  BY <1>2, <1>3, <1>7
<1>9. j = k /\ h < i => b < a
  BY <1>2, <1>3, <1>7
<1>10. IF left THEN Power(d, j) > Power(d, k) \/ (j = k /\ a < b)
       ELSE Power(d, k) > Power(d, j) \/ (j = k /\ b < a)
  BY <1>0, <1>4, <1>5, <1>6, <1>8, <1>9
<1> QED
  BY <1>2, <1>3, <1>10 DEF l

\* Ranks the scan meets one after the other are different ranks.
LEMMA MetIsDistinct ==
  ASSUME NEW v, NEW d, NEW n, NEW left, Params(v, d, n, left), NEW a, NEW b,
         MetBefore(v, d, n, left, a, b)
  PROVE  a # b
<1>0. d \in Nat /\ d \in Nat \ {0} /\ d >= 2 /\ n \in Nat /\ n >= 2 /\ v \in Nat /\ left \in BOOLEAN
  BY DEF Params
<1>1. PICK j \in 0..(Level(v, d, n) - 1), k \in 0..(Level(v, d, n) - 1),
           i \in 1..(d - 1), h \in 1..(d - 1) :
        /\ a = At(v, d, j, i) /\ b = At(v, d, k, h)
        /\ IF left THEN Power(d, j) > Power(d, k) \/ (j = k /\ a < b)
           ELSE Power(d, k) > Power(d, j) \/ (j = k /\ b < a)
  BY ScanOrder
<1>2. SUFFICES ASSUME a = b PROVE FALSE
  OBVIOUS
<1>3. j = k
  <2>1. StrideLevel(At(v, d, j, i), v, d, n) = j
    BY StrideIs
  <2>2. StrideLevel(At(v, d, k, h), v, d, n) = k
    BY StrideIs
  <2> QED
    BY <1>1, <1>2, <2>1, <2>2
<1>4. Power(d, j) \in Nat /\ a \in Nat
  <2>1. Level(v, d, n) \in 0..n
    BY <1>0, LevelFacts
  <2>2. j \in Nat
    BY <2>1
  <2>3. Power(d, j) \in Nat
    BY <1>0, <2>2, PowerStep
  <2> QED
    BY <1>0, <1>1, <2>3 DEF At
<1> QED
  BY <1>0, <1>1, <1>2, <1>3, <1>4

\* A sequence without repetitions has as many entries as elements.
LEMMA DistinctLength ==
  ASSUME NEW g \in Seq(Nat), \A h, i \in 1..Len(g) : h < i => g[h] # g[i]
  PROVE  Cardinality({g[h] : h \in 1..Len(g)}) = Len(g)
<1> DEFINE S == 1..Len(g)
           T == {g[h] : h \in 1..Len(g)}
           f == [h \in S |-> g[h]]
<1>1. Len(g) \in Nat
  OBVIOUS
<1>2. f \in Bijection(S, T)
  <2>1. f \in [S -> T]
    OBVIOUS
  <2>2. ASSUME NEW h \in S, NEW i \in S, f[h] = f[i] PROVE h = i
    BY <1>1, <2>2
  <2>3. \A y \in T : \E h \in S : f[h] = y
    OBVIOUS
  <2> HIDE DEF S, T, f
  <2> QED
    BY <2>1, <2>2, <2>3 DEF Bijection, Injection, Surjection, IsInjective
<1>3. ExistsBijection(S, T)
  BY <1>2 DEF ExistsBijection
<1>4. IsFiniteSet(S) /\ Cardinality(S) = Len(g)
  <2>1. 1 \in Int /\ Len(g) \in Int
    BY <1>1
  <2>2. /\ IsFiniteSet(1..Len(g))
        /\ Cardinality(1..Len(g)) = IF 1 > Len(g) THEN 0 ELSE Len(g) - 1 + 1
    BY <2>1, FS_Interval
  <2> QED
    BY <1>1, <2>2
<1> HIDE DEF S, T, f
<1>5. Cardinality(T) = Cardinality(S)
  BY <1>3, <1>4, FS_Bijection
<1> QED
  BY <1>4, <1>5 DEF T

-----------------------------------------------------------------------------
(* The inductive invariant *)

ConfigInv ==
  /\ size \in Nat \ {0} /\ degree \in Nat \ {0}
  /\ size >= 2 => degree >= 2
  /\ size = 1 => degree \in {1, 2}
  /\ myrank \in 0..(size - 1) /\ leftmost \in BOOLEAN
  /\ max_subsize = MaxSubsize(myrank, degree, size)

\* The iterator stands at the digit child_idx of step s, and has returned the
\* children before it, or the one it stands at as well.
StandsAt(s) ==
  /\ subsize = SubsizeAt(myrank, degree, size, leftmost, s)
  /\ child_idx \in 1..degree
  /\ pc = "child" => s < Level(myrank, degree, size) /\ child_idx < degree
  /\ pc = "end" => s = Level(myrank, degree, size)
  /\ Collected(myrank, degree, size, leftmost, got, s,
               IF pc = "child" THEN child_idx + 1 ELSE child_idx)

IInv ==
  /\ ConfigInv
  /\ pc \in {"scan", "child", "end"}
  /\ got \in Seq(Nat)
  /\ IF size = 1
     THEN got = <<>> /\ subsize = 1 /\ child_idx = 1 /\ pc # "child"
     ELSE \E s \in 0..Level(myrank, degree, size) : StandsAt(s)

LEMMA ConfigParams ==
  ASSUME ConfigInv, size # 1
  PROVE  Params(myrank, degree, size, leftmost)
BY DEF ConfigInv, Params

\* What subsize means in the step the iterator stands at.
LEMMA StepFacts ==
  ASSUME ConfigInv, size # 1, NEW s \in 0..Level(myrank, degree, size),
         subsize = SubsizeAt(myrank, degree, size, leftmost, s)
  PROVE  /\ SubtreesLeft <=> s < Level(myrank, degree, size)
         /\ s < Level(myrank, degree, size) =>
              /\ s \in StepsOf(myrank, degree, size)
              /\ s + 1 \in 0..Level(myrank, degree, size)
              /\ child_idx \in Nat =>
                   Candidate = ScanAt(myrank, degree, size, leftmost, s, child_idx)
              /\ (IF leftmost THEN subsize \div degree ELSE subsize * degree)
                   = SubsizeAt(myrank, degree, size, leftmost, s + 1)
<1> DEFINE l == Level(myrank, degree, size)
<1>0. /\ degree \in Nat /\ degree \in Nat \ {0} /\ degree >= 2 /\ size \in Nat /\ size >= 2
      /\ myrank \in Nat /\ leftmost \in BOOLEAN
  BY DEF ConfigInv
<1>1. l \in 0..size /\ l \in Nat /\ max_subsize = Power(degree, l)
  <2>1. l \in 0..size /\ MaxSubsize(myrank, degree, size) = Power(degree, l)
    BY <1>0, LevelFacts
  <2> QED
    BY <1>0, <2>1 DEF ConfigInv
<1>2. s \in Nat /\ s <= l /\ l - s \in Nat
  BY <1>1
<1> HIDE DEF l
<1>3. ASSUME NEW k \in Nat
      PROVE  /\ Power(degree, k) \in Nat \ {0}
             /\ Power(degree, k + 1) = degree * Power(degree, k)
             /\ Power(degree, k + 1) \div degree = Power(degree, k)
  <2>1. Power(degree, k) \in Nat \ {0} /\ Power(degree, k + 1) = degree * Power(degree, k)
    BY <1>0, PowerStep
  <2> DEFINE p == Power(degree, k)
  <2> HIDE DEF p
  <2>2. degree * p + 0 = degree * p /\ 0 \in 0..(degree - 1) /\ p \in Nat
    BY <1>0, <2>1 DEF p
  <2>3. (degree * p) \div degree = p
    BY <1>0, <2>2, DivMod
  <2> QED
    BY <2>1, <2>3 DEF p
<1>4. CASE leftmost
  <2>1. subsize = Power(degree, l - s)
    BY <1>4 DEF SubsizeAt, l
  <2>2. CASE s = l
    <3>1. subsize = 1
      BY <1>0, <1>1, <2>1, <2>2, PowerFacts
    <3>2. 1 \div degree = 0
      <4>1. degree * 0 + 1 = 1 /\ 1 \in 0..(degree - 1)
        BY <1>0
      <4> QED
        BY <1>0, <4>1, DivMod
    <3>3. ~SubtreesLeft
      <4>1. SubtreesLeft <=> subsize \div degree > 0
        BY ONLY <1>4 DEF SubtreesLeft
      <4>2. subsize \div degree = 0
        BY ONLY <3>1, <3>2
      <4> QED
        BY ONLY <4>1, <4>2
    <3> QED
      BY <1>1, <2>2, <3>3 DEF l
  <2>3. CASE s < l
    <3> DEFINE k == l - 1 - s
    <3>1. k \in Nat /\ k + 1 = l - s /\ l - (s + 1) = k /\ s + 1 \in 0..l
      BY <1>1, <1>2, <2>3
    <3> HIDE DEF k
    <3>2. subsize \div degree = Power(degree, k) /\ Power(degree, k) \in Nat \ {0}
      BY <1>3, <2>1, <3>1
    <3> DEFINE q == subsize \div degree
    <3>3. SubtreesLeft <=> q > 0
      BY ONLY <1>4 DEF SubtreesLeft
    <3>6. SubtreesLeft
      <4> HIDE DEF q
      <4>1. q \in Nat \ {0}
        BY ONLY <3>2 DEF q
      <4> QED
        BY ONLY <3>3, <4>1
    <3>4. (subsize \div degree) = SubsizeAt(myrank, degree, size, leftmost, s + 1)
      BY <1>4, <3>1, <3>2 DEF SubsizeAt, l
    <3>5. Candidate = ScanAt(myrank, degree, size, leftmost, s, child_idx)
      BY <1>4, <3>2 DEF Candidate, ScanAt, At, LevelAt, DigitAt, k, l
    <3>7. s \in StepsOf(myrank, degree, size)
      BY <1>1, <1>2, <2>3 DEF StepsOf, l
    <3> QED
      BY ONLY <1>4, <2>3, <3>1, <3>4, <3>5, <3>6, <3>7 DEF l
  <2> QED
    BY <1>1, <1>2, <2>2, <2>3
<1>5. CASE ~leftmost
  <2>1. subsize = Power(degree, s)
    BY <1>5 DEF SubsizeAt
  <2>2. CASE s = l
    <3>1. ~(Power(degree, l) < Power(degree, l))
      BY <1>1, <1>3
    <3> QED
      BY <1>1, <1>5, <2>1, <2>2, <3>1 DEF SubtreesLeft, l
  <2>3. CASE s < l
    <3>1. subsize < max_subsize
      BY <1>0, <1>1, <1>2, <2>1, <2>3, PowerGrows
    <3>2. s + 1 \in 0..l
      BY <1>1, <1>2, <2>3
    <3>3. subsize * degree = SubsizeAt(myrank, degree, size, leftmost, s + 1)
      <4>1. Power(degree, s) \in Nat /\ Power(degree, s + 1) = degree * Power(degree, s)
        BY <1>2, <1>3
      <4>2. Power(degree, s) * degree = degree * Power(degree, s)
        BY <1>0, <4>1
      <4> QED
        BY <1>5, <2>1, <4>1, <4>2 DEF SubsizeAt
    <3>4. Candidate = ScanAt(myrank, degree, size, leftmost, s, child_idx)
      BY <1>5, <2>1 DEF Candidate, ScanAt, At, LevelAt, DigitAt
    <3> QED
      BY <1>1, <1>2, <1>5, <2>3, <3>1, <3>2, <3>3, <3>4 DEF SubtreesLeft, StepsOf, l
  <2> QED
    BY <1>1, <1>2, <2>2, <2>3
<1> QED
  BY <1>0, <1>4, <1>5

\* The iterator starts, or starts again, at the first step.
LEMMA StartStands ==
  ASSUME ConfigInv, size # 1
  PROVE  /\ (IF leftmost THEN max_subsize ELSE 1) = SubsizeAt(myrank, degree, size, leftmost, 0)
         /\ Collected(myrank, degree, size, leftmost, <<>>, 0, 1)
         /\ 0 \in 0..Level(myrank, degree, size)
         /\ 1 \in 1..degree
<1>0. /\ degree \in Nat /\ degree \in Nat \ {0} /\ degree >= 2 /\ size \in Nat /\ size >= 2
      /\ myrank \in Nat /\ leftmost \in BOOLEAN
  BY DEF ConfigInv
<1>1. /\ Level(myrank, degree, size) \in 0..size
      /\ max_subsize = Power(degree, Level(myrank, degree, size))
  <2>1. /\ Level(myrank, degree, size) \in 0..size
        /\ MaxSubsize(myrank, degree, size) = Power(degree, Level(myrank, degree, size))
    BY <1>0, LevelFacts
  <2> QED
    BY <2>1 DEF ConfigInv
<1>2. Level(myrank, degree, size) - 0 = Level(myrank, degree, size) /\ Power(degree, 0) = 1
  BY <1>0, <1>1, PowerFacts
<1>3. Collected(myrank, degree, size, leftmost, <<>>, 0, 1)
  BY ConfigParams, CollectedNone
<1> QED
  BY <1>0, <1>1, <1>2, <1>3 DEF SubsizeAt

\* The configuration ucg_algo_kntree_iter_init sets up.
LEMMA InitConfig == Init => ConfigInv
<1> SUFFICES ASSUME Init PROVE ConfigInv
  OBVIOUS
<1>1. size \in Nat \ {0}
  BY SizesAssumption DEF Init
<1>2. PICK d \in Degrees : degree = AdjustDegree(d, size)
  BY DEF Init
<1>3. degree \in Nat \ {0} /\ (size >= 2 => degree >= 2) /\ (size = 1 => degree \in {1, 2})
  BY <1>1, <1>2, SizesAssumption DEF AdjustDegree
<1>4. PICK r \in 0..(size - 1) : myrank = (r - root + size) % size
  BY DEF Init
<1>5. myrank \in 0..(size - 1)
  <2>1. r - root + size \in Nat
    BY <1>1 DEF Init
  <2> QED
    BY <1>1, <1>4, <2>1
<1> QED
  BY <1>1, <1>3, <1>5 DEF Init, ConfigInv

\* The invariant holds at first.
LEMMA InitIInv == Init => IInv
<1> SUFFICES ASSUME Init PROVE IInv
  OBVIOUS
<1>1. ConfigInv
  BY InitConfig
<1>2. /\ subsize = IF leftmost THEN max_subsize ELSE 1
      /\ child_idx = 1 /\ pc = "scan" /\ got = <<>>
  BY DEF Init
<1>3. CASE size = 1
  <2>1. max_subsize = 1
    BY <1>1, <1>3 DEF ConfigInv, MaxSubsize
  <2> QED
    BY <1>1, <1>2, <1>3, <2>1 DEF IInv
<1>4. CASE size # 1
  <2>1. StandsAt(0) /\ 0 \in 0..Level(myrank, degree, size)
    BY <1>1, <1>2, <1>4, StartStands DEF StandsAt
  <2> QED
    BY <1>1, <1>2, <1>4, <2>1 DEF IInv
<1> QED
  BY <1>3, <1>4

\* With one member there are no children.
LEMMA AloneFacts ==
  ASSUME IInv, size = 1
  PROVE  /\ got = <<>> /\ subsize = 1 /\ child_idx = 1 /\ pc \in {"scan", "end"}
         /\ max_subsize = 1 /\ degree \in {1, 2} /\ ConfigInv
         /\ SubtreesLeft => leftmost /\ degree = 1
BY DEF IInv, ConfigInv, MaxSubsize, SubtreesLeft

\* The position of a group of several.
LEMMA StandsSomewhere ==
  ASSUME IInv, size # 1
  PROVE  /\ ConfigInv /\ Params(myrank, degree, size, leftmost) /\ got \in Seq(Nat)
         /\ degree \in Nat /\ degree >= 2
         /\ \E s \in 0..Level(myrank, degree, size) : StandsAt(s)
BY ConfigParams DEF IInv, Params

LEMMA ConfigKept ==
  ASSUME ConfigInv, UNCHANGED config
  PROVE  ConfigInv'
BY DEF ConfigInv, config

LEMMA ScanHitIInv == ASSUME IInv, ScanHit PROVE IInv'
<1>1. UNCHANGED config /\ ConfigInv'
  BY ConfigKept DEF ScanHit, IInv
<1>2. /\ size' = size /\ degree' = degree /\ leftmost' = leftmost /\ myrank' = myrank
      /\ subsize' = subsize /\ child_idx' = child_idx /\ pc' = "child"
      /\ got' = Append(got, Candidate)
  BY DEF ScanHit, config
<1>3. pc = "scan" /\ SubtreesLeft /\ child_idx < degree /\ Candidate < size
  BY DEF ScanHit
<1>4. CASE size = 1
  BY <1>3, <1>4, AloneFacts
<1>5. CASE size # 1
  <2>1. PICK s \in 0..Level(myrank, degree, size) : StandsAt(s)
    BY <1>5, StandsSomewhere
  <2>2. /\ s < Level(myrank, degree, size) /\ s \in StepsOf(myrank, degree, size)
        /\ Candidate = ScanAt(myrank, degree, size, leftmost, s, child_idx)
    BY <1>3, <1>5, <2>1, StepFacts, StandsSomewhere DEF StandsAt
  <2>3. child_idx \in 1..(degree - 1)
    BY <1>3, <1>5, <2>1, StandsSomewhere DEF StandsAt
  <2>4. Collected(myrank, degree, size, leftmost, got, s, child_idx)
    BY <1>3, <2>1 DEF StandsAt
  <2>5. Collected(myrank, degree, size, leftmost, got', s, child_idx + 1)
    BY <1>2, <1>3, <1>5, <2>2, <2>3, <2>4, CollectedHit, StandsSomewhere
  <2>6. got' \in Seq(Nat)
    BY <1>2, <1>5, <2>2, <2>3, ScanFacts, StandsSomewhere
  <2>7. StandsAt(s)'
    BY <1>2, <1>3, <2>1, <2>2, <2>5 DEF StandsAt
  <2>8. \E t \in 0..Level(myrank', degree', size') : StandsAt(t)'
    BY <1>2, <2>7
  <2> QED
    BY <1>1, <1>2, <1>5, <2>6, <2>8 DEF IInv
<1> QED
  BY <1>4, <1>5

LEMMA ScanMissIInv == ASSUME IInv, ScanMiss PROVE IInv'
<1>1. UNCHANGED config /\ ConfigInv'
  BY ConfigKept DEF ScanMiss, IInv
<1>2. /\ size' = size /\ degree' = degree /\ leftmost' = leftmost /\ myrank' = myrank
      /\ subsize' = subsize /\ child_idx' = child_idx + 1 /\ pc' = pc /\ got' = got
  BY DEF ScanMiss, config
<1>3. pc = "scan" /\ SubtreesLeft /\ child_idx < degree /\ Candidate >= size
  BY DEF ScanMiss
<1>4. CASE size = 1
  BY <1>3, <1>4, AloneFacts
<1>5. CASE size # 1
  <2>1. PICK s \in 0..Level(myrank, degree, size) : StandsAt(s)
    BY <1>5, StandsSomewhere
  <2>2. /\ s < Level(myrank, degree, size) /\ s \in StepsOf(myrank, degree, size)
        /\ Candidate = ScanAt(myrank, degree, size, leftmost, s, child_idx)
    BY <1>3, <1>5, <2>1, StepFacts, StandsSomewhere DEF StandsAt
  <2>3. child_idx \in 1..(degree - 1) /\ child_idx + 1 \in 1..degree
    BY <1>3, <1>5, <2>1, StandsSomewhere DEF StandsAt
  <2>4. Collected(myrank, degree, size, leftmost, got, s, child_idx)
    BY <1>3, <2>1 DEF StandsAt
  <2>5. Collected(myrank, degree, size, leftmost, got, s, child_idx + 1)
    BY <1>3, <1>5, <2>2, <2>3, <2>4, CollectedMiss, StandsSomewhere
  <2>6. StandsAt(s)'
    BY <1>2, <1>3, <2>1, <2>2, <2>3, <2>5 DEF StandsAt
  <2>7. \E t \in 0..Level(myrank', degree', size') : StandsAt(t)'
    BY <1>2, <2>6
  <2> QED
    BY <1>1, <1>2, <1>3, <1>5, <2>7, StandsSomewhere DEF IInv
<1> QED
  BY <1>4, <1>5

LEMMA ScanSubtreeIInv == ASSUME IInv, ScanSubtree PROVE IInv'
<1>1. UNCHANGED config /\ ConfigInv'
  BY ConfigKept DEF ScanSubtree, IInv
<1>2. /\ size' = size /\ degree' = degree /\ leftmost' = leftmost /\ myrank' = myrank
      /\ subsize' = (IF leftmost THEN subsize \div degree ELSE subsize * degree)
      /\ child_idx' = 1 /\ pc' = pc /\ got' = got
  BY DEF ScanSubtree, config
<1>3. pc = "scan" /\ SubtreesLeft /\ child_idx >= degree
  BY DEF ScanSubtree
<1>4. CASE size = 1
  <2>1. leftmost /\ degree = 1 /\ subsize = 1 /\ pc = "scan" /\ got = <<>>
    BY <1>3, <1>4, AloneFacts
  <2>2. 1 \div 1 = 1
    OBVIOUS
  <2> QED
    BY <1>1, <1>2, <1>4, <2>1, <2>2 DEF IInv
<1>5. CASE size # 1
  <2>1. PICK s \in 0..Level(myrank, degree, size) : StandsAt(s)
    BY <1>5, StandsSomewhere
  <2>2. /\ s < Level(myrank, degree, size) /\ s \in StepsOf(myrank, degree, size)
        /\ s + 1 \in 0..Level(myrank, degree, size)
        /\ subsize' = SubsizeAt(myrank, degree, size, leftmost, s + 1)
    BY <1>2, <1>3, <1>5, <2>1, StepFacts, StandsSomewhere DEF StandsAt
  <2>3. child_idx = degree /\ 1 \in 1..degree
    BY <1>3, <1>5, <2>1, StandsSomewhere DEF StandsAt
  <2>4. Collected(myrank, degree, size, leftmost, got, s, degree)
    BY <1>3, <2>1, <2>3 DEF StandsAt
  <2>5. Collected(myrank, degree, size, leftmost, got, s + 1, 1)
    BY <1>5, <2>2, <2>4, CollectedStep, StandsSomewhere
  <2>6. StandsAt(s + 1)'
    BY <1>2, <1>3, <2>2, <2>3, <2>5 DEF StandsAt
  <2>7. \E t \in 0..Level(myrank', degree', size') : StandsAt(t)'
    BY <1>2, <2>2, <2>6
  <2> QED
    BY <1>1, <1>2, <1>3, <1>5, <2>7, StandsSomewhere DEF IInv
<1> QED
  BY <1>4, <1>5

LEMMA ScanEndIInv == ASSUME IInv, ScanEnd PROVE IInv'
<1>1. UNCHANGED config /\ ConfigInv'
  BY ConfigKept DEF ScanEnd, IInv
<1>2. /\ size' = size /\ degree' = degree /\ leftmost' = leftmost /\ myrank' = myrank
      /\ subsize' = subsize /\ child_idx' = child_idx /\ pc' = "end" /\ got' = got
  BY DEF ScanEnd, config
<1>3. pc = "scan" /\ ~SubtreesLeft
  BY DEF ScanEnd
<1>4. CASE size = 1
  BY <1>1, <1>2, <1>4, AloneFacts DEF IInv
<1>5. CASE size # 1
  <2>1. PICK s \in 0..Level(myrank, degree, size) : StandsAt(s)
    BY <1>5, StandsSomewhere
  <2>2. ~(s < Level(myrank, degree, size))
    BY <1>3, <1>5, <2>1, StepFacts, StandsSomewhere DEF StandsAt
  <2>3. s = Level(myrank, degree, size)
    <3>1. Level(myrank, degree, size) \in Int
      BY <1>5, StandsSomewhere, LevelFacts DEF Params
    <3> QED
      BY <2>2, <3>1
  <2>4. StandsAt(s)'
    BY <1>2, <1>3, <2>1, <2>3 DEF StandsAt
  <2>5. \E t \in 0..Level(myrank', degree', size') : StandsAt(t)'
    BY <1>2, <2>4
  <2> QED
    BY <1>1, <1>2, <1>5, <2>5, StandsSomewhere DEF IInv
<1> QED
  BY <1>4, <1>5

LEMMA ChildIncIInv == ASSUME IInv, ChildInc PROVE IInv'
<1>1. UNCHANGED config /\ ConfigInv'
  BY ConfigKept DEF ChildInc, IInv
<1>2. /\ size' = size /\ degree' = degree /\ leftmost' = leftmost /\ myrank' = myrank
      /\ subsize' = subsize /\ child_idx' = child_idx + 1 /\ pc' = "scan" /\ got' = got
      /\ pc = "child"
  BY DEF ChildInc, config
<1>3. size # 1
  BY <1>2, AloneFacts
<1>4. PICK s \in 0..Level(myrank, degree, size) : StandsAt(s)
  BY <1>3, StandsSomewhere
<1>5. child_idx + 1 \in 1..degree
  BY <1>2, <1>3, <1>4, StandsSomewhere DEF StandsAt
<1>6. StandsAt(s)'
  BY <1>2, <1>4, <1>5 DEF StandsAt
<1>7. \E t \in 0..Level(myrank', degree', size') : StandsAt(t)'
  BY <1>2, <1>6
<1> QED
  BY <1>1, <1>2, <1>3, <1>7, StandsSomewhere DEF IInv

LEMMA ResetIInv == ASSUME IInv, Reset PROVE IInv'
<1>1. UNCHANGED config /\ ConfigInv' /\ ConfigInv
  BY ConfigKept DEF Reset, IInv
<1>2. /\ size' = size /\ degree' = degree /\ leftmost' = leftmost /\ myrank' = myrank
      /\ subsize' = (IF leftmost THEN max_subsize ELSE 1)
      /\ child_idx' = 1 /\ pc' = "scan" /\ got' = <<>>
  BY DEF Reset, config
<1>3. CASE size = 1
  BY <1>1, <1>2, <1>3, AloneFacts DEF IInv
<1>4. CASE size # 1
  <2>1. StandsAt(0)'
    BY <1>1, <1>2, <1>4, StartStands DEF StandsAt
  <2>2. \E t \in 0..Level(myrank', degree', size') : StandsAt(t)'
    BY <1>1, <1>2, <1>4, <2>1, StartStands
  <2> QED
    BY <1>1, <1>2, <1>4, <2>2 DEF IInv
<1> QED
  BY <1>3, <1>4

\* Every step keeps the invariant.
LEMMA NextIInv == IInv /\ [Next]_vars => IInv'
<1> SUFFICES ASSUME IInv, [Next]_vars PROVE IInv'
  OBVIOUS
<1>1. CASE UNCHANGED vars
  <2>1. ConfigInv'
    BY <1>1, ConfigKept DEF IInv, vars
  <2>2. /\ size' = size /\ degree' = degree /\ leftmost' = leftmost /\ myrank' = myrank
        /\ subsize' = subsize /\ child_idx' = child_idx /\ pc' = pc /\ got' = got
    BY <1>1 DEF vars, config
  <2>3. \A s : StandsAt(s)' <=> StandsAt(s)
    BY <2>2 DEF StandsAt
  <2> QED
    BY <2>1, <2>2, <2>3 DEF IInv
<1> QED
  BY <1>1, ScanHitIInv, ScanMissIInv, ScanSubtreeIInv, ScanEndIInv, ChildIncIInv, ResetIInv
     DEF Next

\* The children found so far are those the scan has passed.
THEOREM Invariance == Spec => []IInv
BY InitIInv, NextIInv, PTL DEF Spec

LEMMA IInvMatches == IInv => ChildrenMatchParents
<1> SUFFICES ASSUME IInv, pc = "end"
             PROVE  /\ {got[i] : i \in 1..Len(got)} = ChildrenOf(myrank)
                    /\ Len(got) = Cardinality(ChildrenOf(myrank))
  BY DEF ChildrenMatchParents
<1>1. CASE size = 1
  <2>1. got = <<>> /\ myrank = 0
    BY <1>1, AloneFacts DEF ConfigInv
  <2>2. ParentOf(0, degree, size) # 0
    BY <1>1 DEF ParentOf, MaxSubsize, INVALID_RANK
  <2>3. ChildrenOf(myrank) = {}
    BY <1>1, <2>1, <2>2 DEF ChildrenOf, KnChildren
  <2> QED
    BY <2>1, <2>3, FS_EmptySet
<1>2. CASE size # 1
  <2>1. PICK s \in 0..Level(myrank, degree, size) : StandsAt(s)
    BY <1>2, StandsSomewhere
  <2>2. Collected(myrank, degree, size, leftmost, got, Level(myrank, degree, size), child_idx)
    BY <2>1 DEF StandsAt
  <2>3. {got[i] : i \in 1..Len(got)} = ChildrenOf(myrank)
    BY <1>2, <2>2, CollectedAll, StandsSomewhere DEF ChildrenOf
  <2>4. \A h, i \in 1..Len(got) : h < i => got[h] # got[i]
    BY <1>2, <2>2, MetIsDistinct, StandsSomewhere DEF Collected
  <2>5. Cardinality({got[i] : i \in 1..Len(got)}) = Len(got)
    BY <1>2, <2>4, DistinctLength, StandsSomewhere
  <2> QED
    BY <2>3, <2>5
<1> QED
  BY <1>1, <1>2

LEMMA IInvMirror == IInv => MirrorOrder
<1> SUFFICES ASSUME IInv, NEW i \in 1..Len(got), NEW j \in 1..Len(got), i < j
             PROVE  LET a == IF leftmost THEN got[i] ELSE got[j]
                        b == IF leftmost THEN got[j] ELSE got[i]
                    IN  StrideTo(a) > StrideTo(b) \/ (StrideTo(a) = StrideTo(b) /\ a < b)
  BY DEF MirrorOrder
<1>1. size # 1
  BY AloneFacts
<1>2. PICK s \in 0..Level(myrank, degree, size) : StandsAt(s)
  BY <1>1, StandsSomewhere
<1>3. MetBefore(myrank, degree, size, leftmost, got[i], got[j])
  BY <1>2 DEF StandsAt, Collected
<1>4. PICK k, l \in 0..(Level(myrank, degree, size) - 1), x, y \in 1..(degree - 1) :
        /\ got[i] = At(myrank, degree, k, x) /\ got[j] = At(myrank, degree, l, y)
        /\ IF leftmost THEN Power(degree, k) > Power(degree, l) \/ (k = l /\ got[i] < got[j])
           ELSE Power(degree, l) > Power(degree, k) \/ (k = l /\ got[j] < got[i])
  <2>1. Params(myrank, degree, size, leftmost)
    BY <1>1, StandsSomewhere
  <2> QED
    BY ONLY <1>3, <2>1, ScanOrder
<1>5. \A c : StrideTo(c) = Power(degree, StrideLevel(c, myrank, degree, size))
  BY DEF StrideTo, StrideLevel
<1>6. StrideTo(got[i]) = Power(degree, k) /\ StrideTo(got[j]) = Power(degree, l)
  <2>1. Params(myrank, degree, size, leftmost)
    BY <1>1, StandsSomewhere
  <2>2. /\ StrideLevel(At(myrank, degree, k, x), myrank, degree, size) = k
        /\ StrideLevel(At(myrank, degree, l, y), myrank, degree, size) = l
    BY ONLY <2>1, StrideIs, k \in 0..(Level(myrank, degree, size) - 1), x \in 1..(degree - 1),
                   l \in 0..(Level(myrank, degree, size) - 1), y \in 1..(degree - 1)
  <2> QED
    BY ONLY <1>4, <1>5, <2>2
<1> QED
  BY <1>4, <1>6

\* The children a rank enumerates are exactly the ranks that took it as their
\* parent, each once: the loop of the child and that of the parent agree.
THEOREM ChildrenMatchParentsCorrect == Spec => []ChildrenMatchParents
BY Invariance, IInvMatches, PTL

\* The right-most order is the mirror image of the left-most one.
THEOREM MirrorOrderCorrect == Spec => []MirrorOrder
BY Invariance, IInvMirror, PTL

-----------------------------------------------------------------------------
(* Sums over sets of ranks *)

\* W holds the sums of f over the sets of ranks below n: whatever element is
\* taken away first.
IsSum(W, f, n) ==
  /\ W \in [SUBSET (0..(n - 1)) -> Int]
  /\ W[{}] = 0
  /\ \A s \in SUBSET (0..(n - 1)) : \A x \in s : W[s] = f[x] + W[s \ {x}]

LEMMA SumExists ==
  ASSUME NEW f, NEW n \in Nat, \A x \in 0..(n - 1) : f[x] \in Int
  PROVE  \E W : IsSum(W, f, n)
<1> DEFINE M == {k \in Nat : k <= n => \E W : IsSum(W, f, k)}
<1>1. 0 \in M
  <2>1. 0..(0 - 1) = {}
    OBVIOUS
  <2>2. SUBSET {} = {{}}
    OBVIOUS
  <2>3. IsSum([s \in {{}} |-> 0], f, 0)
    BY <2>1, <2>2 DEF IsSum
  <2> QED
    BY <2>3
<1>2. ASSUME NEW k \in Nat, k \in M PROVE k + 1 \in M
  <2> SUFFICES ASSUME k + 1 <= n PROVE \E W : IsSum(W, f, k + 1)
    OBVIOUS
  <2>1. PICK W : IsSum(W, f, k)
    BY <1>2
  <2> DEFINE A == 0..(k - 1)
             B == 0..k
             V == [s \in SUBSET B |-> IF k \in s THEN f[k] + W[s \ {k}] ELSE W[s]]
  <2>2. B = A \cup {k} /\ k \notin A /\ (k + 1) - 1 = k
    OBVIOUS
  <2>3. f[k] \in Int /\ \A x \in A : f[x] \in Int
    OBVIOUS
  <2>4. W \in [SUBSET A -> Int] /\ W[{}] = 0 /\ \A s \in SUBSET A : \A x \in s : W[s] = f[x] + W[s \ {x}]
    BY <2>1 DEF IsSum
  <2> HIDE DEF A, B
  <2>5. \A s \in SUBSET B : s \ {k} \in SUBSET A /\ (k \notin s => s \in SUBSET A)
    BY <2>2
  <2>6. V \in [SUBSET B -> Int]
    BY <2>3, <2>4, <2>5
  <2>7. V[{}] = 0
    BY <2>4
  <2>8. ASSUME NEW s \in SUBSET B, NEW x \in s PROVE V[s] = f[x] + V[s \ {x}]
    <3>0. s \ {x} \in SUBSET B
      OBVIOUS
    <3>1. CASE x = k
      BY <3>0, <3>1
    <3>2. CASE x # k /\ k \in s
      <4>1. x \in s \ {k} /\ s \ {k} \in SUBSET A
        BY <2>5, <3>2
      <4>2. W[s \ {k}] = f[x] + W[(s \ {k}) \ {x}]
        BY <2>4, <4>1
      <4>3. (s \ {k}) \ {x} = (s \ {x}) \ {k} /\ k \in s \ {x}
        BY <3>2
      <4>4. V[s] = f[k] + W[s \ {k}] /\ V[s \ {x}] = f[k] + W[(s \ {k}) \ {x}]
        BY <3>0, <3>2, <4>3
      <4>5. f[k] \in Int /\ f[x] \in Int /\ W[(s \ {k}) \ {x}] \in Int
        <5>1. (s \ {k}) \ {x} \in SUBSET A /\ x \in A
          BY <4>1
        <5> QED
          BY <2>3, <2>4, <5>1
      <4> QED
        BY ONLY <4>2, <4>4, <4>5
    <3>3. CASE k \notin s
      <4>1. s \in SUBSET A /\ k \notin s \ {x}
        BY <2>5, <3>3
      <4> QED
        BY <2>4, <3>0, <3>3, <4>1
    <3> QED
      BY <3>1, <3>2, <3>3
  <2> HIDE DEF V
  <2>9. IsSum(V, f, k + 1)
    BY <2>2, <2>6, <2>7, <2>8 DEF IsSum, B
  <2> QED
    BY <2>9
<1> HIDE DEF M
<1>3. n \in M
  BY <1>1, <1>2, Induction
<1> QED
  BY <1>3 DEF M

\* A property of the empty set that a set has if it has it without any one
\* of its elements is one of all sets of ranks.
LEMMA SubsetInduction ==
  ASSUME NEW n \in Nat, NEW M, {} \in M,
         \A s \in SUBSET (0..(n - 1)) : (\A x \in s : s \ {x} \in M) => s \in M
  PROVE  \A s \in SUBSET (0..(n - 1)) : s \in M
<1> DEFINE A == 0..(n - 1)
           K == {k \in Nat : \A s \in SUBSET A : Cardinality(s) = k => s \in M}
<1>1. \A s \in SUBSET A : IsFiniteSet(s) /\ Cardinality(s) \in Nat
  <2>1. IsFiniteSet(A)
    <3>1. 0 \in Int /\ n - 1 \in Int
      OBVIOUS
    <3> QED
      BY ONLY <3>1, FS_Interval
  <2> QED
    BY <2>1, FS_Subset, FS_CardinalityType
<1>2. 0 \in K
  <2>1. ASSUME NEW s \in SUBSET A, Cardinality(s) = 0 PROVE s \in M
    BY <1>1, <2>1, FS_EmptySet
  <2> QED
    BY <2>1
<1>3. ASSUME NEW k \in Nat, k \in K PROVE k + 1 \in K
  <2>1. ASSUME NEW s \in SUBSET A, Cardinality(s) = k + 1 PROVE s \in M
    <3>1. ASSUME NEW x \in s PROVE s \ {x} \in M
      <4>1. IsFiniteSet(s)
        BY <1>1
      <4>2. Cardinality(s \ {x}) = Cardinality(s) - 1
        BY ONLY <4>1, <3>1, FS_RemoveElement
      <4>3. Cardinality(s \ {x}) = k
        BY ONLY <2>1, <4>2, k \in Nat
      <4> QED
        BY <1>3, <4>3
    <3> QED
      BY <3>1
  <2> QED
    BY <2>1
<1> HIDE DEF K
<1>4. \A k \in Nat : k \in K
  BY <1>2, <1>3, Induction
<1> QED
  BY <1>1, <1>4 DEF K

\* The fold over a set computes the sum.
LEMMA SumIs ==
  ASSUME NEW f, NEW n \in Nat, NEW W, IsSum(W, f, n), NEW S \in SUBSET (0..(n - 1))
  PROVE  SumOver(f, S) = W[S]
<1> DEFINE pick(s) == CHOOSE x \in s : TRUE
           Body(g) == [s \in SUBSET S |-> IF s = {} THEN 0 ELSE f[pick(s)] + g[s \ {pick(s)}]]
           it == CHOOSE g : g = Body(g)
           V == [s \in SUBSET S |-> W[s]]
<1>1. \A s \in SUBSET S : s # {} => pick(s) \in s /\ s \ {pick(s)} \in SUBSET S
  OBVIOUS
<1>2. SumOver(f, S) = it[S]
  BY DEF SumOver, MapThenSumSet, MapThenFoldSet
<1> HIDE DEF pick
<1>3. V = Body(V)
  <2>1. ASSUME NEW s \in SUBSET S PROVE V[s] = Body(V)[s]
    <3>0. s \in SUBSET (0..(n - 1))
      OBVIOUS
    <3>1. CASE s = {}
      BY <3>1 DEF IsSum
    <3>2. CASE s # {}
      <4>1. pick(s) \in s /\ s \ {pick(s)} \in SUBSET S
        BY <1>1, <3>2
      <4>2. W[s] = f[pick(s)] + W[s \ {pick(s)}]
        BY <3>0, <4>1 DEF IsSum
      <4> QED
        BY <3>2, <4>1, <4>2
    <3> QED
      BY <3>1, <3>2
  <2> HIDE DEF V
  <2>2. V = [s \in SUBSET S |-> V[s]]
    BY DEF V
  <2> QED
    BY <2>1, <2>2
<1> HIDE DEF V
<1>4. it = Body(it)
  BY <1>3
<1> HIDE DEF it
<1> DEFINE M == {s \in SUBSET (0..(n - 1)) : s \in SUBSET S => it[s] = V[s]}
<1>5. {} \in M
  <2>1. {} \in SUBSET S
    OBVIOUS
  <2> QED
    BY <1>3, <1>4, <2>1
<1>6. ASSUME NEW s \in SUBSET (0..(n - 1)), \A x \in s : s \ {x} \in M PROVE s \in M
  <2> SUFFICES ASSUME s \in SUBSET S, s # {} PROVE it[s] = V[s]
    BY <1>5
  <2>1. pick(s) \in s /\ s \ {pick(s)} \in SUBSET S
    BY <1>1
  <2>2. it[s \ {pick(s)}] = V[s \ {pick(s)}]
    BY <1>6, <2>1
  <2> QED
    BY <1>3, <1>4, <2>2
<1> HIDE DEF M
<1>7. S \in M
  BY <1>5, <1>6, SubsetInduction
<1>8. it[S] = V[S]
  BY <1>7 DEF M
<1> QED
  BY <1>2, <1>8 DEF V

IntOn(f, n) == \A x \in 0..(n - 1) : f[x] \in Int

\* Sums, by taking one element away.
LEMMA SumFacts ==
  ASSUME NEW f, NEW n \in Nat, IntOn(f, n)
  PROVE  /\ SumOver(f, {}) = 0
         /\ \A S \in SUBSET (0..(n - 1)) :
              /\ SumOver(f, S) \in Int
              /\ \A x \in S : SumOver(f, S) = f[x] + SumOver(f, S \ {x})
<1>1. PICK W : IsSum(W, f, n)
  BY SumExists DEF IntOn
<1>2. \A S \in SUBSET (0..(n - 1)) : SumOver(f, S) = W[S]
  BY <1>1, SumIs
<1>3. {} \in SUBSET (0..(n - 1)) /\ \A S \in SUBSET (0..(n - 1)) : \A x \in S : S \ {x} \in SUBSET (0..(n - 1))
  OBVIOUS
<1> QED
  BY <1>1, <1>2, <1>3 DEF IsSum

\* A sum depends on the values at the elements only.
LEMMA SumSame ==
  ASSUME NEW f, NEW g, NEW S, \A x \in S : f[x] = g[x]
  PROVE  SumOver(f, S) = SumOver(g, S)
<1> DEFINE pick(s) == CHOOSE x \in s : TRUE
           F(w) == [s \in SUBSET S |-> IF s = {} THEN 0 ELSE f[pick(s)] + w[s \ {pick(s)}]]
           G(w) == [s \in SUBSET S |-> IF s = {} THEN 0 ELSE g[pick(s)] + w[s \ {pick(s)}]]
<1>1. \A s \in SUBSET S : s # {} => pick(s) \in S
  OBVIOUS
<1>2. /\ SumOver(f, S) = (CHOOSE w : w = F(w))[S]
      /\ SumOver(g, S) = (CHOOSE w : w = G(w))[S]
  BY DEF SumOver, MapThenSumSet, MapThenFoldSet
<1> HIDE DEF pick
<1>3. \A w : F(w) = G(w)
  BY <1>1
<1> HIDE DEF F, G
<1>4. (CHOOSE w : w = F(w)) = (CHOOSE w : w = G(w))
  BY <1>3
<1> QED
  BY <1>2, <1>4

\* The sum over two sets that have nothing in common.
LEMMA SumUnion ==
  ASSUME NEW f, NEW n \in Nat, IntOn(f, n), NEW A \in SUBSET (0..(n - 1)),
         NEW B \in SUBSET (0..(n - 1)), A \cap B = {}
  PROVE  SumOver(f, A \cup B) = SumOver(f, A) + SumOver(f, B)
<1> DEFINE M == {s \in SUBSET (0..(n - 1)) :
                   s \subseteq B => SumOver(f, A \cup s) = SumOver(f, A) + SumOver(f, s)}
<1>0. SumOver(f, A) \in Int
  BY SumFacts
<1>1. {} \in M
  <2>1. A \cup {} = A /\ SumOver(f, {}) = 0
    BY SumFacts
  <2> QED
    BY <1>0, <2>1
<1>2. ASSUME NEW s \in SUBSET (0..(n - 1)), \A x \in s : s \ {x} \in M PROVE s \in M
  <2> SUFFICES ASSUME s \subseteq B, NEW x \in s
               PROVE  SumOver(f, A \cup s) = SumOver(f, A) + SumOver(f, s)
    BY <1>1
  <2>1. SumOver(f, A \cup (s \ {x})) = SumOver(f, A) + SumOver(f, s \ {x})
    BY <1>2
  <2>2. SumOver(f, s) = f[x] + SumOver(f, s \ {x}) /\ SumOver(f, s \ {x}) \in Int
    BY SumFacts
  <2>3. (A \cup s) \ {x} = A \cup (s \ {x}) /\ A \cup s \in SUBSET (0..(n - 1)) /\ x \in A \cup s
    OBVIOUS
  <2>4. SumOver(f, A \cup s) = f[x] + SumOver(f, A \cup (s \ {x}))
    BY <2>3, SumFacts
  <2>5. f[x] \in Int
    BY DEF IntOn
  <2> QED
    BY <1>0, <2>1, <2>2, <2>4, <2>5
<1> HIDE DEF M
<1>3. B \in M
  BY <1>1, <1>2, SubsetInduction
<1> QED
  BY <1>3 DEF M

-----------------------------------------------------------------------------
(* The tree spans the group *)

\* Only the root has no parent, and a parent is closer to the root.
LEMMA ParentFacts ==
  ASSUME NEW d \in Nat, NEW n \in Nat \ {0}, n >= 2 => d >= 2, NEW v \in 0..(n - 1)
  PROVE  IF v = 0 THEN ParentOf(v, d, n) = INVALID_RANK ELSE ParentOf(v, d, n) \in 0..(v - 1)
<1>1. CASE n = 1
  BY <1>1 DEF ParentOf, MaxSubsize, INVALID_RANK
<1>2. CASE n # 1
  <2>1. d >= 2 /\ n >= 2 /\ d \in Nat \ {0} /\ v \in Nat
    BY <1>2
  <2>2. ParentOf(v, d, n) # INVALID_RANK => ParentOf(v, d, n) \in 0..(v - 1)
    BY <2>1, ChildHasDigit
  <2>3. ASSUME v # 0 PROVE ParentOf(v, d, n) # INVALID_RANK
    <3> DEFINE l == Level(v, d, n)
               p == Power(d, l)
    <3>1. l \in 0..n /\ MaxSubsize(v, d, n) = p
      BY <2>1, LevelFacts
    <3>2. l \in 0..l /\ l \in Nat
      BY <3>1
    <3>3. Divides(p, v)
      BY <2>1, <3>2, LevelDivides
    <3> HIDE DEF l
    <3>4. p \in Nat \ {0}
      BY <2>1, <3>2, PowerStep
    <3> HIDE DEF p
    <3>5. PICK q \in Nat : v = p * q
      BY <3>3 DEF Divides
    <3>6. p <= v
      BY <2>1, <2>3, <3>4, <3>5
    <3>7. ~(p >= n)
      BY <2>1, <3>4, <3>6
    <3>8. ParentOf(v, d, n) = (v \div (p * d)) * (p * d)
      BY <3>1, <3>7 DEF ParentOf
    <3>9. p * d \in Nat \ {0}
      BY <2>1, <3>4
    <3> DEFINE m == p * d
    <3> HIDE DEF m
    <3>10. PICK a \in Nat, r \in 0..(m - 1) : v = m * a + r
      BY <2>1, <3>9, Quotient DEF m
    <3>11. v \div m = a
      BY <3>9, <3>10, DivMod DEF m
    <3>12. a * m \in Nat
      BY <3>9 DEF m
    <3> QED
      BY <3>8, <3>11, <3>12 DEF INVALID_RANK, m
  <2> QED
    BY <2>1, <2>2, <2>3
<1> QED
  BY <1>1, <1>2

TreeParams(d, n) == d \in Nat /\ n \in Nat \ {0} /\ (n >= 2 => d >= 2)

\* Children come after their parent.
LEMMA ChildrenAbove ==
  ASSUME NEW d, NEW n, TreeParams(d, n), NEW u \in 0..(n - 1), NEW c \in KnChildren(u, d, n)
  PROVE  c \in 0..(n - 1) /\ c > u /\ ParentOf(c, d, n) = u
<1>1. c \in 0..(n - 1) /\ ParentOf(c, d, n) = u /\ u # INVALID_RANK
  BY DEF KnChildren, INVALID_RANK, TreeParams
<1>2. ParentOf(c, d, n) \in 0..(c - 1)
  BY <1>1, ParentFacts DEF TreeParams
<1> QED
  BY <1>1, <1>2 DEF TreeParams

\* f has the sizes of the sub-trees of the ranks from m on.
SizesFrom(f, d, n, m) ==
  /\ f \in [0..(n - 1) -> Int]
  /\ \A u \in 0..(n - 1) : u >= m => f[u] = 1 + SumOver(f, KnChildren(u, d, n))

\* The recursion of get_subtree_size ends: there are such sizes.
LEMMA SizesExist ==
  ASSUME NEW d, NEW n, TreeParams(d, n)
  PROVE  \E f : SizesFrom(f, d, n, 0)
<1>0. n \in Nat
  BY DEF TreeParams
<1> DEFINE M == {k \in Nat : k <= n => \E f : SizesFrom(f, d, n, n - k)}
<1>1. 0 \in M
  <2>1. SizesFrom([u \in 0..(n - 1) |-> 0], d, n, n - 0)
    BY <1>0 DEF SizesFrom
  <2> QED
    BY <2>1
<1>2. ASSUME NEW k \in Nat, k \in M PROVE k + 1 \in M
  <2> SUFFICES ASSUME k + 1 <= n PROVE \E f : SizesFrom(f, d, n, n - (k + 1))
    OBVIOUS
  <2>1. PICK f : SizesFrom(f, d, n, n - k)
    BY <1>0, <1>2
  <2> DEFINE m == n - (k + 1)
             S == SumOver(f, KnChildren(m, d, n))
             h == [f EXCEPT ![m] = 1 + S]
  <2>2. m \in 0..(n - 1) /\ n - k = m + 1
    BY <1>0
  <2> HIDE DEF m
  <2>3. f \in [0..(n - 1) -> Int] /\ IntOn(f, n)
    BY <2>1 DEF SizesFrom, IntOn
  <2>4. KnChildren(m, d, n) \in SUBSET (0..(n - 1))
    BY DEF KnChildren
  <2>5. S \in Int
    BY <1>0, <2>3, <2>4, SumFacts
  <2> HIDE DEF S
  <2>6. h \in [0..(n - 1) -> Int] /\ h[m] = 1 + S /\ \A u \in 0..(n - 1) : u # m => h[u] = f[u]
    BY <2>2, <2>3, <2>5
  <2> HIDE DEF h
  <2>8. ASSUME NEW u \in 0..(n - 1), u >= m
        PROVE  SumOver(h, KnChildren(u, d, n)) = SumOver(f, KnChildren(u, d, n))
    <3>1. KnChildren(u, d, n) \in SUBSET (0..(n - 1))
      BY DEF KnChildren
    <3>2. \A c \in KnChildren(u, d, n) : h[c] = f[c]
      <4>1. ASSUME NEW c \in KnChildren(u, d, n) PROVE h[c] = f[c]
        <5>1. c \in 0..(n - 1) /\ c > u
          BY ChildrenAbove
        <5>2. c # m
          BY <1>0, <2>2, <2>8, <5>1
        <5> QED
          BY <2>6, <5>1, <5>2
      <4> QED
        BY <4>1
    <3> QED
      BY <3>2, SumSame
  <2>9. ASSUME NEW u \in 0..(n - 1), u >= m
        PROVE  h[u] = 1 + SumOver(h, KnChildren(u, d, n))
    <3>1. CASE u = m
      BY <2>6, <2>8, <2>9, <3>1 DEF S
    <3>2. CASE u # m
      <4>1. u >= n - k
        BY <1>0, <2>2, <2>9, <3>2
      <4>2. f[u] = 1 + SumOver(f, KnChildren(u, d, n))
        BY <2>1, <4>1 DEF SizesFrom
      <4> QED
        BY <2>6, <2>8, <2>9, <3>2, <4>2
    <3> QED
      BY <3>1, <3>2
  <2>10. SizesFrom(h, d, n, m)
    BY <2>6, <2>9 DEF SizesFrom
  <2> QED
    BY <2>10 DEF m
<1> HIDE DEF M
<1>3. n \in M
  BY <1>0, <1>1, <1>2, Induction
<1>4. n - n = 0 /\ n <= n
  BY <1>0
<1> QED
  BY <1>3, <1>4 DEF M

\* The ranks from m on whose parent comes before m.
Tops(d, n, m) == {v \in 0..(n - 1) : v >= m /\ ParentOf(v, d, n) < m}

\* Cut off at m, the tree falls apart into sub-trees that hold every rank from
\* m on once.
LEMMA TopsSum ==
  ASSUME NEW d, NEW n, TreeParams(d, n), NEW f, SizesFrom(f, d, n, 0), NEW m \in 0..n
  PROVE  SumOver(f, Tops(d, n, m)) = n - m
<1>0. n \in Nat \ {0} /\ n \in Nat
  BY DEF TreeParams
<1>1. IntOn(f, n) /\ \A u \in 0..(n - 1) : f[u] = 1 + SumOver(f, KnChildren(u, d, n))
  BY <1>0 DEF SizesFrom, IntOn
<1> DEFINE M == {k \in Nat : k <= n => SumOver(f, Tops(d, n, n - k)) = k}
<1>2. 0 \in M
  <2>1. Tops(d, n, n - 0) = {}
    BY <1>0 DEF Tops
  <2> QED
    BY <1>0, <1>1, <2>1, SumFacts
<1>3. ASSUME NEW k \in Nat, k \in M PROVE k + 1 \in M
  <2> SUFFICES ASSUME k + 1 <= n PROVE SumOver(f, Tops(d, n, n - (k + 1))) = k + 1
    OBVIOUS
  <2> DEFINE u == n - (k + 1)
             T == Tops(d, n, u + 1)
             C == KnChildren(u, d, n)
  <2>1. u \in 0..(n - 1) /\ n - k = u + 1
    BY <1>0
  <2>2. SumOver(f, T) = k
    BY <1>0, <1>3, <2>1
  <2> HIDE DEF u
  <2>3. \A v \in 0..(n - 1) : ParentOf(v, d, n) \in Int /\ ParentOf(v, d, n) < v
    <3>1. ASSUME NEW v \in 0..(n - 1) PROVE ParentOf(v, d, n) \in Int /\ ParentOf(v, d, n) < v
      <4>1. IF v = 0 THEN ParentOf(v, d, n) = INVALID_RANK ELSE ParentOf(v, d, n) \in 0..(v - 1)
        BY ParentFacts DEF TreeParams
      <4> QED
        BY <1>0, <4>1 DEF INVALID_RANK
    <3> QED
      BY <3>1
  <2>4. C \subseteq T
    <3>1. ASSUME NEW c \in C PROVE c \in T
      <4>1. c \in 0..(n - 1) /\ c > u /\ ParentOf(c, d, n) = u
        BY <2>1, ChildrenAbove
      <4> QED
        BY <1>0, <2>1, <4>1 DEF Tops
    <3> QED
      BY <3>1
  <2>5. Tops(d, n, u) = (T \ C) \cup {u} /\ u \notin T \ C
    <3>1. ASSUME NEW v \in 0..(n - 1)
          PROVE  v \in Tops(d, n, u) <=> v \in (T \ C) \cup {u}
      <4>1. v \in C <=> ParentOf(v, d, n) = u
        BY DEF KnChildren
      <4>2. ParentOf(v, d, n) \in Int /\ ParentOf(v, d, n) < v
        BY <2>3
      <4> QED
        BY <1>0, <2>1, <4>1, <4>2 DEF Tops
    <3>2. u \notin T
      BY <1>0, <2>1 DEF Tops
    <3>3. \A v \in (T \ C) \cup {u} : v \in 0..(n - 1)
      BY <2>1 DEF Tops
    <3>4. \A v \in Tops(d, n, u) : v \in 0..(n - 1)
      BY DEF Tops
    <3> QED
      BY <3>1, <3>2, <3>3, <3>4
  <2>6. T \in SUBSET (0..(n - 1)) /\ C \in SUBSET (0..(n - 1))
    BY DEF Tops, KnChildren
  <2> HIDE DEF T, C
  <2>7. SumOver(f, T) = SumOver(f, T \ C) + SumOver(f, C)
    <3>1. T \ C \in SUBSET (0..(n - 1)) /\ (T \ C) \cap C = {} /\ (T \ C) \cup C = T
      BY <2>4, <2>6
    <3>2. SumOver(f, (T \ C) \cup C) = SumOver(f, T \ C) + SumOver(f, C)
      BY <1>0, <1>1, <2>6, <3>1, SumUnion
    <3> QED
      BY <3>1, <3>2
  <2>8. SumOver(f, Tops(d, n, u)) = f[u] + SumOver(f, T \ C)
    <3>1. (T \ C) \cup {u} \in SUBSET (0..(n - 1)) /\ u \in (T \ C) \cup {u}
      BY <2>1, <2>6
    <3>2. SumOver(f, (T \ C) \cup {u}) = f[u] + SumOver(f, ((T \ C) \cup {u}) \ {u})
      BY <1>0, <1>1, <3>1, SumFacts
    <3>3. ((T \ C) \cup {u}) \ {u} = T \ C
      BY <2>5
    <3> QED
      BY <2>5, <3>2, <3>3
  <2>9. SumOver(f, C) \in Int /\ SumOver(f, T \ C) \in Int
    <3>1. T \ C \in SUBSET (0..(n - 1))
      BY <2>6
    <3> QED
      BY <1>0, <1>1, <2>6, <3>1, SumFacts
  <2>10. f[u] = 1 + SumOver(f, C)
    BY <1>1, <2>1 DEF C
  <2>11. SumOver(f, Tops(d, n, u)) = k + 1
    BY <2>2, <2>7, <2>8, <2>9, <2>10
  <2> QED
    BY <2>11 DEF u
<1> HIDE DEF M
<1>4. n - m \in Nat /\ n - (n - m) = m /\ n - m <= n
  BY <1>0
<1>5. n - m \in M
  BY <1>2, <1>3, <1>4, Induction
<1> QED
  BY <1>4, <1>5 DEF M

\* The sub-tree of the root is the group.
LEMMA RootHoldsAll ==
  ASSUME NEW d, NEW n, TreeParams(d, n)
  PROVE  KnSubtreeSize(0, d, n) = n
<1>0. n \in Nat \ {0} /\ n \in Nat
  BY DEF TreeParams
<1> DEFINE Body(g) == [u \in 0..(n - 1) |-> 1 + SumOver(g, KnChildren(u, d, n))]
           f == CHOOSE g : g = Body(g)
<1>1. PICK h : SizesFrom(h, d, n, 0)
  BY SizesExist
<1>2. h = Body(h)
  <2>1. h \in [0..(n - 1) -> Int] /\ \A u \in 0..(n - 1) : h[u] = Body(h)[u]
    BY <1>0, <1>1 DEF SizesFrom
  <2>2. h = [u \in 0..(n - 1) |-> h[u]]
    BY <2>1
  <2> QED
    BY <2>1, <2>2
<1>3. f = Body(f)
  BY <1>2
<1>4. KnSubtreeSize(0, d, n) = f[0]
  BY DEF KnSubtreeSize
<1> HIDE DEF f
<1> DEFINE M == {k \in Nat : \A u \in 0..(n - 1) : u >= n - k => f[u] = h[u]}
<1>5. 0 \in M
  BY <1>0
<1>6. ASSUME NEW k \in Nat, k \in M PROVE k + 1 \in M
  <2> SUFFICES ASSUME NEW u \in 0..(n - 1), u >= n - (k + 1) PROVE f[u] = h[u]
    OBVIOUS
  <2>1. ASSUME NEW c \in KnChildren(u, d, n) PROVE f[c] = h[c]
    <3>1. c \in 0..(n - 1) /\ c > u
      BY ChildrenAbove
    <3>2. c >= n - k
      BY <1>0, <3>1
    <3> QED
      BY <1>6, <3>1, <3>2
  <2>2. SumOver(f, KnChildren(u, d, n)) = SumOver(h, KnChildren(u, d, n))
    BY <2>1, SumSame
  <2> QED
    BY <1>2, <1>3, <2>2
<1> HIDE DEF M
<1>7. n \in M /\ 0 \in 0..(n - 1) /\ 0 >= n - n
  BY <1>0, <1>5, <1>6, Induction
<1>8. f[0] = h[0]
  BY <1>7 DEF M
<1>9. SumOver(h, Tops(d, n, 0)) = n
  <2>1. 0 \in 0..n /\ n - 0 = n
    BY <1>0
  <2> QED
    BY <1>1, <2>1, TopsSum
<1>10. Tops(d, n, 0) = {0}
  <2>1. ASSUME NEW v \in 0..(n - 1) PROVE v >= 0 /\ ParentOf(v, d, n) < 0 <=> v = 0
    <3>1. IF v = 0 THEN ParentOf(v, d, n) = INVALID_RANK ELSE ParentOf(v, d, n) \in 0..(v - 1)
      BY ParentFacts DEF TreeParams
    <3> QED
      BY <1>0, <3>1 DEF INVALID_RANK
  <2> QED
    BY <1>0, <2>1 DEF Tops
<1>11. SumOver(h, {0}) = h[0] /\ h[0] \in Int
  <2>1. IntOn(h, n) /\ h[0] \in Int
    BY <1>0, <1>1 DEF SizesFrom, IntOn
  <2>2. {0} \in SUBSET (0..(n - 1)) /\ {0} \ {0} = {} /\ 0 \in {0}
    BY <1>0
  <2>3. SumOver(h, {0}) = h[0] + SumOver(h, {0} \ {0}) /\ SumOver(h, {}) = 0
    BY <1>0, <2>1, <2>2, SumFacts
  <2> QED
    BY <2>1, <2>2, <2>3
<1> QED
  BY <1>4, <1>8, <1>9, <1>10, <1>11

LEMMA IInvSpans == IInv => SpanningTree
<1> SUFFICES ASSUME IInv PROVE SpanningTree
  OBVIOUS
<1>1. TreeParams(degree, size)
  BY DEF IInv, ConfigInv, TreeParams
<1>2. SubtreeSize(0) = size
  BY <1>1, RootHoldsAll DEF SubtreeSize
<1>3. ASSUME NEW v \in Ranks
      PROVE  IF v = 0 THEN ParentOf(v, degree, size) = INVALID_RANK
             ELSE ParentOf(v, degree, size) \in 0..(v - 1)
  BY <1>1, ParentFacts DEF TreeParams, Ranks
<1> QED
  BY <1>2, <1>3 DEF SpanningTree

\* All ranks hang under the root, and the sizes of the sub-trees add up.
THEOREM SpanningTreeCorrect == Spec => []SpanningTree
BY Invariance, IInvSpans, PTL
=============================================================================
