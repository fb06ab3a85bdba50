----------------------------- MODULE PlansProofs -----------------------------
(***************************************************************************)
(* Theorems about plan containers.                                         *)
(***************************************************************************)
EXTENDS Plans, FiniteSetTheorems, SequenceTheorems, NatFacts

-----------------------------------------------------------------------------
(* Adding fallbacks one by one *)

\* A bounded set of numbers has a greatest one, a set of naturals a least one.
LEMMA MaxIsIn ==
  ASSUME NEW k \in Nat, NEW s \in SUBSET (1 .. k), s # {}
  PROVE  Max(s) \in s
<1> DEFINE T == {k - x : x \in s}
<1>1. T \in SUBSET Nat /\ T # {}
  <2>1. \A x \in s : k - x \in Nat
    OBVIOUS
  <2> QED
    BY <2>1
<1>2. PICK y \in T : \A z \in T : y <= z
  <2> HIDE DEF T
  <2> QED
    BY <1>1, Least
<1>3. PICK x \in s : y = k - x
  OBVIOUS
<1>4. ASSUME NEW z \in s PROVE x >= z
  <2>1. k - x <= k - z
    BY <1>2, <1>3
  <2> QED
    BY <2>1
<1> QED
  BY <1>4 DEF Max

LEMMA MinIsLeast ==
  ASSUME NEW s \in SUBSET Nat, s # {}
  PROVE  Min(s) \in s /\ \A x \in s : Min(s) <= x
BY Least DEF Min

\* F[m] holds what m insertions can lead to.
LEMMA FoldStages ==
  ASSUME NEW B, NEW fbs \in Seq(B), NEW F, NEW base \in F[0],
         \A m \in 1 .. Len(fbs) : \A x \in F[m - 1] : InsertFallback(x, fbs[m]) \in F[m]
  PROVE  FoldLeft(InsertFallback, base, fbs) \in F[Len(fbs)]
<1> DEFINE n == Len(fbs)
           Body(iter, S) == [s \in SUBSET S |->
             IF s = {} THEN base ELSE InsertFallback(iter[s \ {Max(s)}], fbs[Max(s)])]
           M == {k \in Nat : \E g : g = Body(g, 1 .. k)}
           it == CHOOSE g : g = Body(g, 1 .. n)
<1>1. 1 .. n = DOMAIN fbs /\ n \in Nat
  OBVIOUS
<1>2. FoldLeft(InsertFallback, base, fbs) = it[1 .. n]
  BY <1>1 DEF FoldLeft, MapThenFoldSet
<1>3. \A k \in Nat : k \in M
  <2>1. 0 \in M
    <3> DEFINE g == [s \in SUBSET (1 .. 0) |-> base]
    <3>1. 1 .. 0 = {}
      OBVIOUS
    <3>2. \A s \in SUBSET (1 .. 0) : s = {}
      BY <3>1
    <3>3. g = Body(g, 1 .. 0)
      BY <3>2
    <3> QED
      BY <3>3
  <2>2. ASSUME NEW k \in Nat, k \in M PROVE k + 1 \in M
    <3>1. PICK g : g = Body(g, 1 .. k)
      BY <2>2
    <3> DEFINE h == [s \in SUBSET (1 .. k + 1) |->
                      IF k + 1 \in s THEN InsertFallback(g[s \ {k + 1}], fbs[k + 1]) ELSE g[s]]
    <3>2. ASSUME NEW s \in SUBSET (1 .. k + 1)
          PROVE  h[s] = Body(h, 1 .. k + 1)[s]
      <4>1. CASE k + 1 \in s
        <5>1. Max(s) = k + 1
          <6>1. \A x \in s : (\A y \in s : x >= y) <=> x = k + 1
            BY <4>1
          <6> QED
            BY <4>1, <6>1 DEF Max
        <5>2. s \ {k + 1} \in SUBSET (1 .. k + 1) /\ k + 1 \notin s \ {k + 1}
          OBVIOUS
        <5>3. h[s \ {k + 1}] = g[s \ {k + 1}]
          BY <5>2
        <5>4. h[s] = InsertFallback(g[s \ {k + 1}], fbs[k + 1])
          BY <4>1
        <5> HIDE DEF h
        <5> QED
          BY <4>1, <5>1, <5>3, <5>4
      <4>2. CASE k + 1 \notin s /\ s # {}
        <5>1. s \in SUBSET (1 .. k)
          BY <4>2
        <5>2. Max(s) \in s
          BY <4>2, <5>1, MaxIsIn
        <5> DEFINE x == Max(s)
        <5> HIDE DEF x
        <5>3. x \in s
          BY <5>2 DEF x
        <5>4. h[s \ {x}] = g[s \ {x}]
          BY <4>2, <5>1
        <5>5. g[s] = InsertFallback(g[s \ {x}], fbs[x])
          BY <3>1, <4>2, <5>1 DEF x
        <5>6. h[s] = g[s]
          BY <4>2
        <5> HIDE DEF h
        <5> QED
          BY <4>2, <5>4, <5>5, <5>6 DEF x
      <4>3. CASE s = {}
        <5>1. g[s] = base
          BY <3>1, <4>3
        <5> QED
          BY <4>3, <5>1
      <4> QED
        BY <4>1, <4>2, <4>3
    <3>3. h = Body(h, 1 .. k + 1)
      BY <3>2
    <3> HIDE DEF h, Body
    <3>4. \E f : f = Body(f, 1 .. k + 1)
      BY <3>3
    <3> QED
      BY <3>4
  <2> HIDE DEF M
  <2> QED
    BY <2>1, <2>2, Induction
<1>4. it = Body(it, 1 .. n)
  BY <1>1, <1>3
<1> DEFINE K == {k \in Nat : k <= n => it[1 .. k] \in F[k]}
<1> HIDE DEF it
<1>5. \A k \in Nat : k \in K
  <2>1. 0 \in K
    <3>1. 1 .. 0 = {} /\ 1 .. 0 \in SUBSET (1 .. n)
      BY <1>1
    <3>2. it[1 .. 0] = base
      BY <1>4, <3>1
    <3> QED
      BY <3>2
  <2>2. ASSUME NEW k \in Nat, k \in K PROVE k + 1 \in K
    <3>1. SUFFICES ASSUME k + 1 <= n PROVE it[1 .. k + 1] \in F[k + 1]
      OBVIOUS
    <3>2. it[1 .. k] \in F[k]
      BY <1>1, <2>2, <3>1
    <3>3. Max(1 .. k + 1) = k + 1
      BY DEF Max
    <3>4. (1 .. k + 1) \ {k + 1} = 1 .. k
      OBVIOUS
    <3>5. 1 .. k + 1 \in SUBSET (1 .. n) /\ 1 .. k + 1 # {}
      <4>1. \A x \in 1 .. k + 1 : x \in 1 .. n
        BY <1>1, <3>1
      <4>2. 1 \in 1 .. k + 1
        OBVIOUS
      <4> QED
        BY <4>1, <4>2
    <3>6. it[1 .. k + 1] = InsertFallback(it[1 .. k], fbs[k + 1])
      BY <1>4, <3>3, <3>4, <3>5
    <3>7. k + 1 \in 1 .. Len(fbs) /\ (k + 1) - 1 = k
      BY <1>1, <3>1
    <3>8. \A x \in F[k] : InsertFallback(x, fbs[k + 1]) \in F[k + 1]
      BY <3>7
    <3> QED
      BY <3>2, <3>6, <3>8
  <2> HIDE DEF K
  <2> QED
    BY <2>1, <2>2, Induction
<1>6. it[1 .. n] \in F[n]
  BY <1>1, <1>5
<1> QED
  BY <1>2, <1>6

\* What one insertion preserves, all of them do.
LEMMA FoldKeeps ==
  ASSUME NEW A, NEW B, NEW base \in A, NEW fbs \in Seq(B),
         \A x \in A, y \in B : InsertFallback(x, y) \in A
  PROVE  FoldLeft(InsertFallback, base, fbs) \in A
<1> DEFINE F == [m \in Nat |-> A]
<1>1. Len(fbs) \in Nat /\ \A m \in 1 .. Len(fbs) : fbs[m] \in B /\ m \in Nat /\ m - 1 \in Nat
  OBVIOUS
<1>2. \A m \in Nat : F[m] = A
  OBVIOUS
<1> HIDE DEF F
<1>3. \A m \in 1 .. Len(fbs) : \A x \in F[m - 1] : InsertFallback(x, fbs[m]) \in F[m]
  BY <1>1, <1>2
<1>4. base \in F[0]
  BY <1>2
<1>5. FoldLeft(InsertFallback, base, fbs) \in F[Len(fbs)]
  BY <1>3, <1>4, FoldStages
<1> QED
  BY <1>1, <1>2, <1>5

-----------------------------------------------------------------------------
(* Plans *)

Fallback == [prepare : Prepares, score : Nat, lo : Nat, hi : Nat]

\* The fallbacks a plan of this score and range may have.
FallbackFor(score, lo, hi) == {f \in Fallback : f.lo = lo /\ f.hi = hi /\ f.score <= score}

Ranked(fbs) == \A i, j \in DOMAIN fbs : i < j => fbs[j].score <= fbs[i].score

Fallbacks(score, lo, hi) == {fbs \in Seq(FallbackFor(score, lo, hi)) : Ranked(fbs)}

Plan == [prepare : Prepares, score : Nat, lo : Nat, hi : Nat, fb : Seq(Fallback)]

\* Plans as calls leave them.
Good == {p \in Plan : p.lo < p.hi /\ p.fb \in Fallbacks(p.score, p.lo, p.hi)}

\* A function on 1..n is a sequence.
LEMMA FunctionIsSeq ==
  ASSUME NEW S, NEW n \in Nat, NEW f \in [1 .. n -> S]
  PROVE  f \in Seq(S)
OBVIOUS

LEMMA FallbacksAreFallbacks ==
  ASSUME NEW score, NEW lo, NEW hi, NEW fbs \in Fallbacks(score, lo, hi)
  PROVE  fbs \in Seq(Fallback)
BY DEF Fallbacks, FallbackFor

LEMMA InsertAtFacts ==
  ASSUME NEW S, NEW l \in Seq(S), NEW i \in 1 .. Len(l) + 1, NEW e \in S
  PROVE  /\ InsertAt(l, i, e) \in Seq(S)
         /\ Len(InsertAt(l, i, e)) = Len(l) + 1
         /\ \A j \in 1 .. Len(l) + 1 :
               InsertAt(l, i, e)[j] = IF j < i THEN l[j] ELSE IF j = i THEN e ELSE l[j - 1]
<1> DEFINE a == SubSeq(l, 1, i - 1)
           b == SubSeq(l, i, Len(l))
<1>1. a \in Seq(S) /\ Len(a) = i - 1 /\ \A j \in 1 .. i - 1 : a[j] = l[j]
  OBVIOUS
<1>2. b \in Seq(S) /\ Len(b) = Len(l) + 1 - i /\ \A j \in 1 .. Len(l) + 1 - i : b[j] = l[i + j - 1]
  OBVIOUS
<1>3. InsertAt(l, i, e) = a \o <<e>> \o b
  BY DEF InsertAt
<1> HIDE DEF a, b
<1> DEFINE c == a \o <<e>>
<1>4. c \in Seq(S) /\ Len(c) = i /\ \A j \in 1 .. i : c[j] = IF j = i THEN e ELSE l[j]
  BY <1>1
<1> HIDE DEF c
<1>5. InsertAt(l, i, e) = c \o b
  BY <1>3 DEF c
<1>6. c \o b \in Seq(S) /\ Len(c \o b) = Len(l) + 1
  <2>1. Len(c \o b) = Len(c) + Len(b)
    BY <1>2, <1>4, ConcatProperties
  <2>2. Len(c) + Len(b) = Len(l) + 1
    <3>1. i \in Int /\ Len(l) \in Int
      OBVIOUS
    <3>2. Len(c) = i /\ Len(b) = Len(l) + 1 - i
      BY <1>2, <1>4
    <3> QED
      BY ONLY <3>1, <3>2
  <2> QED
    BY <1>2, <1>4, <2>1, <2>2
<1>7. ASSUME NEW j \in 1 .. Len(l) + 1
      PROVE  (c \o b)[j] = IF j < i THEN l[j] ELSE IF j = i THEN e ELSE l[j - 1]
  <2>1. CASE j <= i
    BY <1>2, <1>4, <2>1
  <2>2. CASE j > i
    <3>1. (c \o b)[j] = b[j - i]
      BY <1>2, <1>4, <2>2
    <3>2. j - i \in 1 .. Len(l) + 1 - i /\ i + (j - i) - 1 = j - 1
      BY <2>2
    <3> QED
      BY <1>2, <2>2, <3>1, <3>2
  <2>3. j <= i \/ j > i
    OBVIOUS
  <2> QED
    BY <2>1, <2>2, <2>3
<1> QED
  BY <1>5, <1>6, <1>7

\* A fallback goes where its score belongs.
LEMMA InsertFallbackKeeps ==
  ASSUME NEW score \in Nat, NEW lo \in Nat, NEW hi \in Nat,
         NEW fbs \in Fallbacks(score, lo, hi), NEW f \in FallbackFor(score, lo, hi)
  PROVE  InsertFallback(fbs, f) \in Fallbacks(score, lo, hi)
<1> DEFINE S == FallbackFor(score, lo, hi)
           lower == {i \in DOMAIN fbs : f.score > fbs[i].score}
           r == InsertFallback(fbs, f)
<1>1. fbs \in Seq(S) /\ Ranked(fbs)
  BY DEF Fallbacks
<1>2. \A x \in S : x.score \in Nat
  BY DEF FallbackFor, Fallback
<1>3. \A i \in DOMAIN fbs : fbs[i] \in S
  BY <1>1
<1>4. CASE lower = {}
  <2>1. r = Append(fbs, f)
    BY <1>4 DEF InsertFallback
  <2>2. r \in Seq(S)
    BY <1>1, <2>1
  <2>3. Ranked(r)
    BY <1>1, <1>2, <1>3, <1>4, <2>1 DEF Ranked
  <2> QED
    BY <2>2, <2>3 DEF Fallbacks
<1>5. CASE lower # {}
  <2> DEFINE k == Min(lower)
  <2>1. k \in lower /\ \A x \in lower : k <= x
    <3>1. lower \in SUBSET Nat
      BY <1>1
    <3> HIDE DEF lower
    <3> QED
      BY <1>5, <3>1, MinIsLeast
  <2>2. r = InsertAt(fbs, k, f)
    BY <1>5 DEF InsertFallback
  <2> HIDE DEF k, r
  <2>3. k \in 1 .. Len(fbs) /\ f.score > fbs[k].score
    BY <1>1, <2>1
  <2>4. /\ r \in Seq(S) /\ Len(r) = Len(fbs) + 1
        /\ \A j \in 1 .. Len(fbs) + 1 :
              r[j] = IF j < k THEN fbs[j] ELSE IF j = k THEN f ELSE fbs[j - 1]
    BY <1>1, <2>2, <2>3, InsertAtFacts
  <2>5. \A j \in 1 .. Len(fbs) : j < k => f.score <= fbs[j].score
    BY <1>1, <1>2, <1>3, <2>1, <2>3
  <2>6. ASSUME NEW i \in 1 .. Len(r), NEW j \in 1 .. Len(r), i < j
        PROVE  r[j].score <= r[i].score
    <3>1. \A x, y \in 1 .. Len(fbs) : x <= y => fbs[y].score <= fbs[x].score
      BY <1>1, <1>2, <1>3 DEF Ranked
    <3>2. CASE j < k
      BY SMTT(30), <2>3, <2>4, <2>6, <3>1, <3>2
    <3>3. CASE j = k
      BY SMTT(30), <2>3, <2>4, <2>5, <2>6, <3>3
    <3>4. CASE j > k /\ i < k
      BY SMTT(30), <2>3, <2>4, <2>6, <3>1, <3>4
    <3>5. CASE j > k /\ i >= k
      <4>1. j - 1 \in 1 .. Len(fbs) /\ k <= j - 1 /\ r[j] = fbs[j - 1]
        BY <1>1, <2>3, <2>4, <2>6, <3>5
      <4>2. fbs[j - 1].score <= fbs[k].score
        BY <2>3, <3>1, <4>1
      <4>3. CASE i = k
        <5>1. r[i] = f
          BY <2>4, <2>6, <4>3
        <5>2. f.score \in Nat /\ fbs[k].score \in Nat /\ fbs[j - 1].score \in Nat
          BY <1>1, <1>2, <1>3, <2>3, <4>1
        <5> QED
          BY SMTT(30), <2>3, <4>1, <4>2, <5>1, <5>2
      <4>4. CASE i > k
        <5>1. i - 1 \in 1 .. Len(fbs) /\ i - 1 <= j - 1 /\ r[i] = fbs[i - 1]
          BY <1>1, <2>3, <2>4, <2>6, <4>4
        <5> QED
          BY <3>1, <4>1, <5>1
      <4> QED
        BY <2>3, <3>5, <4>3, <4>4
    <3> QED
      BY <2>3, <3>2, <3>3, <3>4, <3>5
  <2>7. Ranked(r)
    BY <2>4, <2>6 DEF Ranked
  <2> QED
    BY <2>4, <2>7 DEF Fallbacks, r
<1> QED
  BY <1>4, <1>5

LEMMA GoodFacts ==
  ASSUME NEW p \in Good
  PROVE  /\ p.lo \in Nat /\ p.hi \in Nat /\ p.score \in Nat /\ p.lo < p.hi
         /\ p.fb \in Fallbacks(p.score, p.lo, p.hi)
BY DEF Good, Plan

\* A plan of the same range and no higher score becomes a fallback.
LEMMA AddFallbackKeeps ==
  ASSUME NEW p \in Good, NEW q \in Good, p.lo = q.lo, p.hi = q.hi, q.score <= p.score
  PROVE  /\ AddFallback(p, q) \in Good
         /\ AddFallback(p, q).lo = p.lo /\ AddFallback(p, q).hi = p.hi
<1> DEFINE S == FallbackFor(p.score, p.lo, p.hi)
           A == Fallbacks(p.score, p.lo, p.hi)
           fbs == FoldLeft(InsertFallback, p.fb, q.fb)
           r == InsertFallback(fbs, AsFallback(q))
<1>1. p.fb \in A
  BY GoodFacts
<1>2. q.fb \in Seq(S)
  <2>1. q.fb \in Seq(FallbackFor(q.score, q.lo, q.hi))
    BY GoodFacts DEF Fallbacks
  <2>2. FallbackFor(q.score, q.lo, q.hi) \subseteq S
    BY GoodFacts DEF FallbackFor, Fallback
  <2> QED
    BY <2>1, <2>2
<1>3. \A x \in A, y \in S : InsertFallback(x, y) \in A
  BY InsertFallbackKeeps, GoodFacts
<1>4. fbs \in A
  <2> HIDE DEF A, S
  <2> QED
    BY <1>1, <1>2, <1>3, FoldKeeps
<1>5. AsFallback(q) \in S
  BY DEF AsFallback, FallbackFor, Fallback, Good, Plan
<1>6. r \in A
  BY <1>3, <1>4, <1>5
<1>7. AddFallback(p, q) = [p EXCEPT !.fb = r]
  BY DEF AddFallback
<1> HIDE DEF r
<1>8. r \in Seq(Fallback)
  BY <1>6, FallbacksAreFallbacks
<1> QED
  BY <1>6, <1>7, <1>8 DEF Good, Plan

\* A split halves the range of a plan and of its fallbacks.
LEMMA PartsAreGood ==
  ASSUME NEW p \in Good, NEW mid \in Nat, p.lo < mid, mid < p.hi
  PROVE  /\ LowerPart(p, mid) \in Good /\ UpperPart(p, mid) \in Good
         /\ LowerPart(p, mid).lo = p.lo /\ LowerPart(p, mid).hi = mid
         /\ UpperPart(p, mid).lo = mid /\ UpperPart(p, mid).hi = p.hi
<1> DEFINE l == [i \in DOMAIN p.fb |-> [p.fb[i] EXCEPT !.hi = mid]]
           u == [i \in DOMAIN p.fb |-> [p.fb[i] EXCEPT !.lo = mid]]
<1>1. /\ p.fb \in Seq(FallbackFor(p.score, p.lo, p.hi)) /\ Ranked(p.fb)
      /\ DOMAIN p.fb = 1 .. Len(p.fb) /\ Len(p.fb) \in Nat
  BY GoodFacts DEF Fallbacks
<1>2. ASSUME NEW i \in DOMAIN p.fb
      PROVE  /\ l[i] \in FallbackFor(p.score, p.lo, mid) /\ l[i].score = p.fb[i].score
             /\ u[i] \in FallbackFor(p.score, mid, p.hi) /\ u[i].score = p.fb[i].score
  <2>1. p.fb[i] \in FallbackFor(p.score, p.lo, p.hi)
    BY <1>1
  <2> QED
    BY <2>1, GoodFacts DEF FallbackFor, Fallback
<1>3. l \in Fallbacks(p.score, p.lo, mid) /\ u \in Fallbacks(p.score, mid, p.hi)
  <2>1. DOMAIN l = DOMAIN p.fb /\ DOMAIN u = DOMAIN p.fb
    OBVIOUS
  <2> HIDE DEF l, u
  <2>2. l \in Seq(FallbackFor(p.score, p.lo, mid)) /\ u \in Seq(FallbackFor(p.score, mid, p.hi))
    <3>1. /\ l \in [1 .. Len(p.fb) -> FallbackFor(p.score, p.lo, mid)]
          /\ u \in [1 .. Len(p.fb) -> FallbackFor(p.score, mid, p.hi)]
      BY <1>1, <1>2 DEF l, u
    <3> QED
      BY <1>1, <3>1, FunctionIsSeq
  <2>3. Ranked(l) /\ Ranked(u)
    BY <1>1, <1>2, <2>1 DEF Ranked
  <2> QED
    BY <2>2, <2>3 DEF Fallbacks
<1>4. l \in Seq(Fallback) /\ u \in Seq(Fallback)
  BY <1>3 DEF Fallbacks, FallbackFor
<1>5. /\ LowerPart(p, mid) = [p EXCEPT !.hi = mid, !.fb = l]
      /\ UpperPart(p, mid) = [p EXCEPT !.lo = mid, !.fb = u]
  BY DEF LowerPart, UpperPart
<1> HIDE DEF l, u
<1> QED
  BY <1>3, <1>4, <1>5 DEF Good, Plan

\* Joining adjoining plans whose fallbacks adjoin one by one.
LEMMA CompactIsGood ==
  ASSUME NEW p \in Good, NEW q \in Good, Compactible(p, q)
  PROVE  /\ Compact(p, q) \in Good
         /\ Compact(p, q).lo = p.lo /\ Compact(p, q).hi = q.hi
<1> DEFINE l == [i \in DOMAIN p.fb |-> [p.fb[i] EXCEPT !.hi = q.fb[i].hi]]
<1>1. /\ p.fb \in Seq(FallbackFor(p.score, p.lo, p.hi)) /\ Ranked(p.fb)
      /\ DOMAIN p.fb = 1 .. Len(p.fb) /\ Len(p.fb) \in Nat
      /\ q.fb \in Seq(FallbackFor(q.score, q.lo, q.hi))
      /\ DOMAIN q.fb = 1 .. Len(q.fb)
  BY GoodFacts DEF Fallbacks
<1>2. DOMAIN p.fb = DOMAIN q.fb /\ p.hi = q.lo
  BY <1>1 DEF Compactible, Adjoins
<1>3. ASSUME NEW i \in DOMAIN p.fb
      PROVE  l[i] \in FallbackFor(p.score, p.lo, q.hi) /\ l[i].score = p.fb[i].score
  <2>1. p.fb[i] \in FallbackFor(p.score, p.lo, p.hi) /\ q.fb[i] \in FallbackFor(q.score, q.lo, q.hi)
    BY <1>1, <1>2
  <2> QED
    BY <2>1, GoodFacts DEF FallbackFor, Fallback
<1>4. l \in Fallbacks(p.score, p.lo, q.hi)
  <2>1. DOMAIN l = DOMAIN p.fb
    OBVIOUS
  <2> HIDE DEF l
  <2>2. l \in Seq(FallbackFor(p.score, p.lo, q.hi))
    <3>1. l \in [1 .. Len(p.fb) -> FallbackFor(p.score, p.lo, q.hi)]
      BY <1>1, <1>3 DEF l
    <3> QED
      BY <1>1, <3>1, FunctionIsSeq
  <2>3. Ranked(l)
    BY <1>1, <1>3, <2>1 DEF Ranked
  <2> QED
    BY <2>2, <2>3 DEF Fallbacks
<1>5. l \in Seq(Fallback)
  BY <1>4 DEF Fallbacks, FallbackFor
<1>6. Compact(p, q) = [p EXCEPT !.hi = q.hi, !.fb = l]
  BY DEF Compact
<1>7. p.lo < q.hi /\ q.hi \in Nat
  BY <1>2, GoodFacts
<1> HIDE DEF l
<1> QED
  BY <1>4, <1>5, <1>6, <1>7 DEF Good, Plan

-----------------------------------------------------------------------------
(* Lists of plans *)

\* The ranges of p and q do not overlap, or are the same.
Disjoint(p, q) == p.hi <= q.lo \/ q.hi <= p.lo

Aligned(p, q) == Disjoint(p, q) \/ (p.lo = q.lo /\ p.hi = q.hi)

Ordered == {l \in Seq(Good) : \A i, j \in DOMAIN l : i < j => l[i].hi <= l[j].lo}

LEMMA OrderedFacts ==
  ASSUME NEW l \in Ordered
  PROVE  /\ l \in Seq(Good) /\ Len(l) \in Nat /\ DOMAIN l = 1 .. Len(l)
         /\ \A i \in 1 .. Len(l) : l[i] \in Good /\ l[i].lo \in Nat /\ l[i].hi \in Nat /\ l[i].lo < l[i].hi
         /\ \A i, j \in 1 .. Len(l) : i < j => l[i].hi <= l[j].lo
BY GoodFacts DEF Ordered

LEMMA OrderedIsNormal ==
  ASSUME NEW l \in Ordered
  PROVE  Normal(l)
<1>1. \A i, j \in DOMAIN l : i < j => l[i].hi <= l[j].lo
  BY DEF Ordered
<1>2. ASSUME NEW i \in DOMAIN l, NEW k \in DOMAIN l[i].fb
      PROVE  /\ l[i].fb[k].lo = l[i].lo /\ l[i].fb[k].hi = l[i].hi
             /\ l[i].fb[k].score <= IF k = 1 THEN l[i].score ELSE l[i].fb[k - 1].score
  <2>1. l[i] \in Good
    BY OrderedFacts
  <2> DEFINE fb == l[i].fb
  <2>2. fb \in Seq(FallbackFor(l[i].score, l[i].lo, l[i].hi)) /\ Ranked(fb)
    BY <2>1, GoodFacts DEF Fallbacks
  <2> HIDE DEF fb
  <2>3. fb[k] \in FallbackFor(l[i].score, l[i].lo, l[i].hi) /\ k \in 1 .. Len(fb)
    BY <2>2 DEF fb
  <2>4. k # 1 => k - 1 \in DOMAIN fb /\ k \in DOMAIN fb /\ k - 1 < k
    BY <2>2, <2>3
  <2>5. k # 1 => fb[k].score <= fb[k - 1].score
    BY <2>2, <2>4 DEF Ranked
  <2> QED
    BY <2>3, <2>5 DEF FallbackFor, fb
<1>3. \A i \in DOMAIN l : l[i].lo < l[i].hi
  BY OrderedFacts
<1> QED
  BY <1>1, <1>2, <1>3 DEF Normal

\* Where a plan is split.
LEMMA SplitPosFacts ==
  ASSUME NEW p \in Good, NEW q \in Good
  PROVE  /\ SplitPos(p, q) \in Nat
         /\ SplitPos(p, q) # 0 => /\ p.lo < SplitPos(p, q) /\ SplitPos(p, q) < p.hi
                                  /\ \/ SplitPos(p, q) = q.lo
                                     \/ SplitPos(p, q) = q.hi /\ q.lo <= p.lo
         /\ SplitPos(p, q) = 0 => /\ q.lo <= p.lo \/ p.hi <= q.lo
                                  /\ q.hi <= p.lo \/ p.hi <= q.hi
BY GoodFacts DEF SplitPos

\* The list after a split.
LEMMA SplitAtFacts ==
  ASSUME NEW l \in Ordered, NEW i \in 1 .. Len(l), NEW mid \in Nat,
         mid # 0 => l[i].lo < mid /\ mid < l[i].hi
  PROVE  /\ SplitAt(l, i, mid) \in Ordered
         /\ mid = 0 => SplitAt(l, i, mid) = l
         /\ mid # 0 => /\ Len(SplitAt(l, i, mid)) = Len(l) + 1
                       /\ \A j \in 1 .. Len(l) + 1 :
                             SplitAt(l, i, mid)[j] = IF j < i THEN l[j]
                                                     ELSE IF j = i THEN LowerPart(l[i], mid)
                                                     ELSE IF j = i + 1 THEN UpperPart(l[i], mid)
                                                     ELSE l[j - 1]
<1>1. SUFFICES ASSUME mid # 0
               PROVE  /\ SplitAt(l, i, mid) \in Ordered
                      /\ Len(SplitAt(l, i, mid)) = Len(l) + 1
                      /\ \A j \in 1 .. Len(l) + 1 :
                             SplitAt(l, i, mid)[j] = IF j < i THEN l[j]
                                                     ELSE IF j = i THEN LowerPart(l[i], mid)
                                                     ELSE IF j = i + 1 THEN UpperPart(l[i], mid)
                                                     ELSE l[j - 1]
  BY DEF SplitAt
<1> DEFINE lp == LowerPart(l[i], mid)
           up == UpperPart(l[i], mid)
           a == SubSeq(l, 1, i - 1)
           b == SubSeq(l, i + 1, Len(l))
           c == a \o <<lp, up>>
           r == SplitAt(l, i, mid)
<1>2. l \in Seq(Good) /\ Len(l) \in Nat /\ i \in Nat /\ i >= 1 /\ i <= Len(l)
  BY OrderedFacts
<1>3. l[i] \in Good
  BY OrderedFacts
<1>4. /\ lp \in Good /\ lp.lo = l[i].lo /\ lp.hi = mid
      /\ up \in Good /\ up.lo = mid /\ up.hi = l[i].hi
  BY <1>1, <1>3, PartsAreGood
<1>5. r = c \o b
  BY <1>1 DEF SplitAt
<1> HIDE DEF lp, up, r
<1>6. a \in Seq(Good) /\ Len(a) = i - 1 /\ \A j \in 1 .. i - 1 : a[j] = l[j]
  BY <1>2
<1>7. b \in Seq(Good) /\ Len(b) = Len(l) - i /\ \A j \in 1 .. Len(l) - i : b[j] = l[i + j]
  <2>1. b \in Seq(Good) /\ Len(b) = Len(l) - i
    BY <1>2
  <2>2. \A j \in 1 .. Len(l) - i : b[j] = l[(i + 1) + j - 1]
    BY <1>2
  <2> QED
    BY <1>2, <2>1, <2>2
<1> HIDE DEF a, b
<1> DEFINE d == <<lp, up>>
<1>8. d \in Seq(Good) /\ Len(d) = 2 /\ d[1] = lp /\ d[2] = up
  BY <1>4
<1> HIDE DEF d
<1>9. /\ c \in Seq(Good) /\ Len(c) = i + 1
      /\ \A j \in 1 .. i + 1 : c[j] = IF j <= i - 1 THEN a[j] ELSE d[j - (i - 1)]
  <2>1. c = a \o d
    BY DEF c, d
  <2>2. i - 1 + 2 = i + 1
    BY <1>2
  <2>3. /\ a \o d \in Seq(Good) /\ Len(a \o d) = Len(a) + Len(d)
        /\ \A j \in 1 .. Len(a) + Len(d) :
              (a \o d)[j] = IF j <= Len(a) THEN a[j] ELSE d[j - Len(a)]
    BY <1>6, <1>8, ConcatProperties
  <2>4. Len(a) + Len(d) = i + 1
    BY <1>6, <1>8, <2>2
  <2> HIDE DEF c
  <2> QED
    BY ONLY <1>6, <2>1, <2>3, <2>4
<1> HIDE DEF c
<1>10. /\ r \in Seq(Good) /\ Len(r) = Len(l) + 1
       /\ \A j \in 1 .. Len(l) + 1 : r[j] = IF j <= i + 1 THEN c[j] ELSE b[j - (i + 1)]
  <2>1. (i + 1) + (Len(l) - i) = Len(l) + 1
    BY <1>2
  <2>2. /\ c \o b \in Seq(Good) /\ Len(c \o b) = Len(c) + Len(b)
        /\ \A j \in 1 .. Len(c) + Len(b) :
              (c \o b)[j] = IF j <= Len(c) THEN c[j] ELSE b[j - Len(c)]
    BY <1>7, <1>9, ConcatProperties
  <2>3. Len(c) = i + 1 /\ Len(c) + Len(b) = Len(l) + 1
    BY <1>7, <1>9, <2>1
  <2> QED
    BY ONLY <1>5, <2>2, <2>3
<1>11. ASSUME NEW j \in 1 .. Len(l) + 1
       PROVE  r[j] = IF j < i THEN l[j] ELSE IF j = i THEN lp ELSE IF j = i + 1 THEN up ELSE l[j - 1]
  <2>1. CASE j < i
    BY <1>2, <1>6, <1>9, <1>10, <2>1
  <2>2. CASE j = i
    BY <1>2, <1>8, <1>9, <1>10, <2>2
  <2>3. CASE j = i + 1
    BY <1>2, <1>8, <1>9, <1>10, <2>3
  <2>4. CASE j > i + 1
    <3>1. j - (i + 1) \in 1 .. Len(l) - i /\ i + (j - (i + 1)) = j - 1
      BY <1>2, <2>4
    <3> QED
      BY <1>2, <1>7, <1>10, <2>4, <3>1
  <2> QED
    BY <1>2, <2>1, <2>2, <2>3, <2>4
<1>12. ASSUME NEW x \in 1 .. Len(r), NEW y \in 1 .. Len(r), x < y
       PROVE  r[x].hi <= r[y].lo
  <2> DEFINE Old(j) == IF j <= i THEN j ELSE j - 1
  <2>1. \A j \in 1 .. Len(r) :
          /\ Old(j) \in 1 .. Len(l)
          /\ l[Old(j)].lo <= r[j].lo /\ r[j].hi <= l[Old(j)].hi
          /\ r[j].lo \in Nat /\ r[j].hi \in Nat
    <3> SUFFICES ASSUME NEW j \in 1 .. Len(r)
                 PROVE  /\ Old(j) \in 1 .. Len(l)
                        /\ l[Old(j)].lo <= r[j].lo /\ r[j].hi <= l[Old(j)].hi
                        /\ r[j].lo \in Nat /\ r[j].hi \in Nat
      OBVIOUS
    <3>1. Old(j) \in 1 .. Len(l)
      BY <1>2, <1>10
    <3>2. l[Old(j)].lo \in Nat /\ l[Old(j)].hi \in Nat
      BY <3>1, OrderedFacts
    <3>3. CASE j < i \/ j > i + 1
      <4>1. r[j] = l[Old(j)]
        BY <1>2, <1>10, <1>11, <3>3
      <4> QED
        BY SMTT(30), <3>1, <3>2, <4>1
    <3>4. CASE j = i
      BY <1>1, <1>2, <1>4, <1>10, <1>11, <3>1, <3>2, <3>4
    <3>5. CASE j = i + 1
      <4>1. Old(j) = i /\ j \in 1 .. Len(l) + 1 /\ ~(j < i) /\ j # i
        BY <1>2, <1>10, <3>5
      <4>2. r[j] = up
        BY <1>11, <3>5, <4>1
      <4> QED
        BY SMTT(30), <1>1, <1>4, <3>1, <3>2, <4>1, <4>2
    <3> QED
      BY <1>2, <1>10, <3>3, <3>4, <3>5
  <2>2. CASE Old(x) < Old(y)
    <3>1. l[Old(x)].hi <= l[Old(y)].lo
      BY <2>1, <2>2, OrderedFacts
    <3>2. l[Old(x)].hi \in Nat /\ l[Old(y)].lo \in Nat
      BY <2>1, OrderedFacts
    <3>3. r[x].hi <= l[Old(x)].hi /\ r[x].hi \in Nat
      BY <2>1
    <3>4. l[Old(y)].lo <= r[y].lo /\ r[y].lo \in Nat
      BY <2>1
    <3> HIDE DEF Old
    <3> QED
      BY ONLY SMTT(30), <3>1, <3>2, <3>3, <3>4
  <2>3. CASE ~(Old(x) < Old(y))
    <3>1. x = i /\ y = i + 1
      BY <1>2, <1>10, <1>12, <2>3
    <3>2. r[x] = lp /\ r[y] = up
      BY <1>2, <1>10, <1>11, <3>1
    <3> QED
      BY <1>4, <3>2
  <2> QED
    BY <2>2, <2>3
<1>13. r \in Ordered
  BY <1>10, <1>12 DEF Ordered
<1> QED
  BY <1>10, <1>11, <1>13 DEF lp, up, r

\* The range of every plan of the list stays what it was.
LEMMA SameRangesOrdered ==
  ASSUME NEW l \in Ordered, NEW i \in 1 .. Len(l), NEW p \in Good,
         p.lo = l[i].lo, p.hi = l[i].hi
  PROVE  [l EXCEPT ![i] = p] \in Ordered
<1> DEFINE r == [l EXCEPT ![i] = p]
<1>1. r \in Seq(Good) /\ DOMAIN r = DOMAIN l
  BY OrderedFacts
<1>2. \A j \in DOMAIN l : r[j].lo = l[j].lo /\ r[j].hi = l[j].hi
  BY OrderedFacts
<1> HIDE DEF r
<1>3. \A x, y \in DOMAIN l : x < y => l[x].hi <= l[y].lo
  BY DEF Ordered
<1> QED
  BY <1>1, <1>2, <1>3 DEF Ordered, r

LEMMA InsertedOrdered ==
  ASSUME NEW l \in Ordered, NEW i \in 1 .. Len(l), NEW p \in Good,
         \A j \in 1 .. i - 1 : l[j].hi <= p.lo, p.hi <= l[i].lo
  PROVE  InsertAt(l, i, p) \in Ordered
<1> DEFINE r == InsertAt(l, i, p)
<1>1. /\ r \in Seq(Good) /\ Len(r) = Len(l) + 1
      /\ \A j \in 1 .. Len(l) + 1 : r[j] = IF j < i THEN l[j] ELSE IF j = i THEN p ELSE l[j - 1]
  BY OrderedFacts, InsertAtFacts
<1> HIDE DEF r
<1>2. i \in Nat /\ Len(l) \in Nat /\ i >= 1 /\ i <= Len(l)
  BY OrderedFacts
<1>3. p.lo \in Nat /\ p.hi \in Nat
  BY GoodFacts
<1>4. ASSUME NEW x \in 1 .. Len(r), NEW y \in 1 .. Len(r), x < y
      PROVE  r[x].hi <= r[y].lo
  <2>1. CASE x < i /\ y < i
    <3>1. r[x] = l[x] /\ r[y] = l[y] /\ x \in 1 .. Len(l) /\ y \in 1 .. Len(l)
      BY <1>1, <1>2, <2>1
    <3> QED
      BY <1>4, <3>1, OrderedFacts
  <2>2. CASE x < i /\ y = i
    BY <1>1, <1>2, <1>4, <2>2
  <2>3. CASE x < i /\ y > i
    <3>1. y - 1 \in 1 .. Len(l) /\ x \in 1 .. Len(l) /\ x < y - 1 /\ r[y] = l[y - 1] /\ r[x] = l[x]
      BY <1>1, <1>2, <1>4, <2>3
    <3> QED
      BY <3>1, OrderedFacts
  <2>4. CASE x = i /\ y > i
    <3>1. y - 1 \in 1 .. Len(l) /\ i <= y - 1 /\ r[y] = l[y - 1] /\ r[x] = p
      BY <1>1, <1>2, <1>4, <2>4
    <3>2. l[i].lo <= l[y - 1].lo /\ l[y - 1].lo \in Nat /\ l[i].lo \in Nat
      <4>1. i < y - 1 => l[i].hi <= l[y - 1].lo
        BY <3>1, OrderedFacts
      <4>2. /\ l[i].lo \in Nat /\ l[i].hi \in Nat /\ l[i].lo < l[i].hi
            /\ l[y - 1].lo \in Nat
        BY <3>1, OrderedFacts
      <4> QED
        BY <1>2, <3>1, <4>1, <4>2
    <3> QED
      BY <1>3, <3>1, <3>2
  <2>5. CASE x > i
    <3>1. x - 1 \in 1 .. Len(l) /\ y - 1 \in 1 .. Len(l) /\ x - 1 < y - 1
      BY <1>1, <1>2, <1>4, <2>5
    <3>2. r[y] = l[y - 1] /\ r[x] = l[x - 1]
      BY <1>1, <1>2, <1>4, <2>5
    <3> QED
      BY <3>1, <3>2, OrderedFacts
  <2> QED
    BY <1>1, <1>2, <1>4, <2>1, <2>2, <2>3, <2>4, <2>5
<1> QED
  BY <1>1, <1>4 DEF Ordered, r

\* p takes the place of the i-th plan and the next one.
Joined(l, i, p) == RemoveAt([l EXCEPT ![i] = p], i + 1)

\* Two neighbours become one.
LEMMA JoinedOrdered ==
  ASSUME NEW l \in Ordered, NEW i \in 1 .. Len(l) - 1, NEW p \in Good,
         p.lo = l[i].lo, p.hi = l[i + 1].hi
  PROVE  /\ Joined(l, i, p) \in Ordered
         /\ Len(Joined(l, i, p)) = Len(l) - 1
         /\ \A j \in 1 .. Len(l) - 1 :
               Joined(l, i, p)[j] = IF j < i THEN l[j] ELSE IF j = i THEN p ELSE l[j + 1]
<1> DEFINE e == [l EXCEPT ![i] = p]
           a == SubSeq(e, 1, i)
           b == SubSeq(e, i + 2, Len(e))
           r == RemoveAt(e, i + 1)
<1>1. l \in Seq(Good) /\ Len(l) \in Nat /\ i \in Nat /\ i >= 1 /\ i + 1 <= Len(l) /\ i + 1 \in 1 .. Len(l)
  BY OrderedFacts
<1>2. e \in Seq(Good) /\ Len(e) = Len(l)
  BY <1>1
<1>3. \A j \in 1 .. Len(l) : e[j] = IF j = i THEN p ELSE l[j]
  BY <1>1
<1>4. r = a \o b
  <2>1. i + 1 - 1 = i /\ i + 1 + 1 = i + 2
    BY <1>1
  <2> HIDE DEF e
  <2> QED
    BY <2>1 DEF RemoveAt
<1> HIDE DEF e, r
<1>5. a \in Seq(Good) /\ Len(a) = i /\ \A j \in 1 .. i : a[j] = e[j]
  BY <1>1, <1>2
<1>6. b \in Seq(Good) /\ Len(b) = Len(l) - (i + 1) /\ \A j \in 1 .. Len(l) - (i + 1) : b[j] = e[i + 1 + j]
  <2>1. b \in Seq(Good) /\ Len(b) = Len(l) - (i + 1)
    BY <1>1, <1>2
  <2>2. \A j \in 1 .. Len(l) - (i + 1) : b[j] = e[(i + 2) + j - 1]
    BY <1>1, <1>2
  <2>3. \A j \in 1 .. Len(l) - (i + 1) : (i + 2) + j - 1 = i + 1 + j
    BY <1>1
  <2> QED
    BY <2>1, <2>2, <2>3
<1> HIDE DEF a, b
<1>7. /\ a \o b \in Seq(Good) /\ Len(a \o b) = Len(a) + Len(b)
      /\ \A j \in 1 .. Len(a) + Len(b) : (a \o b)[j] = IF j <= Len(a) THEN a[j] ELSE b[j - Len(a)]
  BY <1>5, <1>6, ConcatProperties
<1>8. Len(a) + Len(b) = Len(l) - 1
  BY <1>1, <1>5, <1>6
<1>9. r \in Seq(Good) /\ Len(r) = Len(l) - 1
  BY <1>4, <1>7, <1>8
<1>10. ASSUME NEW j \in 1 .. Len(r)
       PROVE  /\ j < i => r[j] = l[j]
              /\ j = i => r[j] = p
              /\ j > i => r[j] = l[j + 1] /\ j + 1 \in 1 .. Len(l)
  <2>1. j \in 1 .. Len(a) + Len(b) /\ j \in Nat
    BY <1>8, <1>9
  <2>2. CASE j <= i
    <3>1. r[j] = e[j] /\ j \in 1 .. Len(l)
      BY <1>1, <1>4, <1>5, <1>7, <2>1, <2>2
    <3> QED
      BY <1>3, <2>1, <2>2, <3>1
  <2>3. CASE j > i
    <3>1. r[j] = b[j - i]
      BY <1>4, <1>5, <1>7, <2>1, <2>3
    <3>2. j - i \in 1 .. Len(l) - (i + 1) /\ i + 1 + (j - i) = j + 1 /\ j + 1 \in 1 .. Len(l) /\ j + 1 # i
      BY <1>1, <1>9, <2>3
    <3>3. r[j] = e[j + 1]
      BY <1>6, <3>1, <3>2
    <3> QED
      BY <1>3, <2>3, <3>2, <3>3
  <2> QED
    BY <1>1, <2>1, <2>2, <2>3
<1>11. ASSUME NEW x \in 1 .. Len(r), NEW y \in 1 .. Len(r), x < y
       PROVE  r[x].hi <= r[y].lo
  <2>1. x \in 1 .. Len(l) /\ y \in 1 .. Len(l)
    BY <1>1, <1>9
  <2>2. CASE y < i
    BY SMTT(30), <1>1, <1>10, <1>11, <2>1, <2>2, OrderedFacts
  <2>3. CASE y = i
    BY <1>1, <1>10, <1>11, <2>1, <2>3, OrderedFacts
  <2>4. CASE y > i /\ x < i
    <3>1. r[y] = l[y + 1] /\ y + 1 \in 1 .. Len(l) /\ r[x] = l[x] /\ x < y + 1
      BY <1>10, <1>11, <2>1, <2>4
    <3> QED
      BY <2>1, <3>1, OrderedFacts
  <2>5. CASE y > i /\ x = i
    <3>1. r[y] = l[y + 1] /\ y + 1 \in 1 .. Len(l) /\ r[x] = p /\ i + 1 < y + 1
      BY <1>1, <1>10, <1>11, <2>1, <2>5
    <3> QED
      BY <1>1, <3>1, OrderedFacts
  <2>6. CASE y > i /\ x > i
    <3>1. r[y] = l[y + 1] /\ y + 1 \in 1 .. Len(l) /\ r[x] = l[x + 1] /\ x + 1 \in 1 .. Len(l) /\ x + 1 < y + 1
      BY <1>10, <1>11, <2>1, <2>6
    <3> QED
      BY <3>1, OrderedFacts
  <2> QED
    BY <1>1, <1>11, <2>1, <2>2, <2>3, <2>4, <2>5, <2>6
<1>12. r \in Ordered
  BY SMTT(30), <1>9, <1>11 DEF Ordered
<1>13. \A j \in 1 .. Len(l) - 1 : r[j] = IF j < i THEN l[j] ELSE IF j = i THEN p ELSE l[j + 1]
  BY <1>1, <1>9, <1>10
<1> QED
  BY <1>9, <1>12, <1>13 DEF r, e, Joined

\* One list after another.
LEMMA ConcatOrdered ==
  ASSUME NEW l \in Ordered, NEW m \in Ordered,
         \A i \in 1 .. Len(l), j \in 1 .. Len(m) : l[i].hi <= m[j].lo
  PROVE  l \o m \in Ordered
<1> DEFINE r == l \o m
<1>1. /\ r \in Seq(Good) /\ Len(r) = Len(l) + Len(m)
      /\ \A j \in 1 .. Len(l) + Len(m) : r[j] = IF j <= Len(l) THEN l[j] ELSE m[j - Len(l)]
  BY OrderedFacts, ConcatProperties
<1>2. Len(l) \in Nat /\ Len(m) \in Nat
  BY OrderedFacts
<1> HIDE DEF r
<1>3. ASSUME NEW x \in 1 .. Len(r), NEW y \in 1 .. Len(r), x < y
      PROVE  r[x].hi <= r[y].lo
  <2>1. CASE y <= Len(l)
    <3>1. r[y] = l[y] /\ r[x] = l[x] /\ x \in 1 .. Len(l) /\ y \in 1 .. Len(l)
      BY <1>1, <1>2, <1>3, <2>1
    <3> QED
      BY <1>3, <3>1, OrderedFacts
  <2>2. CASE x <= Len(l) /\ y > Len(l)
    <3>1. r[y] = m[y - Len(l)] /\ r[x] = l[x] /\ x \in 1 .. Len(l) /\ y - Len(l) \in 1 .. Len(m)
      BY <1>1, <1>2, <1>3, <2>2
    <3> QED
      BY <3>1
  <2>3. CASE x > Len(l)
    <3>1. /\ y - Len(l) \in 1 .. Len(m) /\ x - Len(l) \in 1 .. Len(m)
          /\ x - Len(l) < y - Len(l)
      BY <1>1, <1>2, <1>3, <2>3
    <3>2. r[y] = m[y - Len(l)] /\ r[x] = m[x - Len(l)]
      BY <1>1, <1>2, <1>3, <2>3
    <3> QED
      BY <3>1, <3>2, OrderedFacts
  <2> QED
    BY <1>1, <1>2, <1>3, <2>1, <2>2, <2>3
<1>4. r \in Ordered
  BY <1>1, <1>3 DEF Ordered
<1> QED
  BY <1>4 DEF r

\* The rest of a list.
LEMMA TailOrdered ==
  ASSUME NEW l \in Ordered, l # <<>>
  PROVE  /\ Tail(l) \in Ordered /\ Len(Tail(l)) = Len(l) - 1
         /\ \A j \in 1 .. Len(l) - 1 : Tail(l)[j] = l[j + 1]
         /\ Head(l) = l[1] /\ 1 \in 1 .. Len(l) /\ Head(l) \in Good
<1>1. l \in Seq(Good) /\ Len(l) \in Nat /\ Len(l) >= 1
  BY OrderedFacts
<1>2. /\ Tail(l) \in Seq(Good) /\ Len(Tail(l)) = Len(l) - 1
      /\ \A j \in 1 .. Len(l) - 1 : Tail(l)[j] = l[j + 1]
  BY <1>1
<1>3. ASSUME NEW x \in 1 .. Len(l) - 1, NEW y \in 1 .. Len(l) - 1, x < y
      PROVE  Tail(l)[x].hi <= Tail(l)[y].lo
  <2>1. x + 1 \in 1 .. Len(l) /\ y + 1 \in 1 .. Len(l) /\ x + 1 < y + 1
    BY <1>1, <1>3
  <2> QED
    BY <1>2, <2>1, OrderedFacts
<1>4. Tail(l) \in Ordered
  <2> DEFINE t == Tail(l)
  <2>1. /\ t \in Seq(Good) /\ DOMAIN t = 1 .. Len(l) - 1
        /\ \A x, y \in 1 .. Len(l) - 1 : x < y => t[x].hi <= t[y].lo
    BY <1>1, <1>2, <1>3
  <2> HIDE DEF t
  <2>2. t \in Ordered
    BY <2>1 DEF Ordered
  <2> QED
    BY <2>2 DEF t
<1> QED
  BY <1>1, <1>2, <1>4

-----------------------------------------------------------------------------
(* The inductive invariant *)

\* The pieces of the new plan but the last, and the plans of the list that the
\* iterator has passed, are aligned.
Normalised ==
    /\ new # <<>>
    /\ \A j \in 1 .. Len(head), k \in 1 .. Len(new) :
          k < Len(new) \/ j < exist => Aligned(head[j], new[k])

\* Pieces and plans are aligned; the pieces come after what has been passed.
Merging ==
    \A j \in 1 .. Len(head), k \in 1 .. Len(new) :
        /\ Aligned(head[j], new[k])
        /\ j < exist => head[j].hi <= new[k].lo

IInv ==
    /\ list \in [Containers -> Ordered]
    /\ head \in Ordered /\ new \in Ordered /\ todo \in Seq(Good)
    /\ exist \in Nat \ {0}
    /\ pc # "idle" => what.dst \in Containers
    /\ pc = "normalise" => Normalised
    /\ pc = "add" => Merging

LEMMA EmptyIsOrdered == <<>> \in Ordered
BY DEF Ordered

LEMMA OneIsOrdered ==
  ASSUME NEW p \in Good
  PROVE  <<p>> \in Ordered
BY DEF Ordered

LEMMA InitIInv == Init => IInv
BY EmptyIsOrdered DEF Init, IInv

LEMMA AddIInv ==
  ASSUME IInv, NEW c \in Containers, NEW a \in Attr, Add(c, a)
  PROVE  IInv'
<1>1. a.prepare \in Prepares /\ a.score \in Nat /\ a.lo \in Nat /\ a.hi \in Nat
  BY PlansAssumption DEF Attr, Prepares
<1>2. NewPlan(a) \in Good
  <2>1. <<>> \in Fallbacks(a.score, a.lo, a.hi)
    BY DEF Fallbacks, Ranked
  <2>2. a.lo < a.hi
    BY DEF Add, Valid
  <2> QED
    BY <1>1, <2>1, <2>2 DEF NewPlan, Good, Plan
<1>3. /\ pc' = "normalise" /\ new' = <<NewPlan(a)>> /\ head' = list[c] /\ exist' = 1
      /\ what'.dst = c /\ UNCHANGED <<list, todo>>
  BY DEF Add
<1>4. list[c] \in Ordered
  BY DEF IInv
<1>5. Normalised'
  BY <1>3, <1>4, OrderedFacts DEF Normalised
<1> QED
  BY <1>2, <1>3, <1>4, <1>5, OneIsOrdered DEF IInv

LEMMA TakeIInv ==
  ASSUME IInv, Take
  PROVE  IInv'
<1>1. /\ pc = "take" /\ pc' = "normalise" /\ new' = <<Head(todo)>> /\ exist' = 1 /\ todo' = Tail(todo)
      /\ UNCHANGED <<list, what, head>>
  BY DEF Take
<1>2. Head(todo) \in Good /\ Tail(todo) \in Seq(Good)
  BY DEF Take, IInv
<1>3. Normalised'
  BY <1>1, OrderedFacts DEF Normalised, IInv
<1> QED
  BY <1>1, <1>2, <1>3, OneIsOrdered DEF IInv

\* The lists of an iteration of the normalising loop.
LEMMA NormaliseLists ==
  ASSUME IInv, pc = "normalise", NormaliseGoesOn
  PROVE  /\ exist \in 1 .. Len(head)
         /\ NewPiece \in Good /\ NewPiece = new[Len(new)] /\ Len(new) \in 1 .. Len(new)
         /\ head[exist] \in Good
         /\ ExistSplit \in Nat
         /\ ExistSplit # 0 => head[exist].lo < ExistSplit /\ ExistSplit < head[exist].hi
         /\ SplitHead \in Ordered
         /\ exist \in 1 .. Len(SplitHead)
         /\ SplitHead[exist] \in Good
         /\ SplitHead[exist].lo = head[exist].lo
         /\ SplitHead[exist].hi = IF ExistSplit = 0 THEN head[exist].hi ELSE ExistSplit
         /\ NewSplit \in Nat
         /\ NewSplit # 0 => NewPiece.lo < NewSplit /\ NewSplit < NewPiece.hi
<1>1. exist \in 1 .. Len(head) /\ head \in Ordered /\ new \in Ordered /\ new # <<>>
  BY OrderedFacts DEF IInv, NormaliseGoesOn, Normalised
<1>2. NewPiece \in Good /\ NewPiece = new[Len(new)] /\ Len(new) \in 1 .. Len(new)
  <2>1. Len(new) \in 1 .. Len(new)
    BY <1>1, OrderedFacts
  <2> QED
    BY <1>1, <2>1, OrderedFacts DEF NewPiece, Last
<1>3. head[exist] \in Good
  BY <1>1, OrderedFacts
<1>4. /\ ExistSplit \in Nat
      /\ ExistSplit # 0 => head[exist].lo < ExistSplit /\ ExistSplit < head[exist].hi
  BY <1>2, <1>3, SplitPosFacts DEF ExistSplit
<1>5. /\ SplitHead \in Ordered
      /\ ExistSplit = 0 => SplitHead = head
      /\ ExistSplit # 0 => /\ Len(SplitHead) = Len(head) + 1
                           /\ \A j \in 1 .. Len(head) + 1 :
                               SplitHead[j] = IF j < exist THEN head[j]
                                              ELSE IF j = exist THEN LowerPart(head[exist], ExistSplit)
                                              ELSE IF j = exist + 1 THEN UpperPart(head[exist], ExistSplit)
                                              ELSE head[j - 1]
  BY <1>1, <1>4, SplitAtFacts DEF SplitHead
<1>6. exist \in 1 .. Len(SplitHead)
  BY <1>1, <1>5, OrderedFacts
<1>7. SplitHead[exist] \in Good
  BY <1>5, <1>6, OrderedFacts
<1>8. /\ SplitHead[exist].lo = head[exist].lo
      /\ SplitHead[exist].hi = IF ExistSplit = 0 THEN head[exist].hi ELSE ExistSplit
  <2>1. CASE ExistSplit = 0
    BY <1>5, <2>1
  <2>2. CASE ExistSplit # 0
    <3>1. exist \in 1 .. Len(head) + 1 /\ ~(exist < exist)
      BY <1>1, OrderedFacts
    <3>2. SplitHead[exist] = LowerPart(head[exist], ExistSplit)
      BY <1>5, <2>2, <3>1
    <3> QED
      BY <1>3, <1>4, <2>2, <3>2, PartsAreGood
  <2> QED
    BY <2>1, <2>2
<1>9. NewSplit \in Nat /\ (NewSplit # 0 => NewPiece.lo < NewSplit /\ NewSplit < NewPiece.hi)
  BY <1>2, <1>7, SplitPosFacts DEF NewSplit
<1> QED
  BY <1>1, <1>2, <1>3, <1>4, <1>5, <1>6, <1>7, <1>8, <1>9

\* A split of the existing plan leaves the pieces aligned.
LEMMA SplitHeadAligned ==
  ASSUME IInv, pc = "normalise", NormaliseGoesOn,
         NEW j \in 1 .. Len(SplitHead), NEW k \in 1 .. Len(new),
         k < Len(new) \/ j < exist
  PROVE  Aligned(SplitHead[j], new[k])
<1>1. /\ exist \in 1 .. Len(head) /\ head \in Ordered /\ new \in Ordered
      /\ NewPiece \in Good /\ NewPiece = new[Len(new)] /\ Len(new) \in 1 .. Len(new)
      /\ head[exist] \in Good
  BY NormaliseLists DEF IInv
<1>2. \A x \in 1 .. Len(head), y \in 1 .. Len(new) :
         y < Len(new) \/ x < exist => Aligned(head[x], new[y])
  BY DEF IInv, Normalised
<1>3. /\ ExistSplit \in Nat
      /\ ExistSplit # 0 => /\ head[exist].lo < ExistSplit /\ ExistSplit < head[exist].hi
                           /\ ExistSplit = NewPiece.lo \/ ExistSplit = NewPiece.hi
  BY <1>1, SplitPosFacts DEF ExistSplit
<1>4. CASE ExistSplit = 0
  <2>1. SplitHead = head
    BY <1>4 DEF SplitHead, SplitAt
  <2> QED
    BY <1>2, <2>1
<1>5. CASE ExistSplit # 0
  <2>1. /\ Len(SplitHead) = Len(head) + 1
        /\ \A x \in 1 .. Len(head) + 1 :
              SplitHead[x] = IF x < exist THEN head[x]
                             ELSE IF x = exist THEN LowerPart(head[exist], ExistSplit)
                             ELSE IF x = exist + 1 THEN UpperPart(head[exist], ExistSplit)
                             ELSE head[x - 1]
    BY <1>1, <1>3, <1>5, SplitAtFacts DEF SplitHead
  <2>2. CASE j < exist
    <3>1. SplitHead[j] = head[j] /\ j \in 1 .. Len(head)
      BY <1>1, <2>1, <2>2
    <3> QED
      BY <1>2, <2>2, <3>1
  <2>3. CASE j > exist + 1
    <3>1. SplitHead[j] = head[j - 1] /\ j - 1 \in 1 .. Len(head) /\ ~(j < exist)
      BY <1>1, <2>1, <2>3
    <3> QED
      BY <1>2, <3>1
  <2>4. CASE j = exist \/ j = exist + 1
    <3> DEFINE E == head[exist]
               K == new[k]
    <3>1. k < Len(new)
      BY <1>1, <2>4
    <3>2. K.lo \in Nat /\ K.hi \in Nat /\ K.lo < K.hi /\ K.hi <= NewPiece.lo
      BY <1>1, <3>1, OrderedFacts
    <3>3. /\ E.lo \in Nat /\ E.hi \in Nat
          /\ NewPiece.lo \in Nat /\ NewPiece.hi \in Nat /\ NewPiece.lo < NewPiece.hi
      BY <1>1, GoodFacts
    <3>4. Aligned(E, K)
      BY <1>1, <1>2, <3>1
    <3>5. E.hi <= K.lo \/ K.hi <= E.lo
      BY <1>3, <1>5, <3>2, <3>3, <3>4 DEF Aligned, Disjoint
    <3>6. \/ SplitHead[j].lo = E.lo /\ SplitHead[j].hi = ExistSplit
          \/ SplitHead[j].lo = ExistSplit /\ SplitHead[j].hi = E.hi
      <4>1. SplitHead[j] = LowerPart(E, ExistSplit) \/ SplitHead[j] = UpperPart(E, ExistSplit)
        BY <1>1, <2>1, <2>4
      <4> QED
        BY <1>1, <1>3, <1>5, <4>1, PartsAreGood
    <3> HIDE DEF E, K
    <3>7. Disjoint(SplitHead[j], K)
      BY SMTT(30), <1>3, <1>5, <3>2, <3>3, <3>5, <3>6 DEF Disjoint, E
    <3> QED
      BY <3>7 DEF Aligned, K
  <2> QED
    BY <1>1, <2>1, <2>2, <2>3, <2>4
<1> QED
  BY <1>4, <1>5

LEMMA NormaliseIInv ==
  ASSUME IInv, Normalise
  PROVE  IInv'
<1>1. /\ pc = "normalise" /\ NormaliseGoesOn
      /\ head' = SplitHead /\ new' = SplitAt(new, Len(new), NewSplit) /\ exist' = NextExist
      /\ UNCHANGED <<list, pc, what, todo>>
  BY DEF Normalise
<1> DEFINE N == NewPiece
           E == SplitHead[exist]
           n == Len(new)
<1>2. /\ exist \in 1 .. Len(head) /\ exist \in 1 .. Len(SplitHead)
      /\ SplitHead \in Ordered /\ E \in Good
      /\ NewPiece \in Good /\ NewPiece = new[n] /\ n \in 1 .. n
      /\ NewSplit \in Nat
      /\ NewSplit # 0 => NewPiece.lo < NewSplit /\ NewSplit < NewPiece.hi
      /\ E.lo = head[exist].lo
  BY <1>1, NormaliseLists
<1>3. new \in Ordered
  BY DEF IInv
<1>4. /\ new' \in Ordered
      /\ NewSplit = 0 => new' = new
      /\ NewSplit # 0 => /\ Len(new') = n + 1
                         /\ \A x \in 1 .. n + 1 :
                               new'[x] = IF x < n THEN new[x]
                                         ELSE IF x = n THEN LowerPart(N, NewSplit)
                                         ELSE IF x = n + 1 THEN UpperPart(N, NewSplit)
                                         ELSE new[x - 1]
  BY <1>1, <1>2, <1>3, SplitAtFacts
<1>5. /\ N.lo \in Nat /\ N.hi \in Nat /\ N.lo < N.hi
      /\ E.lo \in Nat /\ E.hi \in Nat /\ E.lo < E.hi
      /\ N.hi > E.lo
  BY <1>1, <1>2, GoodFacts DEF NormaliseGoesOn
<1>6. \A j \in 1 .. Len(SplitHead), k \in 1 .. n : k < n \/ j < exist => Aligned(SplitHead[j], new[k])
  BY <1>1, SplitHeadAligned
\* Plans that the iterator has passed end before the new plan begins.
<1>7. ASSUME NEW j \in 1 .. Len(SplitHead), j < exist
      PROVE  SplitHead[j].hi <= N.lo
  <2>1. Aligned(SplitHead[j], N)
    BY <1>2, <1>6, <1>7
  <2>2. /\ SplitHead[j].lo \in Nat /\ SplitHead[j].hi \in Nat /\ SplitHead[j].lo < SplitHead[j].hi
        /\ SplitHead[j].hi <= E.lo
    BY <1>2, <1>7, OrderedFacts
  <2> HIDE DEF E, N
  <2> QED
    BY <1>5, <2>1, <2>2 DEF Aligned, Disjoint
<1>8. ASSUME NEW j \in 1 .. Len(SplitHead), j > exist
      PROVE  E.hi <= SplitHead[j].lo /\ SplitHead[j].lo \in Nat
  BY <1>2, <1>8, OrderedFacts
<1>9. /\ NewSplit # 0 => \/ NewSplit = E.lo
                         \/ NewSplit = E.hi /\ E.lo <= N.lo
      /\ NewSplit = 0 => /\ E.lo <= N.lo \/ N.hi <= E.lo
                         /\ E.hi <= N.lo \/ N.hi <= E.hi
  BY <1>2, SplitPosFacts DEF NewSplit
\* The existing plan is not split by the new one any more.
<1>10. /\ ExistSplit # 0 => E.hi = N.lo \/ E.hi = N.hi
       /\ E.lo < N.lo => E.hi <= N.lo
  <2>1. /\ ExistSplit \in Nat
        /\ ExistSplit # 0 => \/ ExistSplit = N.lo
                             \/ ExistSplit = N.hi /\ N.lo <= head[exist].lo
        /\ ExistSplit = 0 => N.lo <= head[exist].lo \/ head[exist].hi <= N.lo
    BY <1>1, NormaliseLists, SplitPosFacts DEF ExistSplit
  <2>2. E.hi = IF ExistSplit = 0 THEN head[exist].hi ELSE ExistSplit
    BY <1>1, NormaliseLists
  <2> HIDE DEF E, N
  <2> QED
    BY <1>2, <1>5, <2>1, <2>2 DEF E, N
\* The lower half of the new plan is aligned with all plans.
<1>11. ASSUME NewSplit # 0, NEW j \in 1 .. Len(SplitHead)
       PROVE  Aligned(SplitHead[j], LowerPart(N, NewSplit))
  <2>1. LowerPart(N, NewSplit).lo = N.lo /\ LowerPart(N, NewSplit).hi = NewSplit
    BY <1>2, <1>11, PartsAreGood
  <2> HIDE DEF E, N
  <2>2. CASE j < exist
    BY <1>7, <2>1, <2>2 DEF Aligned, Disjoint
  <2>3. CASE j = exist
    <3>1. E = SplitHead[j]
      BY <2>3 DEF E
    <3>2. E.hi = NewSplit => E.lo = N.lo \/ E.hi <= N.lo
      BY <1>2, <1>5, <1>9, <1>10, <1>11 DEF N
    <3> QED
      BY <1>2, <1>5, <1>9, <1>11, <2>1, <3>1, <3>2 DEF Aligned, Disjoint, N
  <2>4. CASE j > exist
    <3>1. NewSplit <= SplitHead[j].lo
      BY <1>2, <1>5, <1>8, <1>9, <1>11, <2>4
    <3> QED
      BY <2>1, <3>1 DEF Aligned, Disjoint
  <2> QED
    BY <1>2, <2>2, <2>3, <2>4
<1>12. Normalised'
  <2>1. new' # <<>>
    BY <1>2, <1>3, <1>4, OrderedFacts
  <2>2. ASSUME NEW j \in 1 .. Len(SplitHead), NEW k \in 1 .. Len(new'), k < Len(new') \/ j < NextExist
        PROVE  Aligned(SplitHead[j], new'[k])
    <3>1. CASE NewSplit # 0
      <4>1. NextExist = exist
        BY <3>1 DEF NextExist
      <4>2. CASE k < n
        BY SMTT(30), <1>2, <1>4, <1>6, <3>1, <4>2
      <4>3. CASE k = n
        BY <1>2, <1>4, <1>11, <3>1, <4>3
      <4>4. CASE k = n + 1
        <5>1. new'[k] = UpperPart(N, NewSplit) /\ j < exist
          BY <1>2, <1>4, <2>2, <3>1, <4>1, <4>4
        <5>2. UpperPart(N, NewSplit).lo = NewSplit
          BY <1>2, <3>1, PartsAreGood
        <5>3. SplitHead[j].hi <= N.lo /\ SplitHead[j].hi \in Nat
          BY <1>2, <1>7, <5>1, OrderedFacts
        <5> QED
          BY SMTT(30), <1>2, <1>5, <3>1, <5>1, <5>2, <5>3 DEF Aligned, Disjoint
      <4> QED
        BY <1>2, <1>4, <3>1, <4>2, <4>3, <4>4
    <3>2. CASE NewSplit = 0
      <4>1. new' = new /\ k \in 1 .. n
        BY <1>4, <3>2
      <4>2. CASE k < n \/ j < exist
        BY <1>6, <4>1, <4>2
      <4>3. CASE k = n /\ j = exist /\ ExistSplit = 0
        <5>1. new'[k] = N /\ SplitHead[j] = E
          BY <1>2, <4>1, <4>3
        <5>2. E.hi = head[exist].hi
          BY <1>1, <4>3, NormaliseLists
        <5>3. /\ N.lo <= head[exist].lo \/ head[exist].hi <= N.lo
              /\ N.hi <= head[exist].lo \/ head[exist].hi <= N.hi
          BY <1>1, <4>3, NormaliseLists, SplitPosFacts DEF ExistSplit
        <5> HIDE DEF E, N
        <5>4. Aligned(E, N)
          BY SMTT(30), <1>2, <1>5, <1>9, <3>2, <5>2, <5>3 DEF Aligned, Disjoint, E
        <5> QED
          BY <5>1, <5>4
      <4>4. (k < n \/ j < exist) \/ (k = n /\ j = exist /\ ExistSplit = 0)
        <5>1. CASE k < n
          BY <5>1
        <5>2. CASE ~(k < n)
          <6>1. k = n /\ j < NextExist
            BY <1>2, <2>2, <4>1, <5>2
          <6>2. CASE ExistSplit = 0
            BY <1>2, <3>2, <6>1, <6>2 DEF NextExist
          <6>3. CASE ExistSplit # 0
            BY <6>1, <6>3 DEF NextExist
          <6> QED
            BY <6>2, <6>3
        <5> QED
          BY <5>1, <5>2
      <4> QED
        BY <4>2, <4>3, <4>4
    <3> QED
      BY <3>1, <3>2
  <2> QED
    BY <1>1, <2>1, <2>2 DEF Normalised
<1>13. exist' \in Nat \ {0}
  BY <1>1, <1>2 DEF NextExist
<1> QED
  BY <1>1, <1>2, <1>4, <1>12, <1>13 DEF IInv

\* When the loop ends, the last piece is aligned too: it ends before the plans
\* that are left begin.
LEMMA NormaliseEndIInv ==
  ASSUME IInv, NormaliseEnd
  PROVE  IInv'
<1>1. /\ pc = "normalise" /\ ~NormaliseGoesOn /\ exist' = 1 /\ pc' = "add"
      /\ UNCHANGED <<list, what, head, new, todo>>
  BY DEF NormaliseEnd
<1>2. head \in Ordered /\ new \in Ordered /\ new # <<>> /\ exist \in Nat \ {0}
  BY <1>1 DEF IInv, Normalised
<1>3. NewPiece = new[Len(new)] /\ NewPiece.hi \in Nat /\ Len(new) \in 1 .. Len(new)
  BY <1>2, OrderedFacts DEF NewPiece, Last
<1>4. ASSUME NEW j \in 1 .. Len(head), NEW k \in 1 .. Len(new)
      PROVE  Aligned(head[j], new[k])
  <2>1. CASE k < Len(new) \/ j < exist
    BY <1>1, <2>1 DEF IInv, Normalised
  <2>2. CASE k = Len(new) /\ j >= exist
    <3>1. exist \in 1 .. Len(head) /\ head[exist].lo \in Nat
      BY <1>2, <2>2, OrderedFacts
    <3>2. NewPiece.hi <= head[exist].lo
      BY <1>1, <1>2, <1>3, <3>1, OrderedFacts DEF NormaliseGoesOn
    <3>3. head[exist].lo <= head[j].lo /\ head[j].lo \in Nat
      <4>1. exist < j => head[exist].hi <= head[j].lo
        BY <1>2, <3>1, OrderedFacts
      <4>2. /\ head[exist].hi \in Nat /\ head[exist].lo < head[exist].hi
            /\ head[j].lo \in Nat
        BY <1>2, <3>1, OrderedFacts
      <4>3. exist = j \/ exist < j
        BY <1>2, <2>2
      <4> QED
        BY <3>1, <4>1, <4>2, <4>3
    <3> QED
      BY <1>3, <2>2, <3>1, <3>2, <3>3 DEF Aligned, Disjoint
  <2> QED
    BY <1>2, <1>3, <2>1, <2>2
<1>5. Merging'
  BY <1>1, <1>4 DEF Merging
<1> QED
  BY <1>1, <1>2, <1>5 DEF IInv

\* What an iteration of the adding loop starts from.
LEMMA AddLists ==
  ASSUME IInv, MayAdd
  PROVE  /\ pc = "add" /\ head \in Ordered /\ new \in Ordered /\ new # <<>>
         /\ exist \in 1 .. Len(head)
         /\ head[exist] \in Good /\ Head(new) = new[1] /\ 1 \in 1 .. Len(new) /\ Head(new) \in Good
         /\ Tail(new) \in Ordered /\ Len(Tail(new)) = Len(new) - 1
         /\ \A k \in 1 .. Len(new) - 1 :
               /\ Tail(new)[k] = new[k + 1] /\ k + 1 \in 1 .. Len(new)
               /\ Head(new).hi <= Tail(new)[k].lo /\ Tail(new)[k].lo \in Nat
         /\ Aligned(head[exist], Head(new))
         /\ Merging
<1>1. pc = "add" /\ exist <= Len(head) /\ new # <<>> /\ exist \in Nat \ {0}
      /\ head \in Ordered /\ new \in Ordered /\ Merging
  BY DEF MayAdd, IInv
<1>2. exist \in 1 .. Len(head)
  BY <1>1, OrderedFacts
<1>3. head[exist] \in Good
  BY <1>1, <1>2, OrderedFacts
<1>4. /\ Tail(new) \in Ordered /\ Len(Tail(new)) = Len(new) - 1
      /\ \A j \in 1 .. Len(new) - 1 : Tail(new)[j] = new[j + 1]
      /\ Head(new) = new[1] /\ 1 \in 1 .. Len(new) /\ Head(new) \in Good
  BY <1>1, TailOrdered
<1>5. ASSUME NEW k \in 1 .. Len(new) - 1
      PROVE  /\ Tail(new)[k] = new[k + 1] /\ k + 1 \in 1 .. Len(new)
             /\ Head(new).hi <= Tail(new)[k].lo /\ Tail(new)[k].lo \in Nat
  <2>1. k + 1 \in 1 .. Len(new) /\ 1 < k + 1
    BY <1>1, OrderedFacts
  <2> QED
    BY <1>1, <1>4, <2>1, OrderedFacts
<1>6. Aligned(head[exist], Head(new))
  BY <1>1, <1>2, <1>4 DEF Merging
<1> QED
  BY <1>1, <1>2, <1>3, <1>4, <1>5, <1>6

LEMMA AddSameRangeIInv ==
  ASSUME IInv, AddSameRange
  PROVE  IInv'
<1> DEFINE p == IF Head(new).score > head[exist].score THEN AddFallback(Head(new), head[exist])
                ELSE AddFallback(head[exist], Head(new))
<1>1. /\ MayAdd /\ Head(new).lo = head[exist].lo
      /\ head' = [head EXCEPT ![exist] = p] /\ new' = Tail(new) /\ exist' = exist + 1
      /\ UNCHANGED <<list, pc, what, todo>>
  BY DEF AddSameRange
<1>2. Head(new) \in Good /\ head[exist] \in Good /\ Head(new).hi = head[exist].hi
  <2>1. Head(new) \in Good /\ head[exist] \in Good /\ Aligned(head[exist], Head(new))
    BY <1>1, AddLists
  <2> QED
    BY <1>1, <2>1, GoodFacts DEF Aligned, Disjoint
<1>3. p \in Good /\ p.lo = head[exist].lo /\ p.hi = head[exist].hi
  <2>1. CASE Head(new).score > head[exist].score
    <3>1. head[exist].score <= Head(new).score
      BY <1>2, <2>1, GoodFacts
    <3> QED
      BY <1>1, <1>2, <2>1, <3>1, AddFallbackKeeps
  <2>2. CASE ~(Head(new).score > head[exist].score)
    <3>1. Head(new).score <= head[exist].score
      BY <1>2, <2>2, GoodFacts
    <3> QED
      BY <1>1, <1>2, <2>2, <3>1, AddFallbackKeeps
  <2> QED
    BY <2>1, <2>2
<1> HIDE DEF p
<1>4. head' \in Ordered
  BY <1>1, <1>3, AddLists, SameRangesOrdered
<1>5. head \in Ordered /\ new \in Ordered /\ exist \in 1 .. Len(head)
  BY <1>1, AddLists
<1>6. Len(head') = Len(head) /\ \A j \in 1 .. Len(head) : head'[j].lo = head[j].lo /\ head'[j].hi = head[j].hi
  BY <1>1, <1>3, <1>5, OrderedFacts
<1>7. ASSUME NEW j \in 1 .. Len(head'), NEW k \in 1 .. Len(new')
      PROVE  /\ Aligned(head'[j], new'[k])
             /\ j < exist' => head'[j].hi <= new'[k].lo
  <2>1. /\ k \in 1 .. Len(new) - 1 /\ j \in 1 .. Len(head)
        /\ new'[k] = new[k + 1] /\ k + 1 \in 1 .. Len(new)
        /\ Head(new).hi <= new'[k].lo
    BY <1>1, <1>6, AddLists
  <2>2. Aligned(head[j], new[k + 1]) /\ (j < exist => head[j].hi <= new[k + 1].lo)
    BY <1>1, <2>1, AddLists DEF Merging
  <2>3. j < exist' => j < exist \/ j = exist
    BY <1>1, <1>5
  <2> QED
    BY <1>2, <1>6, <2>1, <2>2, <2>3 DEF Aligned, Disjoint
<1>8. Merging'
  BY <1>7 DEF Merging
<1>9. new' \in Ordered /\ exist' \in Nat \ {0} /\ pc = "add"
  BY <1>1, <1>5, AddLists
<1> QED
  BY <1>1, <1>4, <1>8, <1>9 DEF IInv

LEMMA AddBeforeIInv ==
  ASSUME IInv, AddBefore
  PROVE  IInv'
<1>1. /\ MayAdd /\ Head(new).lo < head[exist].lo
      /\ head' = InsertAt(head, exist, Head(new)) /\ new' = Tail(new) /\ exist' = exist + 1
      /\ UNCHANGED <<list, pc, what, todo>>
  BY DEF AddBefore
<1>2. /\ head \in Ordered /\ new \in Ordered /\ exist \in 1 .. Len(head)
      /\ Head(new) \in Good /\ head[exist] \in Good /\ Head(new) = new[1] /\ 1 \in 1 .. Len(new)
      /\ Merging /\ pc = "add"
  BY <1>1, AddLists
<1>3. Head(new).hi <= head[exist].lo
  <2>1. Aligned(head[exist], Head(new))
    BY <1>1, AddLists
  <2> QED
    BY <1>1, <1>2, <2>1, GoodFacts DEF Aligned, Disjoint
<1>4. \A j \in 1 .. exist - 1 : head[j].hi <= Head(new).lo
  BY <1>2, OrderedFacts DEF Merging
<1>5. head' \in Ordered
  BY <1>1, <1>2, <1>3, <1>4, InsertedOrdered
<1>6. /\ Len(head') = Len(head) + 1
      /\ \A j \in 1 .. Len(head) + 1 :
            head'[j] = IF j < exist THEN head[j] ELSE IF j = exist THEN Head(new) ELSE head[j - 1]
  <2>1. head \in Seq(Good) /\ exist \in 1 .. Len(head) + 1
    BY <1>2, OrderedFacts
  <2> DEFINE q == Head(new)
  <2>2. q \in Good /\ head' = InsertAt(head, exist, q)
    BY <1>1, <1>2
  <2> HIDE DEF q
  <2>3. /\ Len(head') = Len(head) + 1
        /\ \A j \in 1 .. Len(head) + 1 :
              head'[j] = IF j < exist THEN head[j] ELSE IF j = exist THEN q ELSE head[j - 1]
    <3>1. /\ Len(InsertAt(head, exist, q)) = Len(head) + 1
          /\ \A j \in 1 .. Len(head) + 1 :
                InsertAt(head, exist, q)[j] =
                    IF j < exist THEN head[j] ELSE IF j = exist THEN q ELSE head[j - 1]
      BY ONLY <2>1, <2>2, InsertAtFacts
    <3> QED
      BY ONLY <2>2, <3>1
  <2> QED
    BY <2>3 DEF q
<1>7. ASSUME NEW j \in 1 .. Len(head'), NEW k \in 1 .. Len(new')
      PROVE  /\ Aligned(head'[j], new'[k])
             /\ j < exist' => head'[j].hi <= new'[k].lo
  <2>1. /\ new'[k] = new[k + 1] /\ k + 1 \in 1 .. Len(new)
        /\ Head(new).hi <= new'[k].lo
    BY <1>1, AddLists
  <2>2. Len(head) \in Nat /\ j \in 1 .. Len(head) + 1
    BY <1>2, <1>6, OrderedFacts
  <2>3. CASE j < exist
    <3>1. head'[j] = head[j] /\ j \in 1 .. Len(head)
      BY <1>2, <1>6, <2>2, <2>3
    <3> QED
      BY <1>2, <2>1, <2>3, <3>1 DEF Merging
  <2>4. CASE j = exist
    <3>1. head'[j] = Head(new)
      BY <1>2, <1>6, <2>2, <2>4
    <3> QED
      BY <2>1, <3>1 DEF Aligned, Disjoint
  <2>5. CASE j > exist
    <3>1. head'[j] = head[j - 1] /\ j - 1 \in 1 .. Len(head) /\ ~(j < exist')
      BY <1>1, <1>2, <1>6, <2>2, <2>5
    <3> QED
      BY <1>2, <2>1, <3>1 DEF Merging
  <2> QED
    BY <1>2, <2>2, <2>3, <2>4, <2>5
<1>8. Merging'
  BY <1>7 DEF Merging
<1>9. new' \in Ordered /\ exist' \in Nat \ {0}
  BY <1>1, <1>2, AddLists
<1> QED
  BY <1>1, <1>2, <1>5, <1>8, <1>9 DEF IInv

LEMMA AddSkipIInv ==
  ASSUME IInv, AddSkip
  PROVE  IInv'
<1>1. /\ MayAdd /\ Head(new).lo > head[exist].lo /\ exist' = exist + 1
      /\ UNCHANGED <<list, pc, what, head, new, todo>>
  BY DEF AddSkip
<1>2. /\ head \in Ordered /\ new \in Ordered /\ exist \in 1 .. Len(head)
      /\ Head(new) \in Good /\ head[exist] \in Good /\ Head(new) = new[1] /\ 1 \in 1 .. Len(new)
      /\ Merging /\ pc = "add"
  BY <1>1, AddLists
<1>3. head[exist].hi <= Head(new).lo
  <2>1. Aligned(head[exist], Head(new))
    BY <1>1, AddLists
  <2> QED
    BY <1>1, <1>2, <2>1, GoodFacts DEF Aligned, Disjoint
<1>4. ASSUME NEW k \in 1 .. Len(new)
      PROVE  head[exist].hi <= new[k].lo
  <2>1. k # 1 => new[1].hi <= new[k].lo
    BY <1>2, OrderedFacts
  <2>2. new[1].lo < new[1].hi /\ new[1].lo \in Nat /\ new[1].hi \in Nat /\ new[k].lo \in Nat
    BY <1>2, OrderedFacts
  <2>3. head[exist].hi \in Nat
    BY <1>2, GoodFacts
  <2> QED
    BY <1>2, <1>3, <2>1, <2>2, <2>3
<1>5. Merging'
  BY <1>1, <1>2, <1>4 DEF Merging
<1> QED
  BY <1>1, <1>2, <1>5 DEF IInv

LEMMA AddEndIInv ==
  ASSUME IInv, AddEnd
  PROVE  IInv'
<1>1. /\ pc = "add" /\ (exist > Len(head) \/ new = <<>>)
      /\ head' = head \o new /\ new' = <<>> /\ exist' = 1 /\ pc' \in {"compact", "take"}
      /\ UNCHANGED <<list, what, todo>>
  BY DEF AddEnd
<1>2. head \in Ordered /\ new \in Ordered /\ exist \in Nat \ {0} /\ Merging
  BY <1>1 DEF IInv
<1>3. \A i \in 1 .. Len(head), j \in 1 .. Len(new) : head[i].hi <= new[j].lo
  BY <1>1, <1>2, OrderedFacts DEF Merging
<1>4. head' \in Ordered
  BY <1>1, <1>2, <1>3, ConcatOrdered
<1> QED
  BY <1>1, <1>4, EmptyIsOrdered DEF IInv

LEMMA CompactJoinIInv ==
  ASSUME IInv, CompactJoin
  PROVE  IInv'
<1> DEFINE p == Compact(head[exist], head[exist + 1])
<1>1. /\ pc = "compact" /\ exist < Len(head) /\ Compactible(head[exist], head[exist + 1])
      /\ head' = RemoveAt([head EXCEPT ![exist] = p], exist + 1)
      /\ UNCHANGED <<list, pc, what, new, exist, todo>>
  BY DEF CompactJoin
<1>2. head \in Ordered /\ exist \in 1 .. Len(head) - 1 /\ exist \in 1 .. Len(head) /\ exist + 1 \in 1 .. Len(head)
  BY <1>1, OrderedFacts DEF IInv
<1>3. p \in Good /\ p.lo = head[exist].lo /\ p.hi = head[exist + 1].hi
  BY <1>1, <1>2, OrderedFacts, CompactIsGood
<1> HIDE DEF p
<1>4. head' \in Ordered
  BY <1>1, <1>2, <1>3, JoinedOrdered DEF Joined
<1> QED
  BY <1>1, <1>4 DEF IInv

\* A call that ends leaves an ordered list, or the one it found.
LEMMA EndOfCallIInv ==
  ASSUME IInv, pc # "idle", NEW h \in Ordered, Reset,
         list' = [list EXCEPT ![what.dst] = h] \/ list' = list
  PROVE  IInv'
BY EmptyIsOrdered DEF IInv, Reset

LEMMA NextIInv == IInv /\ [Next]_vars => IInv'
<1> SUFFICES ASSUME IInv, [Next]_vars PROVE IInv'
  OBVIOUS
<1>1. CASE UNCHANGED vars
  BY <1>1 DEF vars, IInv, Normalised, Merging
<1>2. ASSUME NEW c \in Containers, NEW a \in Attr, Add(c, a) PROVE IInv'
  BY <1>2, AddIInv
<1>3. ASSUME NEW s \in Containers, Merge(s) PROVE IInv'
  BY <1>3, PlansAssumption, OrderedFacts DEF Merge, IInv
<1>4. CASE Take
  BY <1>4, TakeIInv
<1>5. CASE TakeEnd
  BY <1>5 DEF TakeEnd, IInv
<1>6. CASE Normalise
  BY <1>6, NormaliseIInv
<1>7. CASE NormaliseEnd
  BY <1>7, NormaliseEndIInv
<1>8. CASE AddSameRange
  BY <1>8, AddSameRangeIInv
<1>9. CASE AddBefore
  BY <1>9, AddBeforeIInv
<1>10. CASE AddSkip
  BY <1>10, AddSkipIInv
<1>11. CASE AddEnd
  BY <1>11, AddEndIInv
<1>12. CASE CompactJoin
  BY <1>12, CompactJoinIInv
<1>13. CASE CompactSkip
  BY <1>13 DEF CompactSkip, IInv
<1>14. CASE Return
  <2>1. head \in Ordered
    BY DEF IInv
  <2> QED
    BY <1>14, <2>1, EndOfCallIInv DEF Return
<1>15. CASE TakeFails
  <2>1. head \in Ordered
    BY DEF IInv
  <2> QED
    BY <1>15, <2>1, EndOfCallIInv DEF TakeFails, Fail
<1>16. CASE ExistSplitFails
  <2>1. head \in Ordered
    BY DEF IInv
  <2> QED
    BY <1>16, <2>1, EndOfCallIInv DEF ExistSplitFails, Fail
<1>17. CASE NewSplitFails
  <2>1. SplitHead \in Ordered
    BY <1>17, NormaliseLists DEF NewSplitFails
  <2> QED
    BY <1>17, <2>1, EndOfCallIInv DEF NewSplitFails, Fail
<1> QED
  BY <1>1, <1>2, <1>3, <1>4, <1>5, <1>6, <1>7, <1>8, <1>9, <1>10, <1>11, <1>12, <1>13,
     <1>14, <1>15, <1>16, <1>17 DEF Next, Loops, NoMemory

\* The loops keep plans aligned, for any plans, ranges, merges and failures.
THEOREM Invariance == Spec => []IInv
<1>1. Init => IInv
  BY InitIInv
<1>2. IInv /\ [Next]_vars => IInv'
  BY NextIInv
<1> QED
  BY <1>1, <1>2, PTL DEF Spec

\* Between calls plans are sorted by range, ranges do not overlap, and the
\* fallbacks of a plan have its range and are sorted by score (ucg_plans_add,
\* ucg_plans_merge), also after a call that has failed half-way.
THEOREM OrderCorrect == Spec => []SortedAndDisjoint
<1>1. IInv => SortedAndDisjoint
  BY OrderedIsNormal DEF IInv, SortedAndDisjoint
<1> QED
  BY <1>1, Invariance, PTL

-----------------------------------------------------------------------------
(* How often a plan occurs *)

\* The occurrences of k in ks.
Count(ks, k) == Cardinality({i \in DOMAIN ks : ks[i] = k})

Once(e, k) == IF e = k THEN 1 ELSE 0

Keys(fbs) == [i \in DOMAIN fbs |-> Key(fbs[i])]

\* ... in a plan and its fallbacks.
Copies(p, k) == Once(Key(p), k) + Count(Keys(p.fb), k)

LEMMA CountType ==
  ASSUME NEW ks, NEW n \in Nat, DOMAIN ks = 1 .. n, NEW k
  PROVE  Count(ks, k) \in Nat /\ IsFiniteSet({i \in DOMAIN ks : ks[i] = k})
<1>1. IsFiniteSet(1 .. n)
  BY FS_Interval
<1>2. {i \in DOMAIN ks : ks[i] = k} \in SUBSET (1 .. n)
  OBVIOUS
<1>3. IsFiniteSet({i \in DOMAIN ks : ks[i] = k})
  BY <1>1, <1>2, FS_Subset
<1> QED
  BY <1>3, FS_CardinalityType DEF Count

\* r is ks, of length n, with e at position i.
Inserted(r, ks, n, i, e) ==
    /\ DOMAIN ks = 1 .. n /\ DOMAIN r = 1 .. n + 1
    /\ \A j \in 1 .. n + 1 : r[j] = IF j < i THEN ks[j] ELSE IF j = i THEN e ELSE ks[j - 1]

\* Inserting a key adds one occurrence of it.
LEMMA CountInserted ==
  ASSUME NEW ks, NEW r, NEW n \in Nat, NEW i \in 1 .. n + 1, NEW e, NEW k,
         Inserted(r, ks, n, i, e)
  PROVE  Count(r, k) = Count(ks, k) + Once(e, k)
<1> DEFINE S == {j \in DOMAIN ks : ks[j] = k}
           T == {j \in DOMAIN r : r[j] = k}
           U == T \ {i}
           f == [j \in S |-> IF j < i THEN j ELSE j + 1]
<1> USE DEF Inserted
<1>1. IsFiniteSet(S) /\ Cardinality(S) \in Nat /\ IsFiniteSet(T) /\ Cardinality(T) \in Nat
  <2>1. n + 1 \in Nat
    OBVIOUS
  <2> QED
    BY <2>1, CountType DEF Count
<1>2. f \in Bijection(S, U)
  <2>1. ASSUME NEW j \in S PROVE f[j] \in U
    <3>1. CASE j < i
      BY <3>1
    <3>2. CASE j >= i
      <4>1. j + 1 \in 1 .. n + 1 /\ ~(j + 1 < i) /\ j + 1 # i /\ (j + 1) - 1 = j
        BY <3>2
      <4> QED
        BY <3>2, <4>1
    <3> QED
      BY <3>1, <3>2
  <2>2. \A x, y \in S : f[x] = f[y] => x = y
    OBVIOUS
  <2>3. ASSUME NEW u \in U PROVE \E x \in S : f[x] = u
    <3>1. CASE u < i
      <4>1. u \in S /\ f[u] = u
        BY <3>1
      <4> QED
        BY <4>1
    <3>2. CASE u > i
      <4>1. u - 1 \in S
        BY <3>2
      <4>2. f[u - 1] = u
        BY <3>2, <4>1
      <4> QED
        BY <4>1, <4>2
    <3> QED
      BY <3>1, <3>2
  <2>4. f \in [S -> U]
    BY <2>1
  <2> HIDE DEF f, S, U
  <2> QED
    BY <2>2, <2>3, <2>4 DEF Bijection, Injection, Surjection, IsInjective
<1> HIDE DEF f, S, T
<1>3. Cardinality(U) = Cardinality(S)
  BY <1>1, <1>2, FS_Bijection DEF ExistsBijection
<1>4. i \in T <=> e = k
  BY DEF T
<1>5. Cardinality(U) = IF i \in T THEN Cardinality(T) - 1 ELSE Cardinality(T)
  BY <1>1, FS_RemoveElement
<1>6. Count(r, k) = Cardinality(T) /\ Count(ks, k) = Cardinality(S)
  BY DEF Count, S, T
<1> QED
  BY <1>1, <1>3, <1>4, <1>5, <1>6 DEF Once

\* Sequences with the same keys.
LEMMA CountSame ==
  ASSUME NEW f, NEW g, DOMAIN f = DOMAIN g, \A i \in DOMAIN f : Key(f[i]) = Key(g[i])
  PROVE  Keys(f) = Keys(g)
BY DEF Keys

LEMMA CountNothing ==
  ASSUME NEW k
  PROVE  Count(Keys(<<>>), k) = 0
<1>1. {i \in DOMAIN Keys(<<>>) : Keys(<<>>)[i] = k} = {}
  BY DEF Keys
<1> QED
  BY <1>1, FS_EmptySet DEF Count

LEMMA CopiesType ==
  ASSUME NEW p \in Good, NEW k
  PROVE  Copies(p, k) \in Nat
<1>1. p.fb \in Seq(Fallback)
  BY DEF Good, Plan
<1>2. DOMAIN Keys(p.fb) = 1 .. Len(p.fb) /\ Len(p.fb) \in Nat
  BY <1>1 DEF Keys
<1>3. Count(Keys(p.fb), k) \in Nat
  BY <1>2, CountType
<1> QED
  BY <1>3 DEF Copies, Once

\* A new fallback is there once more, the others are as they were.
LEMMA InsertFallbackCounts ==
  ASSUME NEW S, NEW fbs \in Seq(S), NEW f \in S, NEW k
  PROVE  Count(Keys(InsertFallback(fbs, f)), k) = Count(Keys(fbs), k) + Once(Key(f), k)
<1> DEFINE lower == {i \in DOMAIN fbs : f.score > fbs[i].score}
           r == InsertFallback(fbs, f)
           n == Len(fbs)
<1>1. fbs \in Seq(S) /\ n \in Nat /\ DOMAIN fbs = 1 .. n
  OBVIOUS
<1>2. \E i \in 1 .. n + 1 : /\ r \in Seq(S) /\ Len(r) = n + 1
                            /\ \A j \in 1 .. n + 1 :
                                  r[j] = IF j < i THEN fbs[j] ELSE IF j = i THEN f ELSE fbs[j - 1]
  <2>1. CASE lower = {}
    <3>1. r = Append(fbs, f)
      BY <2>1 DEF InsertFallback
    <3>2. n + 1 \in 1 .. n + 1
      BY <1>1
    <3>3. /\ r \in Seq(S) /\ Len(r) = n + 1
          /\ \A j \in 1 .. n + 1 :
                r[j] = IF j < n + 1 THEN fbs[j] ELSE IF j = n + 1 THEN f ELSE fbs[j - 1]
      BY <1>1, <3>1
    <3> QED
      BY <3>2, <3>3
  <2>2. CASE lower # {}
    <3> DEFINE m == Min(lower)
    <3>1. lower \in SUBSET Nat
      BY <1>1
    <3>2. m \in lower
      <4> HIDE DEF lower
      <4> QED
        BY <2>2, <3>1, MinIsLeast
    <3>3. r = InsertAt(fbs, m, f)
      BY <2>2 DEF InsertFallback
    <3> HIDE DEF m, r
    <3>4. m \in 1 .. n + 1
      BY <1>1, <3>2
    <3>5. /\ r \in Seq(S) /\ Len(r) = n + 1
          /\ \A j \in 1 .. n + 1 :
                r[j] = IF j < m THEN fbs[j] ELSE IF j = m THEN f ELSE fbs[j - 1]
      <4> DEFINE q == InsertAt(fbs, m, f)
      <4>1. /\ q \in Seq(S) /\ Len(q) = Len(fbs) + 1
            /\ \A j \in 1 .. Len(fbs) + 1 :
                  q[j] = IF j < m THEN fbs[j] ELSE IF j = m THEN f ELSE fbs[j - 1]
        BY ONLY SMTT(30), <1>1, <3>4, f \in S, InsertAtFacts
      <4> HIDE DEF q
      <4> QED
        BY <3>3, <4>1 DEF q
    <3> QED
      BY <3>4, <3>5
  <2> QED
    BY <2>1, <2>2
<1> HIDE DEF r
<1>3. PICK i \in 1 .. n + 1 : /\ r \in Seq(S) /\ Len(r) = n + 1
                              /\ \A j \in 1 .. n + 1 :
                                    r[j] = IF j < i THEN fbs[j] ELSE IF j = i THEN f ELSE fbs[j - 1]
  BY <1>2
<1>4. DOMAIN Keys(fbs) = 1 .. n /\ DOMAIN Keys(r) = 1 .. n + 1
  BY <1>1, <1>3 DEF Keys
<1>5. ASSUME NEW j \in 1 .. n + 1
      PROVE  Keys(r)[j] = IF j < i THEN Keys(fbs)[j] ELSE IF j = i THEN Key(f) ELSE Keys(fbs)[j - 1]
  <2>1. j \in DOMAIN r
    BY <1>3
  <2>2. Keys(r)[j] = Key(r[j])
    BY <2>1 DEF Keys
  <2>3. CASE j < i
    BY <1>1, <1>3, <2>2, <2>3 DEF Keys
  <2>4. CASE j = i
    BY <1>1, <1>3, <2>2, <2>4 DEF Keys
  <2>5. CASE j > i
    <3>1. j - 1 \in DOMAIN fbs
      BY <1>1, <2>5
    <3> QED
      BY <1>1, <1>3, <2>2, <2>5, <3>1 DEF Keys
  <2> QED
    BY <1>1, <2>3, <2>4, <2>5
<1>6. Count(Keys(r), k) = Count(Keys(fbs), k) + Once(Key(f), k)
  <2>1. Inserted(Keys(r), Keys(fbs), n, i, Key(f))
    BY <1>4, <1>5 DEF Inserted
  <2> QED
    BY <1>1, <2>1, CountInserted
<1> QED
  BY <1>6 DEF r

LEMMA InsertFallbackType ==
  ASSUME NEW S, NEW fbs \in Seq(S), NEW f \in S
  PROVE  InsertFallback(fbs, f) \in Seq(S)
<1> DEFINE lower == {i \in DOMAIN fbs : f.score > fbs[i].score}
<1>1. CASE lower = {}
  BY <1>1 DEF InsertFallback
<1>2. CASE lower # {}
  <2> DEFINE m == Min(lower)
  <2>1. lower \in SUBSET Nat
    OBVIOUS
  <2>2. m \in lower
    <3> HIDE DEF lower
    <3> QED
      BY <1>2, <2>1, MinIsLeast
  <2>3. m \in 1 .. Len(fbs) + 1
    BY <2>2
  <2>4. InsertFallback(fbs, f) = InsertAt(fbs, m, f)
    BY <1>2 DEF InsertFallback
  <2> HIDE DEF m
  <2> QED
    BY <2>3, <2>4, InsertAtFacts
<1> QED
  BY <1>1, <1>2

\* All fallbacks of the one plan go to the other, and the plan itself.
LEMMA AddFallbackCopies ==
  ASSUME NEW p \in Good, NEW q \in Good, NEW k
  PROVE  Copies(AddFallback(p, q), k) = Copies(p, k) + Copies(q, k)
<1> DEFINE n == Len(q.fb)
           S == Seq(Fallback)
           C(x) == Count(Keys(x), k)
           prefix(m) == {i \in 1 .. m : Keys(q.fb)[i] = k}
           F == [m \in Nat |-> {x \in S : C(x) = C(p.fb) + Cardinality(prefix(m))}]
           fbs == FoldLeft(InsertFallback, p.fb, q.fb)
<1>1. p.fb \in S /\ q.fb \in S /\ n \in Nat /\ DOMAIN q.fb = 1 .. n
  BY DEF Good, Plan
<1>2. \A x \in S, y \in Fallback :
        /\ InsertFallback(x, y) \in S
        /\ C(InsertFallback(x, y)) = C(x) + Once(Key(y), k)
  <2>1. ASSUME NEW x \in S, NEW y \in Fallback PROVE C(InsertFallback(x, y)) = C(x) + Once(Key(y), k)
    BY InsertFallbackCounts
  <2>2. ASSUME NEW x \in S, NEW y \in Fallback PROVE InsertFallback(x, y) \in S
    BY InsertFallbackType
  <2> QED
    BY <2>1, <2>2
<1>3. \A x \in S : C(x) \in Nat
  <2> SUFFICES ASSUME NEW x \in S PROVE C(x) \in Nat
    OBVIOUS
  <2>1. DOMAIN Keys(x) = 1 .. Len(x) /\ Len(x) \in Nat
    BY DEF Keys
  <2> QED
    BY <2>1, CountType
<1>4. ASSUME NEW m \in 0 .. n
      PROVE  Cardinality(prefix(m)) \in Nat /\ IsFiniteSet(prefix(m))
  <2>1. IsFiniteSet(1 .. m)
    BY FS_Interval
  <2>2. prefix(m) \in SUBSET (1 .. m)
    OBVIOUS
  <2> HIDE DEF prefix
  <2>3. IsFiniteSet(prefix(m))
    BY <2>1, <2>2, FS_Subset
  <2> QED
    BY <2>3, FS_CardinalityType
<1>5. ASSUME NEW m \in 1 .. n
      PROVE  Cardinality(prefix(m)) = Cardinality(prefix(m - 1)) + Once(Key(q.fb[m]), k)
  <2>1. Keys(q.fb)[m] = Key(q.fb[m])
    BY <1>1 DEF Keys
  <2>2. prefix(m) = IF Key(q.fb[m]) = k THEN prefix(m - 1) \cup {m} ELSE prefix(m - 1)
    BY <2>1
  <2>3. m \notin prefix(m - 1) /\ m - 1 \in 0 .. n
    BY <1>1
  <2> HIDE DEF prefix
  <2>4. Cardinality(prefix(m - 1) \cup {m}) = Cardinality(prefix(m - 1)) + 1
    BY <1>4, <2>3, FS_AddElement
  <2> QED
    BY <1>4, <2>2, <2>3, <2>4 DEF Once
<1>6. p.fb \in F[0]
  <2>1. prefix(0) = {}
    OBVIOUS
  <2>2. Cardinality(prefix(0)) = 0
    BY <2>1, FS_EmptySet
  <2> HIDE DEF prefix
  <2> QED
    BY <1>1, <1>3, <2>2
<1>7. ASSUME NEW m \in 1 .. n, NEW x \in F[m - 1]
      PROVE  InsertFallback(x, q.fb[m]) \in F[m]
  <2>1. m - 1 \in Nat /\ m - 1 \in 0 .. n /\ m \in Nat /\ m \in 0 .. n /\ q.fb[m] \in Fallback
    BY <1>1
  <2> HIDE DEF prefix, C, S
  <2>2. x \in S /\ C(x) = C(p.fb) + Cardinality(prefix(m - 1))
    BY <1>7, <2>1
  <2>3. InsertFallback(x, q.fb[m]) \in S
    BY <1>2, <2>1, <2>2
  <2>4. C(InsertFallback(x, q.fb[m])) = C(x) + Once(Key(q.fb[m]), k)
    BY <1>2, <2>1, <2>2
  <2>5. Cardinality(prefix(m - 1)) \in Nat /\ C(p.fb) \in Nat /\ Once(Key(q.fb[m]), k) \in Nat
    BY <1>1, <1>3, <1>4, <2>1 DEF Once
  <2>6. C(InsertFallback(x, q.fb[m])) = C(p.fb) + Cardinality(prefix(m))
    BY <1>5, <2>2, <2>4, <2>5
  <2> QED
    BY <2>1, <2>3, <2>6
<1>8. fbs \in F[n]
  <2> HIDE DEF F
  <2> QED
    BY <1>1, <1>6, <1>7, FoldStages
<1>9. fbs \in S /\ C(fbs) = C(p.fb) + C(q.fb)
  <2>1. prefix(n) = {i \in DOMAIN Keys(q.fb) : Keys(q.fb)[i] = k}
    BY <1>1 DEF Keys
  <2>2. C(q.fb) = Cardinality(prefix(n))
    BY <2>1 DEF Count
  <2> HIDE DEF prefix, C, S, fbs, n
  <2> QED
    BY <1>1, <1>8, <2>2
<1> DEFINE r == InsertFallback(fbs, AsFallback(q))
<1> HIDE DEF fbs
<1>10. AsFallback(q) \in Fallback /\ Key(AsFallback(q)) = Key(q)
  BY DEF AsFallback, Fallback, Good, Plan, Key
<1>11. C(r) = C(fbs) + Once(Key(q), k)
  BY <1>2, <1>9, <1>10
<1>12. AddFallback(p, q) = [p EXCEPT !.fb = r]
  BY DEF AddFallback, fbs
<1> HIDE DEF r
<1>13. AddFallback(p, q).fb = r /\ Key(AddFallback(p, q)) = Key(p)
  BY <1>12 DEF Good, Plan, Key
<1>14. C(p.fb) \in Nat /\ C(q.fb) \in Nat /\ Once(Key(q), k) \in Nat /\ Once(Key(p), k) \in Nat
  BY <1>1, <1>3 DEF Once
<1> HIDE DEF S
<1> QED
  BY <1>9, <1>11, <1>13, <1>14 DEF Copies

LEMMA PartsCopies ==
  ASSUME NEW p \in Good, NEW mid, NEW k
  PROVE  Copies(LowerPart(p, mid), k) = Copies(p, k) /\ Copies(UpperPart(p, mid), k) = Copies(p, k)
<1> DEFINE l == [i \in DOMAIN p.fb |-> [p.fb[i] EXCEPT !.hi = mid]]
           u == [i \in DOMAIN p.fb |-> [p.fb[i] EXCEPT !.lo = mid]]
<1>1. p.fb \in Seq(Fallback)
  BY DEF Good, Plan
<1>2. \A i \in DOMAIN p.fb : p.fb[i] \in Fallback
  BY <1>1
<1>3. \A i \in DOMAIN p.fb : Key(p.fb[i]) = Key(l[i]) /\ Key(p.fb[i]) = Key(u[i])
  BY <1>2 DEF Key, Fallback
<1>4. DOMAIN l = DOMAIN p.fb /\ DOMAIN u = DOMAIN p.fb
  OBVIOUS
<1>5. LowerPart(p, mid).fb = l /\ UpperPart(p, mid).fb = u
  BY DEF LowerPart, UpperPart, Good, Plan
<1>6. Key(LowerPart(p, mid)) = Key(p) /\ Key(UpperPart(p, mid)) = Key(p)
  BY DEF LowerPart, UpperPart, Good, Plan, Key
<1> HIDE DEF l, u
<1>7. Keys(l) = Keys(p.fb) /\ Keys(u) = Keys(p.fb)
  BY <1>3, <1>4, CountSame
<1> QED
  BY <1>5, <1>6, <1>7 DEF Copies

LEMMA CompactCopies ==
  ASSUME NEW p \in Good, NEW q \in Good, NEW k, Compactible(p, q)
  PROVE  Copies(Compact(p, q), k) = Copies(p, k) /\ Copies(q, k) = Copies(p, k)
<1> DEFINE l == [i \in DOMAIN p.fb |-> [p.fb[i] EXCEPT !.hi = q.fb[i].hi]]
<1>1. p.fb \in Seq(Fallback) /\ q.fb \in Seq(Fallback)
  BY DEF Good, Plan
<1>2. \A i \in DOMAIN p.fb : p.fb[i] \in Fallback
  BY <1>1
<1>3. \A i \in DOMAIN p.fb : Key(p.fb[i]) = Key(l[i])
  BY <1>2 DEF Key, Fallback
<1>4. DOMAIN l = DOMAIN p.fb /\ DOMAIN p.fb = DOMAIN q.fb
  BY <1>1 DEF Compactible
<1>5. Compact(p, q).fb = l /\ Key(Compact(p, q)) = Key(p)
  BY DEF Compact, Good, Plan, Key
<1>6. Key(p) = Key(q) /\ \A i \in DOMAIN p.fb : Key(p.fb[i]) = Key(q.fb[i])
  BY DEF Compactible, Adjoins
<1> HIDE DEF l
<1>7. Keys(l) = Keys(p.fb) /\ Keys(q.fb) = Keys(p.fb)
  BY <1>3, <1>4, <1>6, CountSame
<1> QED
  BY <1>5, <1>6, <1>7 DEF Copies

-----------------------------------------------------------------------------
(* What a list has for a size *)

Covers(p, s) == p.lo <= s /\ s < p.hi

\* The copies of k that the list l has for size s.
Has(l, s, k) ==
    IF \E i \in 1 .. Len(l) : Covers(l[i], s)
    THEN Copies(l[CHOOSE i \in 1 .. Len(l) : Covers(l[i], s)], k)
    ELSE 0

PlanHas(p, s, k) == IF Covers(p, s) THEN Copies(p, k) ELSE 0

\* No two plans of an ordered list cover one size.
LEMMA CoversOnce ==
  ASSUME NEW l \in Ordered, NEW s \in Nat, NEW i \in 1 .. Len(l), NEW j \in 1 .. Len(l),
         Covers(l[i], s), Covers(l[j], s)
  PROVE  i = j
<1>1. ASSUME NEW x \in 1 .. Len(l), NEW y \in 1 .. Len(l), Covers(l[x], s), Covers(l[y], s)
      PROVE  ~(x < y)
  <2>1. x < y => l[x].hi <= l[y].lo
    BY OrderedFacts
  <2>2. l[x].hi \in Nat /\ l[y].lo \in Nat
    BY OrderedFacts
  <2> QED
    BY <1>1, <2>1, <2>2 DEF Covers
<1>2. i \in Nat /\ j \in Nat
  BY OrderedFacts
<1> QED
  BY <1>1, <1>2

LEMMA HasCovered ==
  ASSUME NEW l \in Ordered, NEW s \in Nat, NEW i \in 1 .. Len(l), Covers(l[i], s), NEW k
  PROVE  Has(l, s, k) = Copies(l[i], k)
<1> DEFINE x == CHOOSE j \in 1 .. Len(l) : Covers(l[j], s)
<1>1. x \in 1 .. Len(l) /\ Covers(l[x], s)
  OBVIOUS
<1>2. Has(l, s, k) = Copies(l[x], k)
  BY DEF Has
<1> HIDE DEF x
<1>3. x = i
  BY <1>1, CoversOnce
<1> QED
  BY <1>2, <1>3

LEMMA HasNothing ==
  ASSUME NEW l, NEW s, \A i \in 1 .. Len(l) : ~Covers(l[i], s), NEW k
  PROVE  Has(l, s, k) = 0
BY DEF Has

LEMMA HasType ==
  ASSUME NEW l \in Ordered, NEW s \in Nat, NEW k
  PROVE  Has(l, s, k) \in Nat
<1>1. CASE \A i \in 1 .. Len(l) : ~Covers(l[i], s)
  BY <1>1, HasNothing
<1>2. ASSUME NEW i \in 1 .. Len(l), Covers(l[i], s) PROVE Has(l, s, k) \in Nat
  <2>1. l[i] \in Good
    BY OrderedFacts
  <2> QED
    BY <1>2, <2>1, HasCovered, CopiesType
<1> QED
  BY <1>1, <1>2

\* Lists whose plans for s have the same copies.
LEMMA HasSame ==
  ASSUME NEW l \in Ordered, NEW m \in Ordered, NEW s \in Nat, NEW k,
         \A i \in 1 .. Len(l) : Covers(l[i], s) =>
            \E j \in 1 .. Len(m) : Covers(m[j], s) /\ Copies(m[j], k) = Copies(l[i], k),
         \A j \in 1 .. Len(m) : Covers(m[j], s) => \E i \in 1 .. Len(l) : Covers(l[i], s)
  PROVE  Has(m, s, k) = Has(l, s, k)
<1>1. CASE \A i \in 1 .. Len(l) : ~Covers(l[i], s)
  <2>1. \A j \in 1 .. Len(m) : ~Covers(m[j], s)
    BY <1>1
  <2> QED
    BY <1>1, <2>1, HasNothing
<1>2. ASSUME NEW i \in 1 .. Len(l), Covers(l[i], s) PROVE Has(m, s, k) = Has(l, s, k)
  <2>1. PICK j \in 1 .. Len(m) : Covers(m[j], s) /\ Copies(m[j], k) = Copies(l[i], k)
    BY <1>2
  <2>2. Has(l, s, k) = Copies(l[i], k)
    BY <1>2, HasCovered
  <2>3. Has(m, s, k) = Copies(m[j], k)
    BY <2>1, HasCovered
  <2> QED
    BY <2>1, <2>2, <2>3
<1> QED
  BY <1>1, <1>2

\* A split changes nothing.
LEMMA SplitHas ==
  ASSUME NEW l \in Ordered, NEW i \in 1 .. Len(l), NEW mid \in Nat,
         mid # 0 => l[i].lo < mid /\ mid < l[i].hi, NEW s \in Nat, NEW k
  PROVE  Has(SplitAt(l, i, mid), s, k) = Has(l, s, k)
<1> DEFINE m == SplitAt(l, i, mid)
<1>1. CASE mid = 0
  BY <1>1, SplitAtFacts
<1>2. CASE mid # 0
  <2>1. /\ m \in Ordered /\ Len(m) = Len(l) + 1
        /\ \A j \in 1 .. Len(l) + 1 : m[j] = IF j < i THEN l[j]
                                             ELSE IF j = i THEN LowerPart(l[i], mid)
                                             ELSE IF j = i + 1 THEN UpperPart(l[i], mid)
                                             ELSE l[j - 1]
    BY <1>2, SplitAtFacts
  <2> HIDE DEF m
  <2>2. l[i] \in Good /\ Len(l) \in Nat /\ l[i].lo \in Nat /\ l[i].hi \in Nat
    BY OrderedFacts
  <2>3. /\ LowerPart(l[i], mid).lo = l[i].lo /\ LowerPart(l[i], mid).hi = mid
        /\ UpperPart(l[i], mid).lo = mid /\ UpperPart(l[i], mid).hi = l[i].hi
        /\ Copies(LowerPart(l[i], mid), k) = Copies(l[i], k)
        /\ Copies(UpperPart(l[i], mid), k) = Copies(l[i], k)
    BY <1>2, <2>2, PartsAreGood, PartsCopies
  <2>4. m[i] = LowerPart(l[i], mid) /\ m[i + 1] = UpperPart(l[i], mid)
        /\ i \in 1 .. Len(m) /\ i + 1 \in 1 .. Len(m)
    BY <2>1, <2>2
  <2>5. ASSUME NEW j \in 1 .. Len(l), Covers(l[j], s)
        PROVE  \E x \in 1 .. Len(m) : Covers(m[x], s) /\ Copies(m[x], k) = Copies(l[j], k)
    <3>1. CASE j < i
      <4>1. j \in 1 .. Len(m) /\ m[j] = l[j]
        BY <2>1, <2>2, <3>1
      <4> QED
        BY <2>5, <4>1
    <3>2. CASE j = i /\ s < mid
      BY <2>3, <2>4, <2>5, <3>2 DEF Covers
    <3>3. CASE j = i /\ ~(s < mid)
      <4>1. mid <= s
        BY <3>3
      <4> QED
        BY <2>3, <2>4, <2>5, <3>3, <4>1 DEF Covers
    <3>4. CASE j > i
      <4>1. j + 1 \in 1 .. Len(m) /\ m[j + 1] = l[j]
        BY <2>1, <2>2, <3>4
      <4> QED
        BY <2>5, <4>1
    <3> QED
      BY <3>1, <3>2, <3>3, <3>4
  <2>6. ASSUME NEW j \in 1 .. Len(m), Covers(m[j], s)
        PROVE  \E x \in 1 .. Len(l) : Covers(l[x], s)
    <3>1. CASE j < i
      BY <2>1, <2>2, <2>6, <3>1
    <3>2. CASE j = i \/ j = i + 1
      <4>1. Covers(l[i], s)
        BY <1>2, <2>2, <2>3, <2>4, <2>6, <3>2 DEF Covers
      <4> QED
        BY <4>1
    <3>3. CASE j > i + 1
      <4>1. j - 1 \in 1 .. Len(l) /\ m[j] = l[j - 1]
        BY <2>1, <2>2, <3>3
      <4> QED
        BY <2>6, <4>1
    <3> QED
      BY <2>1, <2>2, <3>1, <3>2, <3>3
  <2>7. Has(m, s, k) = Has(l, s, k)
    BY <2>1, <2>5, <2>6, HasSame
  <2> QED
    BY <2>7 DEF m
<1> QED
  BY <1>1, <1>2

\* Joining equal neighbours changes nothing.
LEMMA JoinedHas ==
  ASSUME NEW l \in Ordered, NEW i \in 1 .. Len(l) - 1, Compactible(l[i], l[i + 1]), NEW s \in Nat, NEW k
  PROVE  Has(Joined(l, i, Compact(l[i], l[i + 1])), s, k) = Has(l, s, k)
<1> DEFINE p == Compact(l[i], l[i + 1])
           m == Joined(l, i, p)
<1>1. /\ Len(l) \in Nat /\ i \in 1 .. Len(l) /\ i + 1 \in 1 .. Len(l)
      /\ l[i] \in Good /\ l[i + 1] \in Good /\ l[i].hi = l[i + 1].lo
  <2>1. Len(l) \in Nat /\ i \in 1 .. Len(l) /\ i + 1 \in 1 .. Len(l)
    BY OrderedFacts
  <2> QED
    BY <2>1, OrderedFacts DEF Compactible, Adjoins
<1>2. p \in Good /\ p.lo = l[i].lo /\ p.hi = l[i + 1].hi
  BY <1>1, CompactIsGood
<1>3. Copies(p, k) = Copies(l[i], k) /\ Copies(l[i + 1], k) = Copies(l[i], k)
  BY <1>1, CompactCopies
<1> HIDE DEF p
<1>4. /\ m \in Ordered /\ Len(m) = Len(l) - 1
      /\ \A j \in 1 .. Len(l) - 1 : m[j] = IF j < i THEN l[j] ELSE IF j = i THEN p ELSE l[j + 1]
  BY <1>2, JoinedOrdered
<1> HIDE DEF m
<1>5. m[i] = p /\ i \in 1 .. Len(m)
  BY <1>1, <1>4
<1>6. /\ l[i].lo \in Nat /\ l[i].hi \in Nat /\ l[i + 1].hi \in Nat
      /\ l[i].lo < l[i].hi /\ l[i + 1].lo < l[i + 1].hi
  BY <1>1, GoodFacts
<1>7. ASSUME NEW j \in 1 .. Len(l), Covers(l[j], s)
      PROVE  \E x \in 1 .. Len(m) : Covers(m[x], s) /\ Copies(m[x], k) = Copies(l[j], k)
  <2>1. CASE j < i
    <3>1. j \in 1 .. Len(m) /\ m[j] = l[j]
      BY <1>1, <1>4, <2>1
    <3> QED
      BY <1>7, <3>1
  <2>2. CASE j = i \/ j = i + 1
    <3>1. Covers(m[i], s)
      BY <1>1, <1>2, <1>5, <1>6, <1>7, <2>2 DEF Covers
    <3>2. Copies(m[i], k) = Copies(l[j], k)
      BY <1>3, <1>5, <2>2
    <3> QED
      BY <1>5, <3>1, <3>2
  <2>3. CASE j > i + 1
    <3>1. j - 1 \in 1 .. Len(m) /\ ~(j - 1 < i) /\ j - 1 # i /\ (j - 1) + 1 = j
      BY <1>1, <1>4, <2>3
    <3>2. m[j - 1] = l[j]
      BY <1>4, <3>1
    <3> QED
      BY <1>7, <3>1, <3>2
  <2> QED
    BY <1>1, <2>1, <2>2, <2>3
<1>8. ASSUME NEW j \in 1 .. Len(m), Covers(m[j], s)
      PROVE  \E x \in 1 .. Len(l) : Covers(l[x], s)
  <2>1. CASE j < i
    <3>1. j \in 1 .. Len(l) /\ m[j] = l[j]
      BY <1>1, <1>4, <2>1
    <3> QED
      BY <1>8, <3>1
  <2>2. CASE j = i
    <3>1. Covers(l[i], s) \/ Covers(l[i + 1], s)
      BY <1>1, <1>2, <1>5, <1>6, <1>8, <2>2 DEF Covers
    <3> QED
      BY <1>1, <3>1
  <2>3. CASE j > i
    <3>1. j + 1 \in 1 .. Len(l) /\ m[j] = l[j + 1]
      BY <1>1, <1>4, <2>3
    <3> QED
      BY <1>8, <3>1
  <2> QED
    BY <1>1, <1>4, <2>1, <2>2, <2>3
<1>9. Has(m, s, k) = Has(l, s, k)
  BY <1>4, <1>7, <1>8, HasSame
<1> QED
  BY <1>9 DEF m, p

LEMMA PlanHasType ==
  ASSUME NEW p \in Good, NEW s, NEW k
  PROVE  PlanHas(p, s, k) \in Nat
BY CopiesType DEF PlanHas

LEMMA HasEmpty ==
  ASSUME NEW s, NEW k
  PROVE  Has(<<>>, s, k) = 0
BY HasNothing

LEMMA HasOne ==
  ASSUME NEW p \in Good, NEW s \in Nat, NEW k
  PROVE  Has(<<p>>, s, k) = PlanHas(p, s, k)
<1> DEFINE l == <<p>>
<1>1. l \in Ordered /\ Len(l) = 1 /\ l[1] = p
  BY OneIsOrdered
<1> HIDE DEF l
<1>2. Has(l, s, k) = PlanHas(p, s, k)
  <2>1. CASE Covers(p, s)
    <3>1. 1 \in 1 .. Len(l) /\ Covers(l[1], s)
      BY <1>1, <2>1
    <3>2. Has(l, s, k) = Copies(l[1], k)
      BY <1>1, <3>1, HasCovered
    <3> QED
      BY <1>1, <2>1, <3>2 DEF PlanHas
  <2>2. CASE ~Covers(p, s)
    <3>1. \A i \in 1 .. Len(l) : ~Covers(l[i], s)
      BY <1>1, <2>2
    <3> QED
      BY <2>2, <3>1, HasNothing DEF PlanHas
  <2> QED
    BY <2>1, <2>2
<1> QED
  BY <1>2 DEF l

\* A list whose ranges a new plan for one of them keeps.
LEMMA ReplacedHas ==
  ASSUME NEW l \in Ordered, NEW i \in 1 .. Len(l), NEW p \in Good,
         p.lo = l[i].lo, p.hi = l[i].hi, NEW s \in Nat, NEW k
  PROVE  Has([l EXCEPT ![i] = p], s, k) = IF Covers(p, s) THEN Copies(p, k) ELSE Has(l, s, k)
<1> DEFINE m == [l EXCEPT ![i] = p]
<1>1. m \in Ordered
  BY SameRangesOrdered
<1>2. Len(m) = Len(l) /\ \A j \in 1 .. Len(l) : m[j] = IF j = i THEN p ELSE l[j]
  BY OrderedFacts
<1> HIDE DEF m
<1>3. CASE Covers(p, s)
  <2>1. i \in 1 .. Len(m) /\ m[i] = p
    BY <1>2
  <2>2. Has(m, s, k) = Copies(p, k)
    BY <1>1, <1>3, <2>1, HasCovered
  <2> QED
    BY <1>3, <2>2 DEF m
<1>4. CASE ~Covers(p, s)
  <2>1. ~Covers(l[i], s)
    BY <1>4 DEF Covers
  <2>2. ASSUME NEW j \in 1 .. Len(l), Covers(l[j], s)
        PROVE  \E x \in 1 .. Len(m) : Covers(m[x], s) /\ Copies(m[x], k) = Copies(l[j], k)
    <3>1. j \in 1 .. Len(m) /\ m[j] = l[j]
      BY <1>2, <2>1, <2>2
    <3> QED
      BY <2>2, <3>1
  <2>3. ASSUME NEW j \in 1 .. Len(m), Covers(m[j], s)
        PROVE  \E x \in 1 .. Len(l) : Covers(l[x], s)
    <3>1. j \in 1 .. Len(l) /\ m[j] = l[j]
      BY <1>2, <1>4, <2>3
    <3> QED
      BY <2>3, <3>1
  <2>4. Has(m, s, k) = Has(l, s, k)
    BY <1>1, <2>2, <2>3, HasSame
  <2> QED
    BY <1>4, <2>4 DEF m
<1> QED
  BY <1>3, <1>4

\* A list with a plan more.
LEMMA InsertedHas ==
  ASSUME NEW l \in Ordered, NEW i \in 1 .. Len(l), NEW p \in Good,
         \A j \in 1 .. i - 1 : l[j].hi <= p.lo, p.hi <= l[i].lo, NEW s \in Nat, NEW k
  PROVE  Has(InsertAt(l, i, p), s, k) = Has(l, s, k) + PlanHas(p, s, k)
<1> DEFINE m == InsertAt(l, i, p)
<1>1. m \in Ordered
  BY InsertedOrdered
<1>2. /\ l \in Seq(Good) /\ Len(l) \in Nat /\ i \in 1 .. Len(l) + 1
      /\ p.lo \in Nat /\ p.hi \in Nat
  BY OrderedFacts, GoodFacts
<1>3. Len(m) = Len(l) + 1
      /\ \A j \in 1 .. Len(l) + 1 : m[j] = IF j < i THEN l[j] ELSE IF j = i THEN p ELSE l[j - 1]
  BY <1>2, InsertAtFacts
<1> HIDE DEF m
<1>4. i \in 1 .. Len(m) /\ m[i] = p
  BY <1>2, <1>3
<1>5. ASSUME NEW j \in 1 .. Len(l)
      PROVE  \E x \in 1 .. Len(m) : x # i /\ m[x] = l[j]
  <2>1. CASE j < i
    <3>1. j \in 1 .. Len(m) /\ m[j] = l[j] /\ j # i
      BY <1>2, <1>3, <2>1
    <3> QED
      BY <3>1
  <2>2. CASE j >= i
    <3>1. j + 1 \in 1 .. Len(m) /\ m[j + 1] = l[j] /\ j + 1 # i
      BY <1>2, <1>3, <2>2
    <3> QED
      BY <3>1
  <2> QED
    BY <1>2, <2>1, <2>2
<1>6. ASSUME NEW x \in 1 .. Len(m), x # i
      PROVE  \E j \in 1 .. Len(l) : m[x] = l[j]
  <2>1. CASE x < i
    BY <1>2, <1>3, <2>1
  <2>2. CASE x > i
    <3>1. x - 1 \in 1 .. Len(l) /\ m[x] = l[x - 1]
      BY <1>2, <1>3, <2>2
    <3> QED
      BY <3>1
  <2> QED
    BY <1>2, <1>3, <1>6, <2>1, <2>2
<1>7. CASE Covers(p, s)
  <2>1. Has(m, s, k) = Copies(p, k)
    BY <1>1, <1>4, <1>7, HasCovered
  <2>2. \A j \in 1 .. Len(l) : ~Covers(l[j], s)
    <3> SUFFICES ASSUME NEW j \in 1 .. Len(l), Covers(l[j], s) PROVE FALSE
      OBVIOUS
    <3>1. PICK x \in 1 .. Len(m) : x # i /\ m[x] = l[j]
      BY <1>5
    <3>2. Covers(m[x], s)
      BY <3>1
    <3> QED
      BY <1>1, <1>4, <1>7, <3>1, <3>2, CoversOnce
  <2>3. Has(l, s, k) = 0
    BY <2>2, HasNothing
  <2>4. PlanHas(p, s, k) = Copies(p, k) /\ Copies(p, k) \in Nat
    BY <1>7, CopiesType DEF PlanHas
  <2> QED
    BY <2>1, <2>3, <2>4 DEF m
<1>8. CASE ~Covers(p, s)
  <2>1. \A j \in 1 .. Len(l) : Covers(l[j], s) =>
           \E x \in 1 .. Len(m) : Covers(m[x], s) /\ Copies(m[x], k) = Copies(l[j], k)
    BY <1>5
  <2>2. \A x \in 1 .. Len(m) : Covers(m[x], s) => \E j \in 1 .. Len(l) : Covers(l[j], s)
    BY <1>4, <1>6, <1>8
  <2>3. Has(m, s, k) = Has(l, s, k)
    BY <1>1, <2>1, <2>2, HasSame
  <2>4. PlanHas(p, s, k) = 0 /\ Has(l, s, k) \in Nat
    BY <1>8, HasType DEF PlanHas
  <2> QED
    BY <2>3, <2>4 DEF m
<1> QED
  BY <1>7, <1>8

\* All of l comes before all of m.
Before(l, m) == \A i \in 1 .. Len(l), j \in 1 .. Len(m) : l[i].hi <= m[j].lo

\* One list after another has what both have.
LEMMA ConcatHas ==
  ASSUME NEW l \in Ordered, NEW m \in Ordered, Before(l, m), NEW s \in Nat, NEW k
  PROVE  Has(l \o m, s, k) = Has(l, s, k) + Has(m, s, k)
<1> DEFINE r == l \o m
<1> USE DEF Before
<1>1. r \in Ordered
  BY ConcatOrdered
<1>2. Len(l) \in Nat /\ Len(m) \in Nat /\ l \in Seq(Good) /\ m \in Seq(Good)
  BY OrderedFacts
<1>3. /\ Len(r) = Len(l) + Len(m)
      /\ \A j \in 1 .. Len(l) + Len(m) : r[j] = IF j <= Len(l) THEN l[j] ELSE m[j - Len(l)]
  BY <1>2, ConcatProperties
<1> HIDE DEF r
<1>4. Has(l, s, k) \in Nat /\ Has(m, s, k) \in Nat
  BY HasType
<1>5. ASSUME NEW i \in 1 .. Len(l), Covers(l[i], s)
      PROVE  Has(r, s, k) = Has(l, s, k) + Has(m, s, k)
  <2>1. i \in 1 .. Len(r) /\ r[i] = l[i]
    BY <1>2, <1>3
  <2>2. Has(r, s, k) = Copies(l[i], k) /\ Has(l, s, k) = Copies(l[i], k)
    BY <1>1, <1>5, <2>1, HasCovered
  <2>3. \A j \in 1 .. Len(m) : ~Covers(m[j], s)
    <3> SUFFICES ASSUME NEW j \in 1 .. Len(m), Covers(m[j], s) PROVE FALSE
      OBVIOUS
    <3>1. l[i].hi <= m[j].lo /\ l[i].hi \in Nat /\ m[j].lo \in Nat
      BY OrderedFacts
    <3> QED
      BY <1>5, <3>1 DEF Covers
  <2>4. Has(m, s, k) = 0
    BY <2>3, HasNothing
  <2> QED
    BY <1>4, <2>2, <2>4
<1>6. ASSUME NEW i \in 1 .. Len(m), Covers(m[i], s), \A j \in 1 .. Len(l) : ~Covers(l[j], s)
      PROVE  Has(r, s, k) = Has(l, s, k) + Has(m, s, k)
  <2>1. Len(l) + i \in 1 .. Len(r) /\ ~(Len(l) + i <= Len(l)) /\ (Len(l) + i) - Len(l) = i
    BY <1>2, <1>3
  <2>2. r[Len(l) + i] = m[i]
    BY <1>2, <1>3, <2>1
  <2>3. Has(r, s, k) = Copies(m[i], k) /\ Has(m, s, k) = Copies(m[i], k)
    BY <1>1, <1>6, <2>1, <2>2, HasCovered
  <2>4. Has(l, s, k) = 0
    BY <1>6, HasNothing
  <2> QED
    BY <1>4, <2>3, <2>4
<1>7. ASSUME \A j \in 1 .. Len(l) : ~Covers(l[j], s), \A j \in 1 .. Len(m) : ~Covers(m[j], s)
      PROVE  Has(r, s, k) = Has(l, s, k) + Has(m, s, k)
  <2>1. ASSUME NEW j \in 1 .. Len(r) PROVE ~Covers(r[j], s)
    <3>1. CASE j <= Len(l)
      <4>1. j \in 1 .. Len(l) /\ r[j] = l[j]
        BY <1>2, <1>3, <3>1
      <4> QED
        BY <1>7, <4>1
    <3>2. CASE j > Len(l)
      <4>1. j - Len(l) \in 1 .. Len(m) /\ r[j] = m[j - Len(l)]
        BY <1>2, <1>3, <3>2
      <4> QED
        BY <1>7, <4>1
    <3> QED
      BY <1>2, <1>3, <3>1, <3>2
  <2>2. Has(r, s, k) = 0 /\ Has(l, s, k) = 0 /\ Has(m, s, k) = 0
    BY <1>7, <2>1, HasNothing
  <2> QED
    BY <2>2
<1>8. Has(r, s, k) = Has(l, s, k) + Has(m, s, k)
  BY <1>5, <1>6, <1>7
<1> QED
  BY <1>8 DEF r

\* A list has what its first plan and the rest have.
LEMMA TailHas ==
  ASSUME NEW l \in Ordered, l # <<>>, NEW s \in Nat, NEW k
  PROVE  Has(l, s, k) = PlanHas(Head(l), s, k) + Has(Tail(l), s, k)
<1> DEFINE h == <<Head(l)>>
           t == Tail(l)
<1>1. Head(l) \in Good /\ h \in Ordered /\ t \in Ordered /\ Len(t) = Len(l) - 1
      /\ Len(h) = 1 /\ h[1] = l[1] /\ Len(l) \in Nat
      /\ \A j \in 1 .. Len(l) - 1 : t[j] = l[j + 1]
  BY TailOrdered, OneIsOrdered, OrderedFacts
<1>2. l = h \o t
  <2>1. l \in Seq(Good)
    BY OrderedFacts
  <2> QED
    BY <2>1
<1> HIDE DEF h, t
<1>3. Before(h, t)
  <2> SUFFICES ASSUME NEW i \in 1 .. Len(h), NEW j \in 1 .. Len(t) PROVE h[i].hi <= t[j].lo
    BY DEF Before
  <2>1. i = 1 /\ 1 \in 1 .. Len(l) /\ j + 1 \in 1 .. Len(l) /\ 1 < j + 1 /\ t[j] = l[j + 1]
    BY <1>1
  <2> QED
    BY <1>1, <2>1, OrderedFacts
<1>4. Has(h \o t, s, k) = Has(h, s, k) + Has(t, s, k)
  <2>1. h \in Ordered /\ t \in Ordered
    BY <1>1
  <2> QED
    BY ONLY <1>3, <2>1, s \in Nat, ConcatHas
<1>5. Has(h, s, k) = PlanHas(Head(l), s, k)
  BY <1>1, HasOne DEF h
<1> QED
  BY <1>2, <1>4, <1>5 DEF t

-----------------------------------------------------------------------------
(* Bags of keys *)

PlanKeys == Prepares \X Nat

KeyBags == UNION {[D -> Nat \ {0}] : D \in SUBSET PlanKeys}

InBag(b, k) == IF k \in DOMAIN b THEN b[k] ELSE 0

\* Bags are the same if every key occurs equally often.
LEMMA SameBag ==
  ASSUME NEW b \in KeyBags, NEW c \in KeyBags, \A k \in PlanKeys : InBag(b, k) = InBag(c, k)
  PROVE  b = c
<1>1. PICK D \in SUBSET PlanKeys : b \in [D -> Nat \ {0}]
  BY DEF KeyBags
<1>2. PICK E \in SUBSET PlanKeys : c \in [E -> Nat \ {0}]
  BY DEF KeyBags
<1>3. \A k \in PlanKeys : k \in D <=> k \in E
  <2> SUFFICES ASSUME NEW k \in PlanKeys PROVE k \in D <=> k \in E
    OBVIOUS
  <2>1. InBag(b, k) = InBag(c, k)
    OBVIOUS
  <2>2. (k \in D => b[k] \in Nat \ {0}) /\ (k \in E => c[k] \in Nat \ {0})
    BY <1>1, <1>2
  <2> QED
    BY <1>1, <1>2, <2>1, <2>2 DEF InBag
<1>4. D = E
  BY <1>1, <1>2, <1>3
<1>5. \A k \in D : b[k] = c[k]
  <2> SUFFICES ASSUME NEW k \in D PROVE b[k] = c[k]
    OBVIOUS
  <2>1. k \in PlanKeys
    OBVIOUS
  <2> QED
    BY <1>1, <1>2, <1>4, <2>1 DEF InBag
<1> QED
  BY <1>1, <1>2, <1>4, <1>5

LEMMA InBagType ==
  ASSUME NEW b \in KeyBags, NEW k
  PROVE  InBag(b, k) \in Nat
BY DEF KeyBags, InBag

LEMMA NoKeys == EmptyBag \in KeyBags /\ \A k : InBag(EmptyBag, k) = 0
BY DEF EmptyBag, SetToBag, KeyBags, InBag

LEMMA OneKey ==
  ASSUME NEW e \in PlanKeys
  PROVE  SetToBag({e}) \in KeyBags /\ \A k : InBag(SetToBag({e}), k) = Once(e, k)
<1>1. SetToBag({e}) \in [{e} -> Nat \ {0}]
  BY DEF SetToBag
<1> QED
  BY <1>1 DEF SetToBag, KeyBags, InBag, Once

LEMMA BothBags ==
  ASSUME NEW b \in KeyBags, NEW c \in KeyBags
  PROVE  b (+) c \in KeyBags /\ \A k : InBag(b (+) c, k) = InBag(b, k) + InBag(c, k)
<1>1. PICK D \in SUBSET PlanKeys : b \in [D -> Nat \ {0}]
  BY DEF KeyBags
<1>2. PICK E \in SUBSET PlanKeys : c \in [E -> Nat \ {0}]
  BY DEF KeyBags
<1> DEFINE r == [e \in D \cup E |-> (IF e \in D THEN b[e] ELSE 0) + (IF e \in E THEN c[e] ELSE 0)]
<1>3. b (+) c = r
  BY <1>1, <1>2 DEF (+)
<1>4. \A e \in D : b[e] \in Nat \ {0}
  BY <1>1
<1>5. \A e \in E : c[e] \in Nat \ {0}
  BY <1>2
<1>6. \A e \in D \cup E : r[e] \in Nat \ {0}
  BY <1>4, <1>5
<1>7. r \in [D \cup E -> Nat \ {0}] /\ D \cup E \in SUBSET PlanKeys
  BY <1>6
<1>8. ASSUME NEW k PROVE InBag(r, k) = InBag(b, k) + InBag(c, k)
  BY <1>1, <1>2, <1>4, <1>5 DEF InBag
<1> HIDE DEF r
<1>9. r \in KeyBags
  BY <1>7 DEF KeyBags
<1> QED
  BY <1>3, <1>8, <1>9

\* The bag of the keys of ks at the positions in s.
BagAt(ks, s) == [e \in {ks[i] : i \in s} |-> Cardinality({i \in s : ks[i] = e})]

LEMMA BagAtMore ==
  ASSUME NEW ks, NEW s, IsFiniteSet(s), NEW x \in s
  PROVE  BagAt(ks, s) = BagAt(ks, s \ {x}) (+) SetToBag({ks[x]})
<1> DEFINE t == s \ {x}
           at(u, e) == {i \in u : ks[i] = e}
           b == BagAt(ks, t)
           c == SetToBag({ks[x]})
           S == {ks[i] : i \in s}
           T == {ks[i] : i \in t}
<1>1. ASSUME NEW e
      PROVE  /\ IsFiniteSet(at(t, e)) /\ Cardinality(at(t, e)) \in Nat
             /\ e \notin T => Cardinality(at(t, e)) = 0
             /\ Cardinality(at(s, e)) = Cardinality(at(t, e)) + (IF e = ks[x] THEN 1 ELSE 0)
  <2>1. at(t, e) \in SUBSET s /\ x \notin at(t, e)
    OBVIOUS
  <2>2. at(s, e) = IF e = ks[x] THEN at(t, e) \cup {x} ELSE at(t, e)
    OBVIOUS
  <2>3. e \notin T => at(t, e) = {}
    OBVIOUS
  <2> HIDE DEF at, T
  <2>4. IsFiniteSet(at(t, e)) /\ Cardinality(at(t, e)) \in Nat
    BY <2>1, FS_Subset, FS_CardinalityType
  <2>5. Cardinality(at(t, e) \cup {x}) = Cardinality(at(t, e)) + 1
    BY <2>1, <2>4, FS_AddElement
  <2>6. e \notin T => Cardinality(at(t, e)) = 0
    BY <2>3, FS_EmptySet
  <2>7. CASE e = ks[x]
    BY <2>2, <2>4, <2>5, <2>6, <2>7
  <2>8. CASE e # ks[x]
    <3>1. Cardinality(at(s, e)) = Cardinality(at(t, e))
      BY <2>2, <2>8
    <3> QED
      BY <2>4, <2>6, <2>8, <3>1
  <2> QED
    BY <2>7, <2>8
<1>2. S = T \cup {ks[x]}
  OBVIOUS
<1>3. DOMAIN b = T /\ DOMAIN c = {ks[x]} /\ (\A e \in T : b[e] = Cardinality(at(t, e))) /\ c[ks[x]] = 1
  BY DEF BagAt, SetToBag
<1>4. BagAt(ks, s) = [e \in S |-> Cardinality(at(s, e))]
  BY DEF BagAt
<1> HIDE DEF b, c, at, S, T
<1>5. b (+) c = [e \in T \cup {ks[x]} |-> (IF e \in T THEN b[e] ELSE 0) + (IF e \in {ks[x]} THEN c[e] ELSE 0)]
  BY <1>3 DEF (+)
<1>6. \A e \in S : Cardinality(at(s, e)) = (IF e \in T THEN b[e] ELSE 0) + (IF e \in {ks[x]} THEN c[e] ELSE 0)
  BY <1>1, <1>3
<1>7. BagAt(ks, s) = b (+) c
  BY <1>2, <1>4, <1>5, <1>6
<1> QED
  BY <1>7 DEF b, c

BagOf(ks) == FoldSeq(LAMBDA k, bag : bag (+) SetToBag({k}), EmptyBag, ks)

\* FoldSeq takes the keys in any order.
LEMMA FoldedKeys ==
  ASSUME NEW ks \in Seq(PlanKeys)
  PROVE  BagOf(ks) = BagAt(ks, DOMAIN ks)
<1> DEFINE D == DOMAIN ks
           Pick(s) == CHOOSE x \in s : TRUE
           Body(f) == [s \in SUBSET D |->
                        IF s = {} THEN EmptyBag ELSE f[s \ {Pick(s)}] (+) SetToBag({ks[Pick(s)]})]
           it == CHOOSE f : f = Body(f)
           closed == [s \in SUBSET D |-> BagAt(ks, s)]
<1>1. BagOf(ks) = it[D]
  BY DEF BagOf, FoldSeq, FoldFunction, FoldFunctionOnSet, MapThenFoldSet
<1>2. IsFiniteSet(D) /\ \A s \in SUBSET D : IsFiniteSet(s) /\ Cardinality(s) \in Nat
  <2>1. D = 1 .. Len(ks) /\ Len(ks) \in Nat
    OBVIOUS
  <2>2. IsFiniteSet(D)
    BY <2>1, FS_Interval
  <2> QED
    BY <2>2, FS_Subset, FS_CardinalityType
<1>3. \A s \in SUBSET D : s # {} => Pick(s) \in s
  OBVIOUS
<1> HIDE DEF Pick
<1>4. closed = Body(closed)
  <2>1. ASSUME NEW s \in SUBSET D
        PROVE  closed[s] = Body(closed)[s]
    <3>1. CASE s = {}
      BY <3>1 DEF BagAt, EmptyBag, SetToBag
    <3>2. CASE s # {}
      <4>1. BagAt(ks, s) = BagAt(ks, s \ {Pick(s)}) (+) SetToBag({ks[Pick(s)]})
        BY <1>2, <1>3, <3>2, BagAtMore
      <4>2. s \ {Pick(s)} \in SUBSET D
        OBVIOUS
      <4> QED
        BY <3>2, <4>1, <4>2
    <3> QED
      BY <3>1, <3>2
  <2> QED
    BY <2>1
<1>5. it = Body(it)
  <2> HIDE DEF closed, Body
  <2> QED
    BY <1>4
<1> DEFINE M == {m \in Nat : \A s \in SUBSET D : Cardinality(s) = m => it[s] = BagAt(ks, s)}
<1> HIDE DEF it
<1>6. \A m \in Nat : m \in M
  <2>1. 0 \in M
    <3>1. ASSUME NEW s \in SUBSET D, Cardinality(s) = 0 PROVE it[s] = BagAt(ks, s)
      <4>1. s = {}
        BY <1>2, <3>1, FS_EmptySet
      <4>2. it[s] = EmptyBag
        BY <1>5, <4>1
      <4> QED
        BY <4>1, <4>2 DEF BagAt, EmptyBag, SetToBag
    <3> QED
      BY <3>1
  <2>2. ASSUME NEW m \in Nat, m \in M PROVE m + 1 \in M
    <3>1. ASSUME NEW s \in SUBSET D, Cardinality(s) = m + 1 PROVE it[s] = BagAt(ks, s)
      <4>1. s # {}
        <5>1. m + 1 # 0 /\ Cardinality({}) = 0
          BY FS_EmptySet
        <5> QED
          BY <3>1, <5>1
      <4>2. Pick(s) \in s
        BY <1>3, <4>1
      <4>3. Cardinality(s \ {Pick(s)}) = m /\ s \ {Pick(s)} \in SUBSET D
        BY SMTT(30), <1>2, <3>1, <4>2, FS_RemoveElement
      <4>4. it[s \ {Pick(s)}] = BagAt(ks, s \ {Pick(s)})
        BY <2>2, <4>3
      <4>5. it[s] = it[s \ {Pick(s)}] (+) SetToBag({ks[Pick(s)]})
        BY <1>5, <4>1
      <4>6. BagAt(ks, s) = BagAt(ks, s \ {Pick(s)}) (+) SetToBag({ks[Pick(s)]})
        BY <1>2, <4>2, BagAtMore
      <4> QED
        BY <4>4, <4>5, <4>6
    <3>2. m + 1 \in Nat
      OBVIOUS
    <3> QED
      BY <3>1, <3>2
  <2> HIDE DEF M
  <2> QED
    BY <2>1, <2>2, Induction
<1>7. Cardinality(D) \in M /\ D \in SUBSET D
  BY <1>2, <1>6
<1>8. it[D] = BagAt(ks, D)
  BY <1>7
<1> QED
  BY <1>1, <1>8

AllKeys(p) == <<Key(p)>> \o Keys(p.fb)

LEMMA AllKeysFacts ==
  ASSUME NEW p \in Good
  PROVE  /\ AllKeys(p) \in Seq(PlanKeys)
         /\ \A k : Count(AllKeys(p), k) = Copies(p, k)
<1> DEFINE ks == Keys(p.fb)
           n == Len(p.fb)
           e == Key(p)
           r == AllKeys(p)
<1>1. p.fb \in Seq(Fallback) /\ n \in Nat /\ DOMAIN p.fb = 1 .. n
  BY DEF Good, Plan
<1>2. \A i \in 1 .. n : p.fb[i] \in Fallback
  BY <1>1
<1>3. \A i \in 1 .. n : Key(p.fb[i]) \in PlanKeys
  BY <1>2 DEF Key, Fallback, PlanKeys
<1>4. ks \in [1 .. n -> PlanKeys]
  BY <1>1, <1>3 DEF Keys
<1>5. e \in PlanKeys
  BY DEF Key, Good, Plan, PlanKeys
<1> HIDE DEF ks, e, n
<1>6. ks \in Seq(PlanKeys) /\ Len(ks) = n
  BY <1>1, <1>4, FunctionIsSeq
<1>7. <<e>> \in Seq(PlanKeys) /\ Len(<<e>>) = 1 /\ <<e>>[1] = e
  BY <1>5
<1>8. r = <<e>> \o ks
  BY DEF AllKeys, e, ks
<1> HIDE DEF r
<1>9. /\ r \in Seq(PlanKeys) /\ Len(r) = 1 + n
      /\ \A j \in 1 .. 1 + n : r[j] = IF j <= 1 THEN <<e>>[j] ELSE ks[j - 1]
  BY <1>6, <1>7, <1>8, ConcatProperties
<1>10. Inserted(r, ks, n, 1, e)
  <2>1. DOMAIN ks = 1 .. n /\ DOMAIN r = 1 .. n + 1
    BY <1>1, <1>4, <1>9
  <2>2. ASSUME NEW j \in 1 .. n + 1
        PROVE  r[j] = IF j < 1 THEN ks[j] ELSE IF j = 1 THEN e ELSE ks[j - 1]
    <3>1. j \in 1 .. 1 + n /\ ~(j < 1) /\ (j <= 1 <=> j = 1)
      BY <1>1
    <3> QED
      BY <1>7, <1>9, <3>1
  <2> QED
    BY <2>1, <2>2 DEF Inserted
<1>11. ASSUME NEW k PROVE Count(r, k) = Copies(p, k)
  <2>1. 1 \in 1 .. n + 1
    BY <1>1
  <2>2. Count(r, k) = Count(ks, k) + Once(e, k)
    BY <1>1, <1>10, <2>1, CountInserted
  <2>3. Count(ks, k) \in Nat /\ Once(e, k) \in Nat
    BY <1>1, <1>4, CountType DEF Once
  <2>4. Copies(p, k) = Once(e, k) + Count(ks, k)
    BY DEF Copies, ks, e
  <2> QED
    BY <2>2, <2>3, <2>4
<1> QED
  BY <1>9, <1>11 DEF r

\* The bag of a sequence has every key as often as the sequence.
LEMMA BagOfKeys ==
  ASSUME NEW ks \in Seq(PlanKeys)
  PROVE  /\ BagAt(ks, DOMAIN ks) \in KeyBags
         /\ \A k : InBag(BagAt(ks, DOMAIN ks), k) = Count(ks, k)
<1> DEFINE D == {ks[i] : i \in DOMAIN ks}
           b == BagAt(ks, DOMAIN ks)
<1>1. D \in SUBSET PlanKeys
  OBVIOUS
<1>2. DOMAIN ks = 1 .. Len(ks) /\ Len(ks) \in Nat
  OBVIOUS
<1>3. ASSUME NEW k
      PROVE  /\ Count(ks, k) \in Nat
             /\ k \in D <=> Count(ks, k) # 0
  <2> DEFINE S == {i \in DOMAIN ks : ks[i] = k}
  <2>1. IsFiniteSet(S) /\ Count(ks, k) \in Nat /\ Count(ks, k) = Cardinality(S)
    BY <1>2, CountType DEF Count
  <2>2. k \in D <=> S # {}
    OBVIOUS
  <2> HIDE DEF S, D
  <2> QED
    BY <2>1, <2>2, FS_EmptySet
<1>4. b = [e \in D |-> Count(ks, e)]
  BY DEF BagAt, Count
<1> HIDE DEF b, D
<1>5. b \in [D -> Nat \ {0}]
  BY <1>3, <1>4
<1>6. b \in KeyBags
  BY <1>1, <1>5 DEF KeyBags
<1>7. \A k : InBag(b, k) = Count(ks, k)
  BY <1>3, <1>4 DEF InBag
<1> QED
  BY <1>6, <1>7 DEF b

\* A container offers what its list has.
LEMMA OfferedHas ==
  ASSUME NEW l \in Ordered, NEW s \in Nat
  PROVE  /\ Offered(l, s) \in KeyBags
         /\ \A k : InBag(Offered(l, s), k) = Has(l, s, k)
<1> DEFINE covering == {i \in DOMAIN l : l[i].lo <= s /\ s < l[i].hi}
           Pick(S) == CHOOSE x \in S : TRUE
           Body(f) == [S \in SUBSET covering |->
                        IF S = {} THEN <<>> ELSE f[S \ {Pick(S)}] \o AllKeys(l[Pick(S)])]
           it == CHOOSE f : f = Body(f)
           all == it[covering]
<1>1. Offered(l, s) = BagOf(all)
  BY DEF Offered, BagOf, AllKeys, Keys, FoldSet, MapThenFoldSet
<1>2. DOMAIN l = 1 .. Len(l)
  BY OrderedFacts
<1> HIDE DEF Pick
<1>3. CASE covering = {}
  <2> DEFINE f == [S \in SUBSET covering |-> <<>>]
  <2>1. f = Body(f)
    <3>1. \A S \in SUBSET covering : S = {}
      BY <1>3
    <3> QED
      BY <3>1
  <2>2. it = Body(it)
    <3> HIDE DEF f, Body
    <3> QED
      BY <2>1
  <2>3. all = <<>>
    <3> HIDE DEF it
    <3> QED
      BY <1>3, <2>2
  <2>4. all \in Seq(PlanKeys) /\ \A k : Count(all, k) = 0
    <3>1. ASSUME NEW k PROVE Count(<<>>, k) = 0
      <4>1. {i \in DOMAIN <<>> : <<>>[i] = k} = {}
        OBVIOUS
      <4> QED
        BY <4>1, FS_EmptySet DEF Count
    <3> HIDE DEF all
    <3> QED
      BY <2>3, <3>1
  <2>5. \A k : Has(l, s, k) = 0
    <3>1. \A i \in 1 .. Len(l) : ~Covers(l[i], s)
      BY <1>2, <1>3 DEF Covers
    <3> QED
      BY <3>1, HasNothing
  <2> HIDE DEF all
  <2> QED
    BY <1>1, <2>4, <2>5, FoldedKeys, BagOfKeys
<1>4. ASSUME NEW i \in covering
      PROVE  /\ Offered(l, s) \in KeyBags
             /\ \A k : InBag(Offered(l, s), k) = Has(l, s, k)
  <2>1. i \in 1 .. Len(l) /\ Covers(l[i], s) /\ l[i] \in Good
    BY <1>2, OrderedFacts DEF Covers
  <2>2. covering = {i}
    <3> SUFFICES ASSUME NEW j \in covering PROVE j = i
      OBVIOUS
    <3>1. j \in 1 .. Len(l) /\ Covers(l[j], s)
      BY <1>2 DEF Covers
    <3> QED
      BY <2>1, <3>1, CoversOnce
  <2>3. Pick({i}) = i
    BY DEF Pick
  <2> DEFINE ks == AllKeys(l[i])
  <2>4. ks \in Seq(PlanKeys) /\ \A k : Count(ks, k) = Copies(l[i], k)
    BY <2>1, AllKeysFacts
  <2> HIDE DEF ks
  <2>5. <<>> \o ks = ks
    BY <2>4
  <2> DEFINE f == [S \in SUBSET covering |-> IF S = {} THEN <<>> ELSE ks]
  <2> HIDE DEF covering
  <2>6. \A S \in SUBSET covering : S = {} \/ S = {i}
    BY <2>2
  <2>7. f = Body(f)
    <3>1. ASSUME NEW S \in SUBSET covering PROVE f[S] = Body(f)[S]
      <4>1. CASE S = {}
        BY <4>1
      <4>2. CASE S = {i}
        <5>1. S \ {Pick(S)} = {} /\ {} \in SUBSET covering
          BY <2>3, <4>2
        <5>2. f[{}] = <<>> /\ f[S] = ks
          BY <4>2
        <5>3. Body(f)[S] = f[S \ {Pick(S)}] \o AllKeys(l[Pick(S)])
          BY <4>2
        <5> HIDE DEF f, Body
        <5> QED
          BY <2>3, <2>5, <4>2, <5>1, <5>2, <5>3 DEF ks
      <4> QED
        BY <2>6, <4>1, <4>2
    <3> QED
      BY <3>1
  <2>8. it = Body(it)
    <3> HIDE DEF f, Body
    <3> QED
      BY <2>7
  <2> HIDE DEF it
  <2>9. it[{}] = <<>>
    BY <2>8
  <2>10. it[covering] = ks
    <3>1. it[covering] = it[covering \ {Pick(covering)}] \o AllKeys(l[Pick(covering)])
      BY <2>2, <2>8
    <3>2. covering \ {Pick(covering)} = {} /\ Pick(covering) = i
      BY <2>2, <2>3
    <3> QED
      BY <2>5, <2>9, <3>1, <3>2 DEF ks
  <2>11. \A k : Has(l, s, k) = Copies(l[i], k)
    BY <2>1, HasCovered
  <2>12. Offered(l, s) = BagAt(ks, DOMAIN ks)
    BY <1>1, <2>4, <2>10, FoldedKeys
  <2> QED
    BY <2>4, <2>11, <2>12, BagOfKeys
<1> QED
  BY <1>3, <1>4

-----------------------------------------------------------------------------
(* What the calls promise *)

Call == [kind : {"add"}, dst : Containers, attr : Attr]
        \cup [kind : {"merge"}, dst : Containers, src : Containers]

Together(h, n, t, s, k) == Has(h, s, k) + Has(n, s, k) + Has(t, s, k)

\* The lists have what was added, at any moment.
Kept(l, w) ==
    /\ w \in [Containers -> [Sizes -> KeyBags]]
    /\ \A c \in Containers, s \in Sizes, k \in PlanKeys : Has(l[c], s, k) = InBag(w[c][s], k)

\* The list, the pieces and the rest of the source have together what the
\* running call has promised.
Coming ==
    /\ what \in Call
    /\ what.kind = "add" => todo = <<>> /\ pc # "take"
    /\ \A s \in Sizes, k \in PlanKeys :
          Together(head, new, todo, s, k) = InBag(Promised[what.dst][s], k)

\* As long as a call may fail it has only split what it found.
OnlySplit ==
    pc = "normalise" /\ what.kind = "add" =>
        \A s \in Sizes, k \in PlanKeys : Has(head, s, k) = Has(list[what.dst], s, k)

Contents ==
    /\ Kept(list, want)
    /\ todo \in Ordered
    /\ pc \in {"idle", "take", "compact"} => new = <<>>
    /\ pc \in {"idle", "compact"} => todo = <<>>
    /\ pc # "idle" => Coming
    /\ OnlySplit

LEMMA SizesFacts ==
  ASSUME NEW s \in Sizes
  PROVE  s \in Nat
BY PlansAssumption DEF Sizes

LEMMA AttrFacts ==
  ASSUME NEW a \in Attr
  PROVE  /\ a.prepare \in Prepares /\ a.score \in Nat /\ a.lo \in Nat /\ a.hi \in Nat
         /\ Key(a) \in PlanKeys
BY PlansAssumption DEF Attr, Prepares, PlanKeys, Key

\* What is promised for one size.
Promise(x, w, s) ==
    IF x.kind = "merge" THEN w[x.dst][s] (+) w[x.src][s]
    ELSE IF x.attr.lo <= s /\ s < x.attr.hi THEN w[x.dst][s] (+) SetToBag({Key(x.attr)})
    ELSE w[x.dst][s]


PromiseFor(x, w) == [w EXCEPT ![x.dst] = [s \in Sizes |-> Promise(x, w, s)]]

LEMMA PromisedIs ==
  /\ Promised = PromiseFor(what, want)
  /\ Promised' = PromiseFor(what', want')
BY DEF Promised, PromiseFor, Promise

LEMMA PromiseType ==
  ASSUME NEW w \in [Containers -> [Sizes -> KeyBags]], NEW x \in Call, NEW s \in Sizes
  PROVE  Promise(x, w, s) \in KeyBags
<1>1. w[x.dst][s] \in KeyBags
  BY DEF Call
<1>2. CASE x.kind = "merge"
  <2>1. w[x.src][s] \in KeyBags
    BY <1>2 DEF Call
  <2> QED
    BY <1>1, <1>2, <2>1, BothBags DEF Promise
<1>3. CASE x.kind # "merge"
  <2>1. Key(x.attr) \in PlanKeys
    BY <1>3, AttrFacts DEF Call
  <2>2. SetToBag({Key(x.attr)}) \in KeyBags
    BY <2>1, OneKey
  <2>3. w[x.dst][s] (+) SetToBag({Key(x.attr)}) \in KeyBags
    BY <1>1, <2>2, BothBags
  <2> QED
    BY <1>1, <1>3, <2>3 DEF Promise
<1> QED
  BY <1>2, <1>3

LEMMA PromisedFacts ==
  ASSUME NEW w \in [Containers -> [Sizes -> KeyBags]], NEW x \in Call
  PROVE  /\ PromiseFor(x, w) \in [Containers -> [Sizes -> KeyBags]]
         /\ \A s \in Sizes : PromiseFor(x, w)[x.dst][s] = Promise(x, w, s)
         /\ \A c \in Containers : c # x.dst => PromiseFor(x, w)[c] = w[c]
<1>1. x.dst \in Containers
  BY DEF Call
<1>2. [s \in Sizes |-> Promise(x, w, s)] \in [Sizes -> KeyBags]
  BY PromiseType
<1> QED
  BY <1>1, <1>2 DEF PromiseFor

LEMMA MergePromise ==
  ASSUME NEW l, NEW w, Kept(l, w), NEW x \in Call, x.kind = "merge", NEW s \in Sizes, NEW k \in PlanKeys
  PROVE  InBag(PromiseFor(x, w)[x.dst][s], k) = Has(l[x.dst], s, k) + Has(l[x.src], s, k)
<1>1. x.dst \in Containers /\ x.src \in Containers
  BY DEF Call
<1>2. w[x.dst][s] \in KeyBags /\ w[x.src][s] \in KeyBags
  BY <1>1 DEF Kept
<1>3. InBag(Promise(x, w, s), k) = InBag(w[x.dst][s], k) + InBag(w[x.src][s], k)
  BY <1>2, BothBags DEF Promise
<1>4. PromiseFor(x, w)[x.dst][s] = Promise(x, w, s)
  BY PromisedFacts DEF Kept
<1> QED
  BY <1>1, <1>3, <1>4 DEF Kept

LEMMA AddPromise ==
  ASSUME NEW l, NEW w, Kept(l, w), NEW x \in Call, x.kind = "add", NEW s \in Sizes, NEW k \in PlanKeys
  PROVE  InBag(PromiseFor(x, w)[x.dst][s], k) = Has(l[x.dst], s, k) + PlanHas(NewPlan(x.attr), s, k)
<1> DEFINE a == x.attr
<1>1. x.dst \in Containers /\ a \in Attr
  BY DEF Call
<1>2. w[x.dst][s] \in KeyBags /\ Key(a) \in PlanKeys
  BY <1>1, AttrFacts DEF Kept
<1>3. PromiseFor(x, w)[x.dst][s] = Promise(x, w, s)
  BY PromisedFacts DEF Kept
<1>4. Copies(NewPlan(a), k) = Once(Key(a), k)
  <2>1. Key(NewPlan(a)) = Key(a) /\ NewPlan(a).fb = <<>>
    BY DEF NewPlan, Key
  <2>2. Once(Key(a), k) \in Nat
    BY DEF Once
  <2> QED
    BY <2>1, <2>2, CountNothing DEF Copies
<1>5. InBag(w[x.dst][s], k) = Has(l[x.dst], s, k) /\ InBag(w[x.dst][s], k) \in Nat
  BY <1>1, <1>2, InBagType DEF Kept
<1>6. CASE a.lo <= s /\ s < a.hi
  <2>1. Promise(x, w, s) = w[x.dst][s] (+) SetToBag({Key(a)})
    BY <1>6 DEF Promise
  <2>2. SetToBag({Key(a)}) \in KeyBags /\ InBag(SetToBag({Key(a)}), k) = Once(Key(a), k)
    BY <1>2, OneKey
  <2>3. InBag(Promise(x, w, s), k) = InBag(w[x.dst][s], k) + Once(Key(a), k)
    BY <1>2, <2>1, <2>2, BothBags
  <2>4. PlanHas(NewPlan(a), s, k) = Once(Key(a), k)
    BY <1>4, <1>6 DEF PlanHas, Covers, NewPlan
  <2> QED
    BY <1>3, <1>5, <2>3, <2>4
<1>7. CASE ~(a.lo <= s /\ s < a.hi)
  <2>1. Promise(x, w, s) = w[x.dst][s]
    BY <1>7 DEF Promise
  <2>2. PlanHas(NewPlan(a), s, k) = 0
    BY <1>7 DEF PlanHas, Covers, NewPlan
  <2> QED
    BY <1>3, <1>5, <2>1, <2>2
<1> QED
  BY <1>6, <1>7

-----------------------------------------------------------------------------
(* The steps keep it *)

LEMMA InitContents == Init => Contents
<1> SUFFICES ASSUME Init PROVE Contents
  OBVIOUS
<1>1. Kept(list, want)
  BY NoKeys, HasEmpty DEF Init, Kept
<1> QED
  BY <1>1, EmptyIsOrdered DEF Init, Contents, OnlySplit

\* A list and pieces of it in exchange for others.
Exchanged ==
    \A s \in Sizes, k \in PlanKeys :
        Together(head', new', todo', s, k) = Together(head, new, todo, s, k)

LEMMA LoopContents ==
  ASSUME Contents, pc # "idle", pc' # "idle", UNCHANGED <<list, what, want>>, Exchanged,
         todo' \in Ordered,
         pc' \in {"take", "compact"} => new' = <<>>,
         pc' = "compact" => todo' = <<>>,
         what.kind = "add" => todo' = <<>> /\ pc' # "take",
         pc' = "normalise" /\ what.kind = "add" =>
            pc = "normalise" /\ \A s \in Sizes, k \in PlanKeys : Has(head', s, k) = Has(head, s, k)
  PROVE  Contents'
<1>1. Kept(list, want)'
  BY DEF Contents
<1>2. Coming'
  <2>1. Promised' = Promised
    BY PromisedIs
  <2>2. Coming
    BY DEF Contents
  <2> QED
    BY <2>1, <2>2 DEF Coming, Exchanged
<1>3. OnlySplit'
  BY DEF OnlySplit, Contents
<1> QED
  BY <1>1, <1>2, <1>3 DEF Contents

\* A call that ends with what it has promised, or with what it found.
LEMMA EndContents ==
  ASSUME Reset, Kept(list', want')
  PROVE  Contents'
BY EmptyIsOrdered DEF Reset, Contents, OnlySplit

LEMMA AddContents ==
  ASSUME IInv, Contents, NEW c \in Containers, NEW a \in Attr, Add(c, a)
  PROVE  Contents'
<1>1. /\ pc = "idle" /\ pc' = "normalise" /\ head' = list[c] /\ new' = <<NewPlan(a)>>
      /\ what' = [kind |-> "add", dst |-> c, attr |-> a]
      /\ UNCHANGED <<list, want, todo>>
  BY DEF Add
<1>2. what' \in Call /\ what'.kind = "add" /\ what'.dst = c /\ what'.attr = a
  BY <1>1 DEF Call
<1>3. todo = <<>> /\ Kept(list, want)
  BY <1>1 DEF Contents
<1>4. NewPlan(a) \in Good
  <2>1. new' \in Ordered
    BY AddIInv DEF IInv
  <2> QED
    BY <1>1, <2>1, OrderedFacts
<1>5. ASSUME NEW s \in Sizes, NEW k \in PlanKeys
      PROVE  Together(head', new', todo', s, k) = InBag(Promised'[what'.dst][s], k)
  <2>1. InBag(PromiseFor(what', want)[c][s], k) = Has(list[c], s, k) + PlanHas(NewPlan(a), s, k)
    BY <1>2, <1>3, AddPromise
  <2>2. Has(new', s, k) = PlanHas(NewPlan(a), s, k) /\ Has(todo', s, k) = 0
    BY <1>1, <1>3, <1>4, HasOne, HasEmpty, SizesFacts
  <2>3. PlanHas(NewPlan(a), s, k) \in Nat /\ Has(list[c], s, k) \in Nat
    BY <1>4, PlanHasType, HasType, SizesFacts DEF IInv
  <2> QED
    BY <1>1, <1>2, <2>1, <2>2, <2>3, PromisedIs DEF Together
<1>6. Coming'
  BY <1>1, <1>2, <1>3, <1>5 DEF Coming
<1>7. OnlySplit'
  BY <1>1, <1>2 DEF OnlySplit
<1> QED
  BY <1>1, <1>3, <1>6, <1>7, EmptyIsOrdered DEF Contents

LEMMA MergeContents ==
  ASSUME IInv, Contents, NEW c \in Containers, Merge(c)
  PROVE  Contents'
<1>1. /\ pc = "idle" /\ pc' = "take" /\ head' = list[Target] /\ todo' = list[c]
      /\ what' = [kind |-> "merge", dst |-> Target, src |-> c]
      /\ UNCHANGED <<list, want, new>>
  BY DEF Merge
<1>2. what' \in Call /\ what'.kind = "merge" /\ what'.dst = Target /\ what'.src = c
  BY <1>1, PlansAssumption DEF Call
<1>3. new = <<>> /\ Kept(list, want)
  BY <1>1 DEF Contents
<1>4. todo' \in Ordered
  BY <1>1 DEF IInv
<1>5. ASSUME NEW s \in Sizes, NEW k \in PlanKeys
      PROVE  Together(head', new', todo', s, k) = InBag(Promised'[what'.dst][s], k)
  <2>1. InBag(PromiseFor(what', want)[Target][s], k) = Has(list[Target], s, k) + Has(list[c], s, k)
    BY <1>2, <1>3, MergePromise
  <2>2. Has(new', s, k) = 0
    BY <1>1, <1>3, HasEmpty
  <2>3. Has(list[Target], s, k) \in Nat /\ Has(list[c], s, k) \in Nat
    BY HasType, SizesFacts, PlansAssumption DEF IInv
  <2> QED
    BY <1>1, <1>2, <2>1, <2>2, <2>3, PromisedIs DEF Together
<1>6. Coming'
  BY <1>1, <1>2, <1>5 DEF Coming
<1>7. OnlySplit'
  BY <1>1 DEF OnlySplit
<1> QED
  BY <1>1, <1>3, <1>4, <1>6, <1>7 DEF Contents

LEMMA TakeContents ==
  ASSUME IInv, Contents, Take
  PROVE  Contents'
<1>1. /\ pc = "take" /\ pc' = "normalise" /\ todo # <<>>
      /\ new' = <<Head(todo)>> /\ todo' = Tail(todo)
      /\ UNCHANGED <<list, what, head, want>>
  BY DEF Take
<1>2. todo \in Ordered /\ new = <<>> /\ what.kind # "add"
  BY <1>1 DEF Contents, Coming
<1>3. Tail(todo) \in Ordered /\ Head(todo) \in Good
  BY <1>1, <1>2, TailOrdered
<1>4. ASSUME NEW s \in Sizes, NEW k \in PlanKeys
      PROVE  Together(head', new', todo', s, k) = Together(head, new, todo, s, k)
  <2>1. Has(todo, s, k) = PlanHas(Head(todo), s, k) + Has(Tail(todo), s, k)
    BY <1>1, <1>2, TailHas, SizesFacts
  <2>2. Has(new', s, k) = PlanHas(Head(todo), s, k) /\ Has(new, s, k) = 0
    BY <1>1, <1>2, <1>3, HasOne, HasEmpty, SizesFacts
  <2>3. /\ PlanHas(Head(todo), s, k) \in Nat /\ Has(head, s, k) \in Nat
        /\ Has(Tail(todo), s, k) \in Nat
    BY <1>3, PlanHasType, HasType, SizesFacts DEF IInv
  <2> QED
    BY <1>1, <2>1, <2>2, <2>3 DEF Together
<1> QED
  BY <1>1, <1>2, <1>3, <1>4, LoopContents DEF Exchanged

\* Splits change neither the list nor the pieces for any size.
LEMMA NormaliseContents ==
  ASSUME IInv, Contents, Normalise
  PROVE  Contents'
<1>1. /\ pc = "normalise" /\ pc' = "normalise" /\ NormaliseGoesOn
      /\ head' = SplitHead /\ new' = SplitAt(new, Len(new), NewSplit)
      /\ UNCHANGED <<list, what, todo, want>>
  BY DEF Normalise
<1>2. ASSUME NEW s \in Sizes, NEW k \in PlanKeys
      PROVE  Has(head', s, k) = Has(head, s, k)
  BY <1>1, NormaliseLists, SplitHas, SizesFacts DEF IInv, SplitHead
<1>3. ASSUME NEW s \in Sizes, NEW k \in PlanKeys
      PROVE  Has(new', s, k) = Has(new, s, k)
  <2>1. /\ new \in Ordered /\ Len(new) \in 1 .. Len(new) /\ NewSplit \in Nat
        /\ NewSplit # 0 => new[Len(new)].lo < NewSplit /\ NewSplit < new[Len(new)].hi
    BY <1>1, NormaliseLists DEF IInv
  <2> QED
    BY <1>1, <2>1, SplitHas, SizesFacts
<1>4. Exchanged
  BY <1>1, <1>2, <1>3 DEF Exchanged, Together
<1>5. todo' \in Ordered /\ (what.kind = "add" => todo' = <<>>)
  BY <1>1 DEF Contents, Coming
<1> QED
  BY <1>1, <1>2, <1>4, <1>5, LoopContents

LEMMA SameRangeContents ==
  ASSUME IInv, Contents, AddSameRange
  PROVE  Contents'
<1> DEFINE p == IF Head(new).score > head[exist].score THEN AddFallback(Head(new), head[exist])
                ELSE AddFallback(head[exist], Head(new))
<1>1. /\ MayAdd /\ Head(new).lo = head[exist].lo
      /\ head' = [head EXCEPT ![exist] = p] /\ new' = Tail(new)
      /\ UNCHANGED <<list, pc, what, todo, want>>
  BY DEF AddSameRange
<1>2. /\ pc = "add" /\ head \in Ordered /\ new \in Ordered /\ new # <<>>
      /\ exist \in 1 .. Len(head) /\ head[exist] \in Good /\ Head(new) \in Good
      /\ Head(new).hi = head[exist].hi /\ Tail(new) \in Ordered
  <2>1. Head(new) \in Good /\ head[exist] \in Good /\ Aligned(head[exist], Head(new))
    BY <1>1, AddLists
  <2> QED
    BY <1>1, <2>1, AddLists, GoodFacts DEF Aligned, Disjoint
<1>3. /\ p \in Good /\ p.lo = head[exist].lo /\ p.hi = head[exist].hi
      /\ \A k : Copies(p, k) = Copies(head[exist], k) + Copies(Head(new), k)
  <2>1. CASE Head(new).score > head[exist].score
    <3>1. head[exist].score <= Head(new).score
      BY <1>2, <2>1, GoodFacts
    <3>2. \A k : Copies(p, k) = Copies(Head(new), k) + Copies(head[exist], k)
      BY <1>2, <2>1, AddFallbackCopies
    <3>3. \A k : Copies(Head(new), k) \in Nat /\ Copies(head[exist], k) \in Nat
      BY <1>2, CopiesType
    <3> QED
      BY <1>1, <1>2, <2>1, <3>1, <3>2, <3>3, AddFallbackKeeps
  <2>2. CASE ~(Head(new).score > head[exist].score)
    <3>1. Head(new).score <= head[exist].score
      BY <1>2, <2>2, GoodFacts
    <3> QED
      BY <1>1, <1>2, <2>2, <3>1, AddFallbackKeeps, AddFallbackCopies
  <2> QED
    BY <2>1, <2>2
<1> HIDE DEF p
<1>4. ASSUME NEW s \in Sizes, NEW k \in PlanKeys
      PROVE  Together(head', new', todo', s, k) = Together(head, new, todo, s, k)
  <2>1. Has(new, s, k) = PlanHas(Head(new), s, k) + Has(Tail(new), s, k)
    BY <1>2, TailHas, SizesFacts
  <2>2. Has(head', s, k) = IF Covers(p, s) THEN Copies(p, k) ELSE Has(head, s, k)
    <3>1. /\ head \in Ordered /\ exist \in 1 .. Len(head) /\ p \in Good
          /\ p.lo = head[exist].lo /\ p.hi = head[exist].hi /\ s \in Nat
      BY <1>2, <1>3, SizesFacts
    <3>2. head' = [head EXCEPT ![exist] = p]
      BY <1>1
    <3>3. Has([head EXCEPT ![exist] = p], s, k) = IF Covers(p, s) THEN Copies(p, k) ELSE Has(head, s, k)
      BY ONLY <3>1, ReplacedHas
    <3> QED
      BY <3>2, <3>3
  <2>3. /\ PlanHas(Head(new), s, k) \in Nat /\ Has(head, s, k) \in Nat
        /\ Has(Tail(new), s, k) \in Nat /\ Has(todo, s, k) \in Nat
        /\ Copies(head[exist], k) \in Nat /\ Copies(Head(new), k) \in Nat
    BY <1>2, PlanHasType, HasType, CopiesType, SizesFacts DEF Contents
  <2>4. Has(head', s, k) = Has(head, s, k) + PlanHas(Head(new), s, k)
    <3>1. CASE Covers(p, s)
      <4>1. Covers(head[exist], s) /\ Covers(Head(new), s)
        BY <1>1, <1>2, <1>3, <3>1 DEF Covers
      <4>2. Has(head, s, k) = Copies(head[exist], k)
        BY <1>2, <4>1, HasCovered, SizesFacts
      <4> QED
        BY <1>3, <2>2, <3>1, <4>1, <4>2 DEF PlanHas
    <3>2. CASE ~Covers(p, s)
      <4>1. ~Covers(Head(new), s)
        BY <1>1, <1>2, <1>3, <3>2 DEF Covers
      <4> QED
        BY <2>2, <2>3, <3>2, <4>1 DEF PlanHas
    <3> QED
      BY <3>1, <3>2
  <2> QED
    BY <1>1, <2>1, <2>3, <2>4 DEF Together
<1>5. todo' \in Ordered /\ (what.kind = "add" => todo' = <<>>)
  BY <1>1, <1>2 DEF Contents, Coming
<1> QED
  BY <1>1, <1>2, <1>4, <1>5, LoopContents DEF Exchanged

LEMMA BeforeContents ==
  ASSUME IInv, Contents, AddBefore
  PROVE  Contents'
<1>1. /\ MayAdd /\ Head(new).lo < head[exist].lo
      /\ head' = InsertAt(head, exist, Head(new)) /\ new' = Tail(new)
      /\ UNCHANGED <<list, pc, what, todo, want>>
  BY DEF AddBefore
<1>2. /\ pc = "add" /\ head \in Ordered /\ new \in Ordered /\ new # <<>>
      /\ exist \in 1 .. Len(head) /\ head[exist] \in Good /\ Head(new) \in Good
      /\ Head(new) = new[1] /\ 1 \in 1 .. Len(new) /\ Tail(new) \in Ordered /\ Merging
      /\ Aligned(head[exist], Head(new))
  BY <1>1, AddLists
<1>3. Head(new).hi <= head[exist].lo
  BY <1>1, <1>2, GoodFacts DEF Aligned, Disjoint
<1>4. \A j \in 1 .. exist - 1 : head[j].hi <= Head(new).lo
  BY <1>2, OrderedFacts DEF Merging
<1>5. ASSUME NEW s \in Sizes, NEW k \in PlanKeys
      PROVE  Together(head', new', todo', s, k) = Together(head, new, todo, s, k)
  <2>1. Has(new, s, k) = PlanHas(Head(new), s, k) + Has(Tail(new), s, k)
    BY <1>2, TailHas, SizesFacts
  <2>2. Has(head', s, k) = Has(head, s, k) + PlanHas(Head(new), s, k)
    BY <1>1, <1>2, <1>3, <1>4, InsertedHas, SizesFacts
  <2>3. /\ PlanHas(Head(new), s, k) \in Nat /\ Has(head, s, k) \in Nat
        /\ Has(Tail(new), s, k) \in Nat /\ Has(todo, s, k) \in Nat
    BY <1>2, PlanHasType, HasType, SizesFacts DEF Contents
  <2> QED
    BY <1>1, <2>1, <2>2, <2>3 DEF Together
<1>6. todo' \in Ordered /\ (what.kind = "add" => todo' = <<>>)
  BY <1>1, <1>2 DEF Contents, Coming
<1> QED
  BY <1>1, <1>2, <1>5, <1>6, LoopContents DEF Exchanged

\* What is left of the new plan goes to the end.
LEMMA AddEndContents ==
  ASSUME IInv, Contents, AddEnd
  PROVE  Contents'
<1>1. /\ pc = "add" /\ (exist > Len(head) \/ new = <<>>)
      /\ head' = head \o new /\ new' = <<>>
      /\ pc' = (IF what.kind = "add" THEN "compact" ELSE "take")
      /\ UNCHANGED <<list, what, todo, want>>
  BY DEF AddEnd
<1>2. head \in Ordered /\ new \in Ordered /\ exist \in Nat \ {0} /\ Merging
  BY <1>1 DEF IInv
<1>3. Before(head, new)
  BY <1>1, <1>2, OrderedFacts DEF Merging, Before
<1>4. ASSUME NEW s \in Sizes, NEW k \in PlanKeys
      PROVE  Together(head', new', todo', s, k) = Together(head, new, todo, s, k)
  <2>1. Has(head', s, k) = Has(head, s, k) + Has(new, s, k)
    BY <1>1, <1>2, <1>3, ConcatHas, SizesFacts
  <2>2. Has(new', s, k) = 0
    BY <1>1, HasEmpty
  <2>3. /\ Has(head, s, k) \in Nat /\ Has(new, s, k) \in Nat /\ Has(todo, s, k) \in Nat
    BY <1>2, HasType, SizesFacts DEF Contents
  <2> QED
    BY <1>1, <2>1, <2>2, <2>3 DEF Together
<1>5. todo' \in Ordered /\ (what.kind = "add" => todo' = <<>>)
  BY <1>1 DEF Contents, Coming
<1> QED
  BY <1>1, <1>4, <1>5, LoopContents DEF Exchanged

LEMMA JoinContents ==
  ASSUME IInv, Contents, CompactJoin
  PROVE  Contents'
<1>1. /\ pc = "compact" /\ exist < Len(head) /\ Compactible(head[exist], head[exist + 1])
      /\ head' = Joined(head, exist, Compact(head[exist], head[exist + 1]))
      /\ UNCHANGED <<list, pc, what, new, todo, want>>
  BY DEF CompactJoin, Joined
<1>2. head \in Ordered /\ exist \in 1 .. Len(head) - 1
  BY <1>1, OrderedFacts DEF IInv
<1>3. ASSUME NEW s \in Sizes, NEW k \in PlanKeys
      PROVE  Has(head', s, k) = Has(head, s, k)
  BY <1>1, <1>2, JoinedHas, SizesFacts
<1>4. Exchanged
  BY <1>1, <1>3 DEF Exchanged, Together
<1>5. todo' \in Ordered /\ todo' = <<>> /\ new' = <<>>
  BY <1>1 DEF Contents
<1> QED
  BY <1>1, <1>4, <1>5, LoopContents

LEMMA ReturnContents ==
  ASSUME IInv, Contents, Return
  PROVE  Contents'
<1>1. /\ pc = "compact" /\ list' = [list EXCEPT ![what.dst] = head] /\ want' = Promised /\ Reset
  BY DEF Return
<1>2. /\ Kept(list, want) /\ what \in Call /\ what.dst \in Containers
      /\ new = <<>> /\ todo = <<>> /\ Coming /\ list \in [Containers -> Ordered] /\ head \in Ordered
  BY <1>1 DEF Contents, Coming, IInv
<1>3. /\ Promised \in [Containers -> [Sizes -> KeyBags]]
      /\ \A c \in Containers : c # what.dst => Promised[c] = want[c]
  BY <1>2, PromisedFacts, PromisedIs DEF Kept
<1>4. ASSUME NEW c \in Containers, NEW s \in Sizes, NEW k \in PlanKeys
      PROVE  Has(list'[c], s, k) = InBag(want'[c][s], k)
  <2>1. CASE c = what.dst
    <3>1. Together(head, new, todo, s, k) = InBag(Promised[what.dst][s], k)
      BY <1>2 DEF Coming
    <3>2. Has(new, s, k) = 0 /\ Has(todo, s, k) = 0
      BY <1>2, HasEmpty
    <3>3. Has(head, s, k) \in Nat
      BY <1>2, HasType, SizesFacts
    <3>4. Has(head, s, k) = InBag(Promised[what.dst][s], k)
      BY <3>1, <3>2, <3>3 DEF Together
    <3> QED
      BY <1>1, <1>2, <2>1, <3>4
  <2>2. CASE c # what.dst
    BY <1>1, <1>2, <1>3, <2>2 DEF Kept
  <2> QED
    BY <2>1, <2>2
<1>5. Kept(list', want')
  BY <1>1, <1>3, <1>4 DEF Kept
<1> QED
  BY <1>1, <1>5, EndContents

\* A call that fails leaves what it found, possibly split.
LEMMA FailContents ==
  ASSUME IInv, Contents, pc # "idle", NEW h, Fail(h),
         what.kind = "add" =>
            \A s \in Sizes, k \in PlanKeys : Has(h, s, k) = Has(list[what.dst], s, k)
  PROVE  Contents'
<1>1. /\ list' = (IF what.kind = "add" THEN [list EXCEPT ![what.dst] = h] ELSE list)
      /\ want' = want /\ Reset
  BY DEF Fail
<1>2. Kept(list, want) /\ what.dst \in Containers /\ list \in [Containers -> Ordered]
  BY DEF Contents, IInv
<1>3. ASSUME NEW c \in Containers, NEW s \in Sizes, NEW k \in PlanKeys
      PROVE  Has(list'[c], s, k) = Has(list[c], s, k)
  BY <1>1, <1>2
<1>4. Kept(list', want')
  BY <1>1, <1>2, <1>3 DEF Kept
<1> QED
  BY <1>1, <1>4, EndContents

LEMMA NextContents == IInv /\ Contents /\ [Next]_vars => Contents'
<1> SUFFICES ASSUME IInv, Contents, [Next]_vars PROVE Contents'
  OBVIOUS
<1>1. CASE UNCHANGED vars
  <2>1. UNCHANGED <<list, pc, what, head, new, todo, want>>
    BY <1>1 DEF vars
  <2>2. Promised' = Promised
    BY <2>1, PromisedIs
  <2> QED
    BY <2>1, <2>2 DEF Contents, Coming, OnlySplit
<1>2. ASSUME NEW c \in Containers, NEW a \in Attr, Add(c, a) PROVE Contents'
  BY <1>2, AddContents
<1>3. ASSUME NEW s \in Containers, Merge(s) PROVE Contents'
  BY <1>3, MergeContents
<1>4. CASE Take
  BY <1>4, TakeContents
<1>5. CASE TakeEnd
  BY <1>5, LoopContents DEF TakeEnd, Exchanged, Contents, Coming
<1>6. CASE Normalise
  BY <1>6, NormaliseContents
<1>7. CASE NormaliseEnd
  BY <1>7, LoopContents DEF NormaliseEnd, Exchanged, Contents, Coming
<1>8. CASE AddSameRange
  BY <1>8, SameRangeContents
<1>9. CASE AddBefore
  BY <1>9, BeforeContents
<1>10. CASE AddSkip
  BY <1>10, LoopContents DEF AddSkip, MayAdd, Exchanged, Contents, Coming
<1>11. CASE AddEnd
  BY <1>11, AddEndContents
<1>12. CASE CompactJoin
  BY <1>12, JoinContents
<1>13. CASE CompactSkip
  BY <1>13, LoopContents DEF CompactSkip, Exchanged, Contents, Coming
<1>14. CASE Return
  BY <1>14, ReturnContents
<1>15. CASE TakeFails
  <2>1. pc = "take" /\ Fail(head) /\ what.kind # "add"
    BY <1>15 DEF TakeFails, Contents, Coming
  <2> QED
    BY <2>1, FailContents
<1>16. CASE ExistSplitFails
  <2>1. pc = "normalise" /\ Fail(head)
    BY <1>16 DEF ExistSplitFails
  <2>2. what.kind = "add" => \A s \in Sizes, k \in PlanKeys : Has(head, s, k) = Has(list[what.dst], s, k)
    BY <2>1 DEF Contents, OnlySplit
  <2> QED
    BY <2>1, <2>2, FailContents
<1>17. CASE NewSplitFails
  <2>1. pc = "normalise" /\ Fail(SplitHead) /\ NormaliseGoesOn
    BY <1>17 DEF NewSplitFails
  <2>2. ASSUME NEW s \in Sizes, NEW k \in PlanKeys PROVE Has(SplitHead, s, k) = Has(head, s, k)
    BY <2>1, NormaliseLists, SplitHas, SizesFacts DEF IInv, SplitHead
  <2>3. what.kind = "add" => \A s \in Sizes, k \in PlanKeys : Has(head, s, k) = Has(list[what.dst], s, k)
    BY <2>1 DEF Contents, OnlySplit
  <2> QED
    BY <2>1, <2>2, <2>3, FailContents
<1> QED
  BY <1>1, <1>2, <1>3, <1>4, <1>5, <1>6, <1>7, <1>8, <1>9, <1>10, <1>11, <1>12, <1>13,
     <1>14, <1>15, <1>16, <1>17 DEF Next, Loops, NoMemory

\* The lists have what was promised, and a running call loses nothing.
THEOREM ContentsCorrect == Spec => []Contents
<1>1. Init => Contents
  BY InitContents
<1>2. IInv /\ Contents /\ [Next]_vars => Contents'
  BY NextContents
<1> QED
  BY <1>1, <1>2, Invariance, PTL DEF Spec

\* Between calls a container offers, for every message size, the plans that
\* were added for it and no others, each as often as it was added (ucg_plans_
\* add, ucg_plans_merge), also after calls that have failed half-way.
THEOREM OffersCorrect == Spec => []OffersWhatWasAdded
<1>1. IInv /\ Contents => OffersWhatWasAdded
  <2> SUFFICES ASSUME IInv, Contents, NEW c \in Containers, NEW s \in Sizes
               PROVE  Offered(list[c], s) = want[c][s]
    BY DEF OffersWhatWasAdded
  <2>2. list[c] \in Ordered /\ s \in Nat /\ want[c][s] \in KeyBags
    BY SizesFacts DEF IInv, Contents, Kept
  <2>3. ASSUME NEW k \in PlanKeys PROVE InBag(Offered(list[c], s), k) = InBag(want[c][s], k)
    BY <2>2, OfferedHas DEF Contents, Kept
  <2> QED
    BY <2>2, <2>3, OfferedHas, SameBag
<1> QED
  BY <1>1, Invariance, ContentsCorrect, PTL

-----------------------------------------------------------------------------
(* The choice of a plan *)

\* The keys a plan can be prepared as.
KeysOf(p) == {Key(p)} \cup {Key(p.fb[j]) : j \in DOMAIN p.fb}

LEMMA KeysOfFacts ==
  ASSUME NEW p \in Good, NEW k
  PROVE  Copies(p, k) # 0 <=> k \in KeysOf(p)
<1> DEFINE S == {i \in DOMAIN Keys(p.fb) : Keys(p.fb)[i] = k}
<1>1. p.fb \in Seq(Fallback) /\ Len(p.fb) \in Nat /\ DOMAIN Keys(p.fb) = 1 .. Len(p.fb)
  BY DEF Good, Plan, Keys
<1>2. Count(Keys(p.fb), k) = Cardinality(S) /\ Cardinality(S) \in Nat /\ IsFiniteSet(S)
  <2>1. DOMAIN Keys(p.fb) = 1 .. Len(p.fb) /\ Len(p.fb) \in Nat
    BY <1>1
  <2> QED
    BY <2>1, CountType DEF Count
<1>3. Cardinality(S) # 0 <=> S # {}
  <2> HIDE DEF S
  <2> QED
    BY <1>2, FS_EmptySet
<1>4. S # {} <=> \E j \in DOMAIN p.fb : Key(p.fb[j]) = k
  BY DEF Keys
<1> HIDE DEF S
<1>5. Copies(p, k) = Once(Key(p), k) + Cardinality(S)
  BY <1>2 DEF Copies
<1>6. CASE Key(p) = k
  <2>1. Once(Key(p), k) = 1
    BY <1>6 DEF Once
  <2> QED
    BY <1>2, <1>5, <1>6, <2>1 DEF KeysOf
<1>7. CASE Key(p) # k
  <2>1. Once(Key(p), k) = 0
    BY <1>7 DEF Once
  <2>2. Copies(p, k) = Cardinality(S)
    BY <1>2, <1>5, <2>1
  <2> QED
    BY <1>3, <1>4, <1>7, <2>2 DEF KeysOf
<1> QED
  BY <1>6, <1>7

LEMMA GoodKeys ==
  ASSUME NEW p \in Good
  PROVE  /\ KeysOf(p) \subseteq PlanKeys
         /\ \A k \in KeysOf(p) : k[2] <= p.score
<1>1. /\ p.prepare \in Prepares /\ p.score \in Nat
      /\ p.fb \in Seq(FallbackFor(p.score, p.lo, p.hi))
  BY DEF Good, Plan, Fallbacks
<1>2. ASSUME NEW j \in DOMAIN p.fb
      PROVE  p.fb[j].prepare \in Prepares /\ p.fb[j].score \in Nat /\ p.fb[j].score <= p.score
  BY <1>1 DEF FallbackFor, Fallback
<1> QED
  BY <1>1, <1>2 DEF KeysOf, PlanKeys, Key

\* The best of the keys in D whose prepare function accepts the arguments.
BestOf(D, ok, k) ==
    LET able == {e \in D : e[1] \in ok}
    IN  IF able = {} THEN k = NotFound
        ELSE k \in able /\ \A e \in able : e[2] <= k[2]

LEMMA PlanBest ==
  ASSUME NEW p \in Good, NEW ok
  PROVE  BestOf(KeysOf(p), ok, IF p.prepare \in ok THEN Key(p) ELSE PrepareFallback(p, ok))
<1>1. CASE p.prepare \in ok
  <2>1. Key(p) \in KeysOf(p) /\ Key(p)[1] \in ok /\ Key(p)[2] = p.score
    BY <1>1 DEF KeysOf, Key
  <2> QED
    BY <1>1, <2>1, GoodKeys DEF BestOf
<1>2. CASE p.prepare \notin ok
  <2> DEFINE A == {i \in DOMAIN p.fb : p.fb[i].prepare # p.prepare /\ p.fb[i].prepare \in ok}
             K == PrepareFallback(p, ok)
  <2>1. p.fb \in Seq(FallbackFor(p.score, p.lo, p.hi)) /\ Ranked(p.fb)
    BY DEF Good, Plan, Fallbacks
  <2>2. \A j \in DOMAIN p.fb : p.fb[j].score \in Nat
    BY <2>1 DEF FallbackFor, Fallback
  <2>3. ASSUME NEW e \in KeysOf(p), e[1] \in ok
        PROVE  \E j \in A : e = Key(p.fb[j])
    BY <1>2, <2>3 DEF KeysOf, Key
  <2>4. K = IF A = {} THEN NotFound ELSE Key(p.fb[Min(A)])
    BY DEF PrepareFallback
  <2>5. A \in SUBSET Nat
    BY <2>1
  <2> HIDE DEF K
  <2>6. CASE A = {}
    BY <1>2, <2>3, <2>4, <2>6 DEF BestOf, K
  <2>7. CASE A # {}
    <3> DEFINE m == Min(A)
    <3>1. m \in A /\ \A x \in A : m <= x
      <4> HIDE DEF A
      <4> QED
        BY <2>5, <2>7, MinIsLeast
    <3> HIDE DEF m
    <3>2. K = Key(p.fb[m])
      BY <2>4, <2>7 DEF m
    <3>3. K \in KeysOf(p) /\ K[1] \in ok /\ K[2] = p.fb[m].score
      BY <3>1, <3>2 DEF KeysOf, Key
    <3>4. ASSUME NEW e \in KeysOf(p), e[1] \in ok
          PROVE  e[2] <= K[2]
      <4>1. PICK j \in A : e = Key(p.fb[j])
        BY <2>3, <3>4
      <4>2. m \in DOMAIN p.fb /\ j \in DOMAIN p.fb /\ m <= j /\ j \in Nat /\ m \in Nat
        BY <2>5, <3>1
      <4>3. p.fb[j].score <= p.fb[m].score
        <5>1. CASE m = j
          BY <2>2, <4>2, <5>1
        <5>2. CASE m < j
          BY <2>1, <4>2, <5>2 DEF Ranked
        <5> QED
          BY <4>2, <5>1, <5>2
      <4>4. e[2] = p.fb[j].score
        BY <4>1 DEF Key
      <4> QED
        BY <3>3, <4>3, <4>4
    <3> QED
      BY <1>2, <3>3, <3>4 DEF BestOf, K
  <2> QED
    BY <2>6, <2>7
<1> QED
  BY <1>1, <1>2

\* The search stops at the plan that covers the size.
LEMMA FoundCovers ==
  ASSUME NEW l \in Ordered, NEW s \in Nat
  PROVE  FoundAt(l, s) = {i \in 1 .. Len(l) : Covers(l[i], s)}
<1>1. ASSUME NEW i \in 1 .. Len(l), Covers(l[i], s), NEW j \in 1 .. i - 1
      PROVE  s >= l[j].lo
  <2>1. j \in 1 .. Len(l) /\ j < i
    BY OrderedFacts
  <2>2. l[j].hi <= l[i].lo /\ l[j].lo < l[j].hi /\ l[j].lo \in Nat /\ l[j].hi \in Nat /\ l[i].lo \in Nat
    BY <2>1, OrderedFacts
  <2> QED
    BY <1>1, <2>2 DEF Covers
<1> QED
  BY <1>1, OrderedFacts DEF FoundAt, Covers

\* l has the plans of the bag b for size s.
Holds(l, s, b) == \A k \in PlanKeys : Has(l, s, k) = InBag(b, k)

LEMMA SearchBest ==
  ASSUME NEW l \in Ordered, NEW s \in Nat, NEW b \in KeyBags, Holds(l, s, b), NEW ok
  PROVE  BestOf(DOMAIN b, ok, PrepareFrom(l, s, ok))
<1>1. /\ DOMAIN b \in SUBSET PlanKeys
      /\ \A k \in PlanKeys : k \in DOMAIN b <=> InBag(b, k) # 0
  BY DEF KeyBags, InBag
<1>2. CASE \E i \in 1 .. Len(l) : Covers(l[i], s)
  <2>1. PICK i \in 1 .. Len(l) : Covers(l[i], s)
    BY <1>2
  <2>2. l[i] \in Good /\ i \in Nat
    BY OrderedFacts
  <2>3. FoundAt(l, s) = {i}
    BY <2>1, FoundCovers, CoversOnce
  <2>4. Min({i}) = i
    <3>1. {i} \in SUBSET Nat /\ {i} # {}
      BY <2>2
    <3>2. Min({i}) \in {i}
      BY ONLY <3>1, MinIsLeast
    <3> QED
      BY <3>2
  <2>5. PrepareFrom(l, s, ok) =
            IF l[i].prepare \in ok THEN Key(l[i]) ELSE PrepareFallback(l[i], ok)
    BY <2>3, <2>4 DEF PrepareFrom
  <2>6. \A k \in PlanKeys : Has(l, s, k) = Copies(l[i], k)
    BY <2>1, HasCovered
  <2>7. \A k \in PlanKeys : k \in DOMAIN b <=> k \in KeysOf(l[i])
    BY <1>1, <2>2, <2>6, KeysOfFacts DEF Holds
  <2>8. DOMAIN b = KeysOf(l[i])
    BY <1>1, <2>2, <2>7, GoodKeys
  <2> QED
    BY <2>2, <2>5, <2>8, PlanBest
<1>3. CASE ~ \E i \in 1 .. Len(l) : Covers(l[i], s)
  <2>1. FoundAt(l, s) = {}
    BY <1>3, FoundCovers
  <2>2. PrepareFrom(l, s, ok) = NotFound
    BY <2>1 DEF PrepareFrom
  <2>3. \A k \in PlanKeys : Has(l, s, k) = 0
    BY <1>3, HasNothing
  <2>4. DOMAIN b = {}
    BY <1>1, <2>3 DEF Holds
  <2> QED
    BY <2>2, <2>4 DEF BestOf
<1> QED
  BY <1>2, <1>3

\* Between calls ucg_plans_prepare finds the best plan that accepts the
\* arguments among all that were added for the size, and alltoallv the best one
\* for size 0 after a first failure, whatever functions accept them.
THEOREM PreparesCorrect == Spec => []PreparesTheBest
<1>1. IInv /\ Contents => PreparesTheBest
  <2> SUFFICES ASSUME IInv, Contents, NEW c \in Containers, NEW s \in Sizes,
                      NEW ok \in SUBSET Prepares
               PROVE  /\ Best(c, s, ok, Prepare(list[c], s, ok, FALSE))
                      /\ FirstFails(list[c], s, ok) => Best(c, 0, ok, Prepare(list[c], s, ok, TRUE))
                      /\ \A t \in Sizes : FirstFails(list[c], s, ok) /\ FirstFails(list[c], t, ok)
                            => Prepare(list[c], s, ok, TRUE) = Prepare(list[c], t, ok, TRUE)
    BY DEF PreparesTheBest
  <2>1. ASSUME NEW z \in Sizes
        PROVE  Best(c, z, ok, PrepareFrom(list[c], z, ok))
    <3>1. /\ list[c] \in Ordered /\ z \in Nat /\ want[c][z] \in KeyBags
          /\ Holds(list[c], z, want[c][z])
      BY SizesFacts DEF IInv, Contents, Kept, Holds
    <3>2. BestOf(DOMAIN want[c][z], ok, PrepareFrom(list[c], z, ok))
      BY <3>1, SearchBest
    <3> QED
      BY <3>2 DEF Best, BestOf, BagToSet
  <2>2. 0 \in Sizes
    BY PlansAssumption DEF Sizes
  <2>3. Best(c, s, ok, Prepare(list[c], s, ok, FALSE))
    BY <2>1 DEF Prepare
  <2>4. FirstFails(list[c], s, ok) => Best(c, 0, ok, Prepare(list[c], s, ok, TRUE))
    BY <2>1, <2>2 DEF Prepare
  <2>5. ASSUME NEW t \in Sizes, FirstFails(list[c], s, ok), FirstFails(list[c], t, ok)
        PROVE  Prepare(list[c], s, ok, TRUE) = Prepare(list[c], t, ok, TRUE)
    BY <2>5 DEF Prepare
  <2> QED
    BY <2>3, <2>4, <2>5
<1> QED
  BY <1>1, Invariance, ContentsCorrect, PTL
=============================================================================
