-------------------------- MODULE PlanChoiceProofs --------------------------
(***************************************************************************)
(* Proofs about PlanChoice, for any members, groups, configurations and    *)
(* calls whose arguments match: members choose the same plan, and with the *)
(* default tables there is one to choose, for every number of nodes and of *)
(* processes and for every message size.                                   *)
(*                                                                         *)
(* The first follows because the plans and whether they accept are         *)
(* functions of what the members have in common, and because the only      *)
(* plans for an alltoallv cover all sizes.  The second is read off the     *)
(* tables, row by row.                                                     *)
(***************************************************************************)
EXTENDS PlanChoice, FiniteSetTheorems, NatFacts

-----------------------------------------------------------------------------
(* The algorithm of a tier for a size *)

\* A tier whose i-th range is the last to begin at or below s has the i-th
\* algorithm for it.
LEMMA TierValue ==
  ASSUME NEW tier, NEW s, NEW n \in Nat, Len(tier) \div 2 = n, NEW i \in 1..n,
         tier[2*i - 1] <= s, \A j \in 1..n : j > i => ~(tier[2*j - 1] <= s)
  PROVE  InTier(tier, s) = tier[2*i]
<1> DEFINE from == {j \in 1..n : tier[2*j - 1] <= s}
<1>1. i \in from /\ \A j \in from : j <= i
  OBVIOUS
<1>2. \A x \in from : (\A y \in from : x >= y) => x = i
  BY <1>1
<1>3. Max(from) = i
  <2> HIDE DEF from
  <2>1. i \in from /\ \A y \in from : i >= y
    BY <1>1
  <2> QED
    BY <1>2, <2>1 DEF Max
<1>4. from # {}
  BY <1>1
<1>5. InTier(tier, s) = tier[2 * Max(from)]
  BY <1>4 DEF InTier
<1> QED
  BY <1>3, <1>5

\* The lookup in tiers of one range up to five.
LEMMA Tier1 ==
  ASSUME NEW s \in Nat, NEW t, Len(t) = 2, t[1] \in Nat
  PROVE  InTier(t, s) =
           IF t[1] <= s THEN t[2] ELSE 0
<1>1. Len(t) \div 2 = 1
  OBVIOUS
<1>2. t[1] <= s => InTier(t, s) = t[2]
  <2> SUFFICES ASSUME t[1] <= s PROVE InTier(t, s) = t[2*1]
    OBVIOUS
  <2>1. \A j \in 1..1 : j > 1 => ~(t[2*j - 1] <= s)
    BY SMTT(30)
  <2>2. Len(t) \div 2 = 1 /\ 1 \in Nat /\ 1 \in 1..1 /\ t[2*1 - 1] <= s
    BY <1>1
  <2> QED
    BY ONLY <2>1, <2>2, TierValue
<1>3. ~(t[1] <= s) => InTier(t, s) = 0
  <2> SUFFICES ASSUME ~(t[1] <= s) PROVE InTier(t, s) = 0
    OBVIOUS
  <2>1. \A j \in 1..1 : ~(t[2*j - 1] <= s)
    OBVIOUS
  <2> QED
    BY <1>1, <2>1 DEF InTier
<1> QED
  BY <1>2, <1>3

LEMMA Tier2 ==
  ASSUME NEW s \in Nat, NEW t, Len(t) = 4, t[1] \in Nat, t[3] \in Nat,
         t[1] < t[3]
  PROVE  InTier(t, s) =
           IF t[3] <= s THEN t[4] ELSE IF t[1] <= s THEN t[2] ELSE 0
<1>1. Len(t) \div 2 = 2
  OBVIOUS
<1>2. t[3] <= s => InTier(t, s) = t[4]
  <2> SUFFICES ASSUME t[3] <= s PROVE InTier(t, s) = t[2*2]
    OBVIOUS
  <2>1. \A j \in 1..2 : j > 2 => ~(t[2*j - 1] <= s)
    BY SMTT(30)
  <2>2. Len(t) \div 2 = 2 /\ 2 \in Nat /\ 2 \in 1..2 /\ t[2*2 - 1] <= s
    BY <1>1
  <2> QED
    BY ONLY <2>1, <2>2, TierValue
<1>3. t[1] <= s /\ ~(t[3] <= s) => InTier(t, s) = t[2]
  <2> SUFFICES ASSUME t[1] <= s /\ ~(t[3] <= s) PROVE InTier(t, s) = t[2*1]
    OBVIOUS
  <2>1. \A j \in 1..2 : j > 1 => ~(t[2*j - 1] <= s)
    BY SMTT(30)
  <2>2. Len(t) \div 2 = 2 /\ 2 \in Nat /\ 1 \in 1..2 /\ t[2*1 - 1] <= s
    BY <1>1
  <2> QED
    BY ONLY <2>1, <2>2, TierValue
<1>4. ~(t[1] <= s) => InTier(t, s) = 0
  <2> SUFFICES ASSUME ~(t[1] <= s) PROVE InTier(t, s) = 0
    OBVIOUS
  <2>1. \A j \in 1..2 : ~(t[2*j - 1] <= s)
    OBVIOUS
  <2> QED
    BY <1>1, <2>1 DEF InTier
<1> QED
  BY <1>2, <1>3, <1>4

LEMMA Tier3 ==
  ASSUME NEW s \in Nat, NEW t, Len(t) = 6, t[1] \in Nat, t[3] \in Nat, t[5] \in Nat,
         t[1] < t[3], t[3] < t[5]
  PROVE  InTier(t, s) =
           IF t[5] <= s THEN t[6] ELSE IF t[3] <= s THEN t[4] ELSE IF t[1] <= s THEN t[2] ELSE 0
<1>1. Len(t) \div 2 = 3
  OBVIOUS
<1>2. t[5] <= s => InTier(t, s) = t[6]
  <2> SUFFICES ASSUME t[5] <= s PROVE InTier(t, s) = t[2*3]
    OBVIOUS
  <2>1. \A j \in 1..3 : j > 3 => ~(t[2*j - 1] <= s)
    BY SMTT(30)
  <2>2. Len(t) \div 2 = 3 /\ 3 \in Nat /\ 3 \in 1..3 /\ t[2*3 - 1] <= s
    BY <1>1
  <2> QED
    BY ONLY <2>1, <2>2, TierValue
<1>3. t[3] <= s /\ ~(t[5] <= s) => InTier(t, s) = t[4]
  <2> SUFFICES ASSUME t[3] <= s /\ ~(t[5] <= s) PROVE InTier(t, s) = t[2*2]
    OBVIOUS
  <2>1. \A j \in 1..3 : j > 2 => ~(t[2*j - 1] <= s)
    BY SMTT(30)
  <2>2. Len(t) \div 2 = 3 /\ 3 \in Nat /\ 2 \in 1..3 /\ t[2*2 - 1] <= s
    BY <1>1
  <2> QED
    BY ONLY <2>1, <2>2, TierValue
<1>4. t[1] <= s /\ ~(t[3] <= s) => InTier(t, s) = t[2]
  <2> SUFFICES ASSUME t[1] <= s /\ ~(t[3] <= s) PROVE InTier(t, s) = t[2*1]
    OBVIOUS
  <2>1. \A j \in 1..3 : j > 1 => ~(t[2*j - 1] <= s)
    BY SMTT(30)
  <2>2. Len(t) \div 2 = 3 /\ 3 \in Nat /\ 1 \in 1..3 /\ t[2*1 - 1] <= s
    BY <1>1
  <2> QED
    BY ONLY <2>1, <2>2, TierValue
<1>5. ~(t[1] <= s) => InTier(t, s) = 0
  <2> SUFFICES ASSUME ~(t[1] <= s) PROVE InTier(t, s) = 0
    OBVIOUS
  <2>1. \A j \in 1..3 : ~(t[2*j - 1] <= s)
    OBVIOUS
  <2> QED
    BY <1>1, <2>1 DEF InTier
<1> QED
  BY <1>2, <1>3, <1>4, <1>5

LEMMA Tier4 ==
  ASSUME NEW s \in Nat, NEW t, Len(t) = 8, t[1] \in Nat, t[3] \in Nat, t[5] \in Nat, t[7] \in Nat,
         t[1] < t[3], t[3] < t[5], t[5] < t[7]
  PROVE  InTier(t, s) =
           IF t[7] <= s THEN t[8] ELSE IF t[5] <= s THEN t[6] ELSE IF t[3] <= s THEN t[4] ELSE IF t[1] <= s THEN t[2] ELSE 0
<1>1. Len(t) \div 2 = 4
  OBVIOUS
<1>2. t[7] <= s => InTier(t, s) = t[8]
  <2> SUFFICES ASSUME t[7] <= s PROVE InTier(t, s) = t[2*4]
    OBVIOUS
  <2>1. \A j \in 1..4 : j > 4 => ~(t[2*j - 1] <= s)
    BY SMTT(30)
  <2>2. Len(t) \div 2 = 4 /\ 4 \in Nat /\ 4 \in 1..4 /\ t[2*4 - 1] <= s
    BY <1>1
  <2> QED
    BY ONLY <2>1, <2>2, TierValue
<1>3. t[5] <= s /\ ~(t[7] <= s) => InTier(t, s) = t[6]
  <2> SUFFICES ASSUME t[5] <= s /\ ~(t[7] <= s) PROVE InTier(t, s) = t[2*3]
    OBVIOUS
  <2>1. \A j \in 1..4 : j > 3 => ~(t[2*j - 1] <= s)
    BY SMTT(30)
  <2>2. Len(t) \div 2 = 4 /\ 4 \in Nat /\ 3 \in 1..4 /\ t[2*3 - 1] <= s
    BY <1>1
  <2> QED
    BY ONLY <2>1, <2>2, TierValue
<1>4. t[3] <= s /\ ~(t[5] <= s) => InTier(t, s) = t[4]
  <2> SUFFICES ASSUME t[3] <= s /\ ~(t[5] <= s) PROVE InTier(t, s) = t[2*2]
    OBVIOUS
  <2>1. \A j \in 1..4 : j > 2 => ~(t[2*j - 1] <= s)
    BY SMTT(30)
  <2>2. Len(t) \div 2 = 4 /\ 4 \in Nat /\ 2 \in 1..4 /\ t[2*2 - 1] <= s
    BY <1>1
  <2> QED
    BY ONLY <2>1, <2>2, TierValue
<1>5. t[1] <= s /\ ~(t[3] <= s) => InTier(t, s) = t[2]
  <2> SUFFICES ASSUME t[1] <= s /\ ~(t[3] <= s) PROVE InTier(t, s) = t[2*1]
    OBVIOUS
  <2>1. \A j \in 1..4 : j > 1 => ~(t[2*j - 1] <= s)
    BY SMTT(30)
  <2>2. Len(t) \div 2 = 4 /\ 4 \in Nat /\ 1 \in 1..4 /\ t[2*1 - 1] <= s
    BY <1>1
  <2> QED
    BY ONLY <2>1, <2>2, TierValue
<1>6. ~(t[1] <= s) => InTier(t, s) = 0
  <2> SUFFICES ASSUME ~(t[1] <= s) PROVE InTier(t, s) = 0
    OBVIOUS
  <2>1. \A j \in 1..4 : ~(t[2*j - 1] <= s)
    OBVIOUS
  <2> QED
    BY <1>1, <2>1 DEF InTier
<1> QED
  BY <1>2, <1>3, <1>4, <1>5, <1>6

LEMMA Tier5 ==
  ASSUME NEW s \in Nat, NEW t, Len(t) = 10, t[1] \in Nat, t[3] \in Nat, t[5] \in Nat, t[7] \in Nat, t[9] \in Nat,
         t[1] < t[3], t[3] < t[5], t[5] < t[7], t[7] < t[9]
  PROVE  InTier(t, s) =
           IF t[9] <= s THEN t[10] ELSE IF t[7] <= s THEN t[8] ELSE IF t[5] <= s THEN t[6] ELSE IF t[3] <= s THEN t[4] ELSE IF t[1] <= s THEN t[2] ELSE 0
<1>1. Len(t) \div 2 = 5
  OBVIOUS
<1>2. t[9] <= s => InTier(t, s) = t[10]
  <2> SUFFICES ASSUME t[9] <= s PROVE InTier(t, s) = t[2*5]
    OBVIOUS
  <2>1. \A j \in 1..5 : j > 5 => ~(t[2*j - 1] <= s)
    BY SMTT(30)
  <2>2. Len(t) \div 2 = 5 /\ 5 \in Nat /\ 5 \in 1..5 /\ t[2*5 - 1] <= s
    BY <1>1
  <2> QED
    BY ONLY <2>1, <2>2, TierValue
<1>3. t[7] <= s /\ ~(t[9] <= s) => InTier(t, s) = t[8]
  <2> SUFFICES ASSUME t[7] <= s /\ ~(t[9] <= s) PROVE InTier(t, s) = t[2*4]
    OBVIOUS
  <2>1. \A j \in 1..5 : j > 4 => ~(t[2*j - 1] <= s)
    BY SMTT(30)
  <2>2. Len(t) \div 2 = 5 /\ 5 \in Nat /\ 4 \in 1..5 /\ t[2*4 - 1] <= s
    BY <1>1
  <2> QED
    BY ONLY <2>1, <2>2, TierValue
<1>4. t[5] <= s /\ ~(t[7] <= s) => InTier(t, s) = t[6]
  <2> SUFFICES ASSUME t[5] <= s /\ ~(t[7] <= s) PROVE InTier(t, s) = t[2*3]
    OBVIOUS
  <2>1. \A j \in 1..5 : j > 3 => ~(t[2*j - 1] <= s)
    BY SMTT(30)
  <2>2. Len(t) \div 2 = 5 /\ 5 \in Nat /\ 3 \in 1..5 /\ t[2*3 - 1] <= s
    BY <1>1
  <2> QED
    BY ONLY <2>1, <2>2, TierValue
<1>5. t[3] <= s /\ ~(t[5] <= s) => InTier(t, s) = t[4]
  <2> SUFFICES ASSUME t[3] <= s /\ ~(t[5] <= s) PROVE InTier(t, s) = t[2*2]
    OBVIOUS
  <2>1. \A j \in 1..5 : j > 2 => ~(t[2*j - 1] <= s)
    BY SMTT(30)
  <2>2. Len(t) \div 2 = 5 /\ 5 \in Nat /\ 2 \in 1..5 /\ t[2*2 - 1] <= s
    BY <1>1
  <2> QED
    BY ONLY <2>1, <2>2, TierValue
<1>6. t[1] <= s /\ ~(t[3] <= s) => InTier(t, s) = t[2]
  <2> SUFFICES ASSUME t[1] <= s /\ ~(t[3] <= s) PROVE InTier(t, s) = t[2*1]
    OBVIOUS
  <2>1. \A j \in 1..5 : j > 1 => ~(t[2*j - 1] <= s)
    BY SMTT(30)
  <2>2. Len(t) \div 2 = 5 /\ 5 \in Nat /\ 1 \in 1..5 /\ t[2*1 - 1] <= s
    BY <1>1
  <2> QED
    BY ONLY <2>1, <2>2, TierValue
<1>7. ~(t[1] <= s) => InTier(t, s) = 0
  <2> SUFFICES ASSUME ~(t[1] <= s) PROVE InTier(t, s) = 0
    OBVIOUS
  <2>1. \A j \in 1..5 : ~(t[2*j - 1] <= s)
    OBVIOUS
  <2> QED
    BY <1>1, <2>1 DEF InTier
<1> QED
  BY <1>2, <1>3, <1>4, <1>5, <1>6, <1>7

-----------------------------------------------------------------------------
(* The tables *)

Levels == {"p1", "p4", "p8", "p16", "p32", "p64", "pLG"}

\* A table has tiers, one of which has one of the algorithms ids for size s.
Offers(table, s, ids) ==
  /\ DOMAIN table \subseteq Nat \ {0}
  /\ \E u \in DOMAIN table : InTier(table[u], s) \in ids

\* Broadcasts that refuse nothing if the locations are known.
BcastSure == {1, 2, 3, 4, 6, 10, 12, 13}

\* Allgathervs that refuse nothing.
AllgathervSure == {2, 3, 4, 5}

\* Each table of the broadcast has a sure algorithm for every size.
LEMMA BcastN4Offers ==
  ASSUME NEW s \in Nat, NEW p \in Levels
  PROVE  Offers(BcastN4(TRUE)[p], s, BcastSure)
<1>1. CASE p = "p1"
  BY <1>1, Tier1, Tier4 DEF BcastN4, Offers, BcastSure, K, M
<1>2. CASE p = "p4"
  BY <1>2, Tier3 DEF BcastN4, Offers, BcastSure, K, M
<1>3. CASE p = "p8"
  BY <1>3, Tier2 DEF BcastN4, Offers, BcastSure, K, M
<1>4. CASE p = "p16"
  BY <1>4, Tier2 DEF BcastN4, Offers, BcastSure, K, M
<1>5. CASE p = "p32"
  BY <1>5, Tier2 DEF BcastN4, Offers, BcastSure, K, M
<1>6. CASE p = "p64"
  BY <1>6, Tier2 DEF BcastN4, Offers, BcastSure, K, M
<1>7. CASE p = "pLG"
  BY <1>7, Tier2 DEF BcastN4, Offers, BcastSure, K, M
<1> QED
  BY <1>1, <1>2, <1>3, <1>4, <1>5, <1>6, <1>7 DEF Levels

LEMMA BcastN8Offers ==
  ASSUME NEW s \in Nat, NEW p \in Levels
  PROVE  Offers(BcastN8[p], s, BcastSure)
<1>1. CASE p = "p1"
  BY <1>1, Tier1, Tier4 DEF BcastN8, Offers, BcastSure, K, M
<1>2. CASE p = "p4"
  BY <1>2, Tier3 DEF BcastN8, Offers, BcastSure, K, M
<1>3. CASE p = "p8"
  BY <1>3, Tier2, Tier4 DEF BcastN8, Offers, BcastSure, K, M
<1>4. CASE p = "p16"
  BY <1>4, Tier3 DEF BcastN8, Offers, BcastSure, K, M
<1>5. CASE p = "p32"
  BY <1>5, Tier2 DEF BcastN8, Offers, BcastSure, K, M
<1>6. CASE p = "p64"
  BY <1>6, Tier2 DEF BcastN8, Offers, BcastSure, K, M
<1>7. CASE p = "pLG"
  BY <1>7, Tier2 DEF BcastN8, Offers, BcastSure, K, M
<1> QED
  BY <1>1, <1>2, <1>3, <1>4, <1>5, <1>6, <1>7 DEF Levels

LEMMA BcastN16Offers ==
  ASSUME NEW s \in Nat, NEW p \in Levels
  PROVE  Offers(BcastN16[p], s, BcastSure)
<1>1. CASE p = "p1"
  BY <1>1, Tier1, Tier3 DEF BcastN16, Offers, BcastSure, K, M
<1>2. CASE p = "p4"
  BY <1>2, Tier2, Tier4 DEF BcastN16, Offers, BcastSure, K, M
<1>3. CASE p = "p8"
  BY <1>3, Tier1, Tier3 DEF BcastN16, Offers, BcastSure, K, M
<1>4. CASE p = "p16"
  BY <1>4, Tier1, Tier4 DEF BcastN16, Offers, BcastSure, K, M
<1>5. CASE p = "p32"
  BY <1>5, Tier3 DEF BcastN16, Offers, BcastSure, K, M
<1>6. CASE p = "p64"
  BY <1>6, Tier2 DEF BcastN16, Offers, BcastSure, K, M
<1>7. CASE p = "pLG"
  BY <1>7, Tier3 DEF BcastN16, Offers, BcastSure, K, M
<1> QED
  BY <1>1, <1>2, <1>3, <1>4, <1>5, <1>6, <1>7 DEF Levels

LEMMA BcastNLGOffers ==
  ASSUME NEW s \in Nat, NEW p \in Levels
  PROVE  Offers(BcastNLG[p], s, BcastSure)
<1>1. CASE p = "p1"
  BY <1>1, Tier1, Tier4 DEF BcastNLG, Offers, BcastSure, K, M
<1>2. CASE p = "p4"
  BY <1>2, Tier1, Tier3 DEF BcastNLG, Offers, BcastSure, K, M
<1>3. CASE p = "p8"
  BY <1>3, Tier1, Tier3 DEF BcastNLG, Offers, BcastSure, K, M
<1>4. CASE p = "p16"
  BY <1>4, Tier3 DEF BcastNLG, Offers, BcastSure, K, M
<1>5. CASE p = "p32"
  BY <1>5, Tier3 DEF BcastNLG, Offers, BcastSure, K, M
<1>6. CASE p = "p64"
  BY <1>6, Tier3 DEF BcastNLG, Offers, BcastSure, K, M
<1>7. CASE p = "pLG"
  BY <1>7, Tier3 DEF BcastNLG, Offers, BcastSure, K, M
<1> QED
  BY <1>1, <1>2, <1>3, <1>4, <1>5, <1>6, <1>7 DEF Levels

\* The table that groups without locations use has one from 64 bytes on.
LEMMA BcastUnknownOffers ==
  ASSUME NEW s \in Nat, s >= 64
  PROVE  Offers(BcastN4(TRUE).p4, s, {1, 10})
BY Tier3 DEF BcastN4, Offers, K, M

\* Each table of the allgatherv has a sure algorithm for every size.
LEMMA AllgathervN4Offers ==
  ASSUME NEW s \in Nat, NEW p \in Levels
  PROVE  Offers(AllgathervN4(TRUE)[p], s, AllgathervSure)
<1>1. CASE p = "p1"
  BY <1>1, Tier1 DEF AllgathervN4, Offers, AllgathervSure, K, M
<1>2. CASE p = "p4"
  BY <1>2, Tier3 DEF AllgathervN4, Offers, AllgathervSure, K, M
<1>3. CASE p = "p8"
  BY <1>3, Tier3 DEF AllgathervN4, Offers, AllgathervSure, K, M
<1>4. CASE p = "p16"
  BY <1>4, Tier3 DEF AllgathervN4, Offers, AllgathervSure, K, M
<1>5. CASE p = "p32"
  BY <1>5, Tier4 DEF AllgathervN4, Offers, AllgathervSure, K, M
<1>6. CASE p = "p64"
  BY <1>6, Tier2, Tier4 DEF AllgathervN4, Offers, AllgathervSure, K, M
<1>7. CASE p = "pLG"
  BY <1>7, Tier1 DEF AllgathervN4, Offers, AllgathervSure, K, M
<1> QED
  BY <1>1, <1>2, <1>3, <1>4, <1>5, <1>6, <1>7 DEF Levels

LEMMA AllgathervN8Offers ==
  ASSUME NEW s \in Nat, NEW p \in Levels
  PROVE  Offers(AllgathervN8(TRUE)[p], s, AllgathervSure)
<1>1. CASE p = "p1"
  BY <1>1, Tier1 DEF AllgathervN8, Offers, AllgathervSure, K, M
<1>2. CASE p = "p4"
  BY <1>2, Tier1, Tier2, Tier4 DEF AllgathervN8, Offers, AllgathervSure, K, M
<1>3. CASE p = "p8"
  BY <1>3, Tier2, Tier4 DEF AllgathervN8, Offers, AllgathervSure, K, M
<1>4. CASE p = "p16"
  BY <1>4, Tier2, Tier4, Tier5 DEF AllgathervN8, Offers, AllgathervSure, K, M
<1>5. CASE p = "p32"
  BY <1>5, Tier2, Tier3 DEF AllgathervN8, Offers, AllgathervSure, K, M
<1>6. CASE p = "p64"
  BY <1>6, Tier4, Tier5 DEF AllgathervN8, Offers, AllgathervSure, K, M
<1>7. CASE p = "pLG"
  BY <1>7, Tier2, Tier4 DEF AllgathervN8, Offers, AllgathervSure, K, M
<1> QED
  BY <1>1, <1>2, <1>3, <1>4, <1>5, <1>6, <1>7 DEF Levels

LEMMA AllgathervN16Offers ==
  ASSUME NEW s \in Nat, NEW p \in Levels
  PROVE  Offers(AllgathervN16[p], s, AllgathervSure)
<1>1. CASE p = "p1"
  BY <1>1, Tier1 DEF AllgathervN16, Offers, AllgathervSure, K, M
<1>2. CASE p = "p4"
  BY <1>2, Tier1, Tier3 DEF AllgathervN16, Offers, AllgathervSure, K, M
<1>3. CASE p = "p8"
  BY <1>3, Tier1, Tier3 DEF AllgathervN16, Offers, AllgathervSure, K, M
<1>4. CASE p = "p16"
  BY <1>4, Tier4, Tier5 DEF AllgathervN16, Offers, AllgathervSure, K, M
<1>5. CASE p = "p32"
  BY <1>5, Tier2, Tier3 DEF AllgathervN16, Offers, AllgathervSure, K, M
<1>6. CASE p = "p64"
  BY <1>6, Tier4, Tier5 DEF AllgathervN16, Offers, AllgathervSure, K, M
<1>7. CASE p = "pLG"
  BY <1>7, Tier2, Tier5 DEF AllgathervN16, Offers, AllgathervSure, K, M
<1> QED
  BY <1>1, <1>2, <1>3, <1>4, <1>5, <1>6, <1>7 DEF Levels

LEMMA AllgathervNLGOffers ==
  ASSUME NEW s \in Nat, NEW p \in Levels
  PROVE  Offers(AllgathervNLG[p], s, AllgathervSure)
<1>1. CASE p = "p1"
  BY <1>1, Tier1, Tier3 DEF AllgathervNLG, Offers, AllgathervSure, K, M
<1>2. CASE p = "p4"
  BY <1>2, Tier1, Tier4 DEF AllgathervNLG, Offers, AllgathervSure, K, M
<1>3. CASE p = "p8"
  BY <1>3, Tier1, Tier3 DEF AllgathervNLG, Offers, AllgathervSure, K, M
<1>4. CASE p = "p16"
  BY <1>4, AllgathervN16Offers DEF AllgathervNLG, Levels
<1>5. CASE p = "p32"
  BY <1>5, AllgathervN16Offers DEF AllgathervNLG, Levels
<1>6. CASE p = "p64"
  BY <1>6, AllgathervN16Offers DEF AllgathervNLG, Levels
<1>7. CASE p = "pLG"
  BY <1>7, AllgathervN16Offers DEF AllgathervNLG, Levels
<1> QED
  BY <1>1, <1>2, <1>3, <1>4, <1>5, <1>6, <1>7 DEF Levels

\* Each table of the allreduce has recursive doubling for every size.
LEMMA AllreduceN4Offers ==
  ASSUME NEW s \in Nat, NEW p \in Levels
  PROVE  Offers(AllreduceN4(TRUE)[p], s, {1})
<1>1. CASE p = "p1"
  BY <1>1, Tier1 DEF AllreduceN4, Offers, K, M
<1>2. CASE p = "p4"
  BY <1>2, Tier1 DEF AllreduceN4, Offers, K, M
<1>3. CASE p = "p8"
  BY <1>3, Tier1 DEF AllreduceN4, Offers, K, M
<1>4. CASE p = "p16"
  BY <1>4, Tier1 DEF AllreduceN4, Offers, K, M
<1>5. CASE p = "p32"
  BY <1>5, Tier1 DEF AllreduceN4, Offers, K, M
<1>6. CASE p = "p64"
  BY <1>6, Tier1 DEF AllreduceN4, Offers, K, M
<1>7. CASE p = "pLG"
  BY <1>7, Tier1 DEF AllreduceN4, Offers, K, M
<1> QED
  BY <1>1, <1>2, <1>3, <1>4, <1>5, <1>6, <1>7 DEF Levels

LEMMA AllreduceN8Offers ==
  ASSUME NEW s \in Nat, NEW p \in Levels
  PROVE  Offers(AllreduceN8[p], s, {1})
<1>1. CASE p = "p1"
  BY <1>1, Tier1 DEF AllreduceN8, Offers, K, M
<1>2. CASE p = "p4"
  BY <1>2, Tier1 DEF AllreduceN8, Offers, K, M
<1>3. CASE p = "p8"
  BY <1>3, Tier1 DEF AllreduceN8, Offers, K, M
<1>4. CASE p = "p16"
  BY <1>4, Tier1 DEF AllreduceN8, Offers, K, M
<1>5. CASE p = "p32"
  BY <1>5, Tier1 DEF AllreduceN8, Offers, K, M
<1>6. CASE p = "p64"
  BY <1>6, Tier1 DEF AllreduceN8, Offers, K, M
<1>7. CASE p = "pLG"
  BY <1>7, Tier1 DEF AllreduceN8, Offers, K, M
<1> QED
  BY <1>1, <1>2, <1>3, <1>4, <1>5, <1>6, <1>7 DEF Levels

LEMMA AllreduceN16Offers ==
  ASSUME NEW s \in Nat, NEW p \in Levels
  PROVE  Offers(AllreduceN16[p], s, {1})
<1>1. CASE p = "p1"
  BY <1>1, Tier1 DEF AllreduceN16, Offers, K, M
<1>2. CASE p = "p4"
  BY <1>2, Tier1 DEF AllreduceN16, Offers, K, M
<1>3. CASE p = "p8"
  BY <1>3, Tier1 DEF AllreduceN16, Offers, K, M
<1>4. CASE p = "p16"
  BY <1>4, Tier1 DEF AllreduceN16, Offers, K, M
<1>5. CASE p = "p32"
  BY <1>5, Tier1 DEF AllreduceN16, Offers, K, M
<1>6. CASE p = "p64"
  BY <1>6, Tier1 DEF AllreduceN16, Offers, K, M
<1>7. CASE p = "pLG"
  BY <1>7, Tier1 DEF AllreduceN16, Offers, K, M
<1> QED
  BY <1>1, <1>2, <1>3, <1>4, <1>5, <1>6, <1>7 DEF Levels

LEMMA AllreduceNLGOffers ==
  ASSUME NEW s \in Nat, NEW p \in Levels
  PROVE  Offers(AllreduceNLG[p], s, {1})
<1>1. CASE p = "p1"
  BY <1>1, Tier1, Tier2 DEF AllreduceNLG, Offers, K, M
<1>2. CASE p = "p4"
  BY <1>2, Tier1 DEF AllreduceNLG, Offers, K, M
<1>3. CASE p = "p8"
  BY <1>3, Tier1 DEF AllreduceNLG, Offers, K, M
<1>4. CASE p = "p16"
  BY <1>4, Tier1 DEF AllreduceNLG, Offers, K, M
<1>5. CASE p = "p32"
  BY <1>5, Tier1 DEF AllreduceNLG, Offers, K, M
<1>6. CASE p = "p64"
  BY <1>6, Tier1 DEF AllreduceNLG, Offers, K, M
<1>7. CASE p = "pLG"
  BY <1>7, Tier1 DEF AllreduceNLG, Offers, K, M
<1> QED
  BY <1>1, <1>2, <1>3, <1>4, <1>5, <1>6, <1>7 DEF Levels

\* The barrier ends in recursive doubling.
LEMMA BarrierOffers ==
  ASSUME NEW s \in Nat, NEW n \in {"n4", "n8", "n16", "nLG"}, NEW p \in Levels
  PROVE  Offers(BarrierTable(n, p), s, {1})
<1>1. \A id : Offers(BarrierTiers(id), s, {1})
  BY Tier1 DEF BarrierTiers, Offers
<1> QED
  BY <1>1 DEF BarrierTable

-----------------------------------------------------------------------------
(* The levels of a group *)

\* Powers of two, as far as halving goes.
LEMMA Powers ==
  ASSUME NEW i \in 2..30
  PROVE  2^i \in Nat /\ 2^i >= 4 /\ (i >= 5 => 2^i >= 32)
<1> DEFINE pow(x) == 2^x
<1>1. /\ pow(2) = 4 /\ pow(3) = 8 /\ pow(4) = 16 /\ pow(5) = 32 /\ pow(6) = 64 /\ pow(7) = 128
      /\ pow(8) = 256 /\ pow(9) = 512 /\ pow(10) = 1024 /\ pow(11) = 2048 /\ pow(12) = 4096
      /\ pow(13) = 8192 /\ pow(14) = 16384 /\ pow(15) = 32768 /\ pow(16) = 65536
      /\ pow(17) = 131072 /\ pow(18) = 262144 /\ pow(19) = 524288 /\ pow(20) = 1048576
      /\ pow(21) = 2097152 /\ pow(22) = 4194304 /\ pow(23) = 8388608 /\ pow(24) = 16777216
      /\ pow(25) = 33554432 /\ pow(26) = 67108864 /\ pow(27) = 134217728
      /\ pow(28) = 268435456 /\ pow(29) = 536870912 /\ pow(30) = 1073741824
  OBVIOUS
<1>2. pow(i) \in Nat /\ pow(i) >= 4 /\ (i >= 5 => pow(i) >= 32)
  <2> HIDE DEF pow
  <2>1. \/ i \in 2..6 \/ i \in 7..11 \/ i \in 12..16 \/ i \in 17..21 \/ i \in 22..26 \/ i \in 27..30
    OBVIOUS
  <2>2. CASE i \in 2..6
    <3>1. i = 2 \/ i = 3 \/ i = 4 \/ i = 5 \/ i = 6
      BY <2>2
    <3> QED
      BY <1>1, <3>1
  <2>3. CASE i \in 7..11
    <3>1. i = 7 \/ i = 8 \/ i = 9 \/ i = 10 \/ i = 11
      BY <2>3
    <3> QED
      BY <1>1, <3>1
  <2>4. CASE i \in 12..16
    <3>1. i = 12 \/ i = 13 \/ i = 14 \/ i = 15 \/ i = 16
      BY <2>4
    <3> QED
      BY <1>1, <3>1
  <2>5. CASE i \in 17..21
    <3>1. i = 17 \/ i = 18 \/ i = 19 \/ i = 20 \/ i = 21
      BY <2>5
    <3> QED
      BY <1>1, <3>1
  <2>6. CASE i \in 22..26
    <3>1. i = 22 \/ i = 23 \/ i = 24 \/ i = 25 \/ i = 26
      BY <2>6
    <3> QED
      BY <1>1, <3>1
  <2>7. CASE i \in 27..30
    <3>1. i = 27 \/ i = 28 \/ i = 29 \/ i = 30
      BY <2>7
    <3> QED
      BY <1>1, <3>1
  <2> QED
    BY <2>1, <2>2, <2>3, <2>4, <2>5, <2>6, <2>7
<1> QED
  BY <1>2

\* Dividing by at least k leaves less than 4 of a number below 4k.
LEMMA Quotient ==
  ASSUME NEW n \in Nat, NEW d \in Nat, NEW k \in {4, 32}, d >= k, n < 4 * k
  PROVE  ~(n \div d >= 4)
<1> DEFINE q == n \div d
<1>1. q \in Nat /\ d * q <= n
  OBVIOUS
<1> HIDE DEF q
<1>2. q >= 4 => d * q >= 4 * d
  BY <1>1
<1> QED
  BY <1>1, <1>2 DEF q

\* Sets of numbers up to k that contain 0.
LEMMA CountUpTo ==
  ASSUME NEW k \in Nat, NEW S \in SUBSET (0..k), 0 \in S
  PROVE  Cardinality(S) \in 1..(k + 1)
<1>1. 0 \in Int /\ k \in Int
  OBVIOUS
<1>2. IsFiniteSet(0..k) /\ Cardinality(0..k) = k + 1
  BY <1>1, FS_Interval
<1>3. IsFiniteSet(S) /\ Cardinality(S) <= k + 1
  BY <1>2, FS_Subset
<1>4. Cardinality(S) \in Nat /\ Cardinality(S) # 0
  BY <1>3, FS_CardinalityType, FS_EmptySet
<1> QED
  BY <1>3, <1>4

\* A number from 4 on is halved at least once, and below 4k at most k times.
LEMMA Halvings ==
  ASSUME NEW n \in Nat, n >= 4
  PROVE  /\ n < 16 => log2_n(n, 4) \in 1..2
         /\ n < 128 => log2_n(n, 4) \in 1..5
<1> DEFINE S == {i \in 0..30 : n \div 2^i >= 4}
<1>1. 0 \in S
  <2>1. n \div 2^0 = n
    OBVIOUS
  <2> QED
    BY <2>1
<1>2. n < 16 => S \subseteq 0..1
  <2> SUFFICES ASSUME n < 16, NEW i \in S, i \notin 0..1 PROVE FALSE
    OBVIOUS
  <2>1. i \in 2..30 /\ n \div 2^i >= 4
    OBVIOUS
  <2>2. 2^i \in Nat /\ 2^i >= 4
    BY <2>1, Powers
  <2> QED
    BY <2>1, <2>2, Quotient
<1>3. n < 128 => S \subseteq 0..4
  <2> SUFFICES ASSUME n < 128, NEW i \in S, i \notin 0..4 PROVE FALSE
    OBVIOUS
  <2>1. i \in 2..30 /\ i >= 5 /\ n \div 2^i >= 4
    OBVIOUS
  <2>2. 2^i \in Nat /\ 2^i >= 32
    BY <2>1, Powers
  <2> QED
    BY <2>1, <2>2, Quotient
<1>4. log2_n(n, 4) = Cardinality(S)
  BY DEF log2_n
<1> HIDE DEF S
<1>5. \A k \in Nat : S \subseteq 0..k => Cardinality(S) \in 1..(k + 1)
  BY <1>1, CountUpTo
<1>6. n < 16 => Cardinality(S) \in 1..(1 + 1)
  BY <1>2, <1>5
<1>7. n < 128 => Cardinality(S) \in 1..(4 + 1)
  BY <1>3, <1>5
<1> QED
  BY <1>4, <1>6, <1>7

\* Groups of any number of nodes have a level, as have any number of processes.
LEMMA NodeLevelType ==
  ASSUME NEW n \in Nat
  PROVE  NodeLevel(n) \in {"n4", "n8", "n16", "nLG"}
<1>1. CASE n <= 4 \/ n > 16
  BY <1>1 DEF NodeLevel
<1>2. CASE n > 4 /\ n <= 16
  <2>1. log2_n(n - 1, 4) \in 1..2
    BY <1>2, Halvings
  <2> QED
    BY <1>2, <2>1 DEF NodeLevel, NodeLevels
<1> QED
  BY <1>1, <1>2

LEMMA PpnLevelType ==
  ASSUME NEW n \in Int
  PROVE  PpnLevel(n) \in Levels
<1>1. CASE n <= 4 \/ n > 64
  BY <1>1 DEF PpnLevel, Levels
<1>2. CASE n > 4 /\ n <= 64
  <2>1. log2_n(n, 4) \in 1..5
    BY <1>2, Halvings
  <2> QED
    BY <1>2, <2>1 DEF PpnLevel, PpnLevels, Levels
<1> QED
  BY <1>1, <1>2

\* A common count of processes is not taken for an unknown one.
LEMMA CommonCountKnown ==
  ASSUME NEW counts \in SUBSET Nat
  PROVE  CommonCount(counts) # UNKNOWN
<1> DEFINE used == {c \in counts : c # 0}
<1>1. CASE Cardinality(used) = 1
  <2>1. used # {}
    BY <1>1, FS_EmptySet
  <2> DEFINE x == CHOOSE c \in used : TRUE
  <2>2. x \in Nat
    BY <2>1
  <2>3. CommonCount(counts) = x
    BY <1>1 DEF CommonCount
  <2> HIDE DEF x
  <2> QED
    BY <2>2, <2>3 DEF UNKNOWN
<1>2. CASE Cardinality(used) # 1
  BY <1>2 DEF CommonCount, UNKNOWN, UNBALANCED
<1> QED
  BY <1>1, <1>2

Topologies == {Topology(g) : g \in Groups}

\* The topology of a group: if nodes were counted, so were their processes.
LEMMA TopologyShape ==
  ASSUME group \in Topologies
  PROVE  /\ group.nnode \in Nat
         /\ AveragePpn(group) \in Int
         /\ group.nnode = 0 => AveragePpn(group) = UNKNOWN
         /\ group.nnode # 0 => group.ppn # UNKNOWN
<1>1. PICK g \in Groups : group = Topology(g)
  BY DEF Topologies
<1>2. /\ Len(g.sockets) \in Nat \ {0}
      /\ NodeCounts(g.sockets) \in [DOMAIN g.sockets -> Nat]
      /\ OnNode(NodeCounts(g.sockets)) \in Nat
  BY <1>1, GroupsAssumption
<1>3. /\ group.size \in Nat
      /\ group.nnode = IF g.known = "nothing" THEN 0 ELSE Len(g.sockets)
      /\ group.ppn = Ppn(g)
  BY <1>1, <1>2 DEF Topology
<1>4. group.nnode \in Nat /\ (group.nnode # 0 => g.known # "nothing")
  BY <1>2, <1>3
<1>5. Range(NodeCounts(g.sockets)) \in SUBSET Nat
  BY <1>2 DEF Range
<1>6. g.known # "nothing" => group.ppn # UNKNOWN
  BY <1>3, <1>5, CommonCountKnown DEF Ppn
<1> QED
  BY <1>3, <1>4, <1>6 DEF AveragePpn, UNKNOWN

-----------------------------------------------------------------------------
(* The members agree *)

\* An alltoallv has the same plans for all sizes.
LEMMA AlltoallvPlans ==
  ASSUME NEW s \in Nat, NEW t \in Nat
  PROVE  /\ PlansFor("alltoallv", s) = PlansFor("alltoallv", t)
         /\ \A p \in PlansFor("alltoallv", s) : p.comp = "stars"
<1>1. Known("alltoallv", RowsAt(UcxTable("alltoallv"), s, "ucx", UcxScore)) = {}
  BY DEF Known, Registered
<1>2. Known("alltoallv", RowsAt(UcxTable("alltoallv"), t, "ucx", UcxScore)) = {}
  BY DEF Known, Registered
<1>3. UserPlans("alltoallv") = {}
  BY DEF UserPlans, Known, Registered
<1>4. \A u \in DOMAIN StarsAlltoallvTable : StarsAlltoallvTable[u] = <<0, 1>>
  BY DEF StarsAlltoallvTable
<1>5. InTier(<<0, 1>>, s) = InTier(<<0, 1>>, t)
  BY Tier1
<1>6. RowsAt(StarsAlltoallvTable, s, "stars", StarsScore) = RowsAt(StarsAlltoallvTable, t, "stars", StarsScore)
  BY <1>4, <1>5 DEF RowsAt
<1>7. \A p \in RowsAt(StarsAlltoallvTable, s, "stars", StarsScore) : p.comp = "stars"
  BY DEF RowsAt
<1>8. StarsTable("alltoallv") = StarsAlltoallvTable
  BY DEF StarsTable
<1> QED
  BY <1>1, <1>2, <1>3, <1>6, <1>7, <1>8 DEF PlansFor, UcxPlans, StarsPlans

\* Whether a plan accepts depends on what the members have in common.
LEMMA AcceptsTheSame ==
  ASSUME NEW coll, NEW p, NEW a, NEW b, Matching(a, b)
  PROVE  Accepts(coll, p, a) = Accepts(coll, p, b)
<1>1. a.count = b.count /\ a.commutative = b.commutative
  BY DEF Matching
<1>2. Enough(a) = Enough(b) /\ Reorders(a) = Reorders(b)
  BY <1>1 DEF Enough, Reorders
<1>3. \A id : BcastAccepts(id, a) = BcastAccepts(id, b)
  BY <1>2 DEF BcastAccepts
<1>4. NaRabenseifnerAccepts(a) = NaRabenseifnerAccepts(b) /\ SaRabenseifnerAccepts(a) = SaRabenseifnerAccepts(b)
  BY <1>1, <1>2 DEF NaRabenseifnerAccepts, SaRabenseifnerAccepts
<1>5. \A id : AllreduceAccepts(id, a) = AllreduceAccepts(id, b)
  BY <1>2, <1>4 DEF AllreduceAccepts
<1>6. \A id : UcxAccepts(coll, id, a) = UcxAccepts(coll, id, b)
  BY <1>1, <1>3, <1>5 DEF UcxAccepts
<1> QED
  BY <1>6 DEF Accepts

\* So members with matching arguments find the same plan.
LEMMA SelectTheSame ==
  ASSUME NEW coll \in Collectives, NEW a, NEW b, Sized(a), Sized(b), Matching(a, b)
  PROVE  Select(coll, a) = Select(coll, b)
<1>1. MsgSize(coll, a) \in Nat /\ MsgSize(coll, b) \in Nat
  BY DEF MsgSize, Sized
<1>2. PlansFor(coll, MsgSize(coll, a)) = PlansFor(coll, MsgSize(coll, b))
  <2>1. CASE coll = "alltoallv"
    BY <1>1, <2>1, AlltoallvPlans
  <2>2. CASE coll # "alltoallv"
    <3>1. MsgSize(coll, a) = MsgSize(coll, b)
      BY <2>2 DEF MsgSize, Matching
    <3> QED
      BY <3>1
  <2> QED
    BY <2>1, <2>2
<1>3. \A p : Accepts(coll, p, a) = Accepts(coll, p, b)
  BY AcceptsTheSame
<1>4. \A P : {p \in P : Accepts(coll, p, a)} = {p \in P : Accepts(coll, p, b)}
  BY <1>3
<1> QED
  BY <1>2, <1>3, <1>4 DEF Select

-----------------------------------------------------------------------------
(* There is a plan *)

\* Scores are bounded, so that one plan is the best.
LEMMA BestIsOne ==
  ASSUME NEW P, P # {}, \A p \in P : p.score \in Int /\ p.score <= UserScore
  PROVE  Best(P) \in P
<1> DEFINE T == {UserScore - p.score : p \in P}
<1>1. T \in SUBSET Nat /\ T # {}
  BY DEF UserScore
<1>2. PICK x \in T : \A y \in T : x <= y
  <2> HIDE DEF T
  <2> QED
    BY <1>1, Least
<1>3. PICK p \in P : x = UserScore - p.score
  BY <1>2
<1>4. \A q \in P : q.score <= p.score
  <2> SUFFICES ASSUME NEW q \in P PROVE q.score <= p.score
    OBVIOUS
  <2>1. UserScore - p.score <= UserScore - q.score
    BY <1>2, <1>3
  <2> QED
    BY <2>1 DEF UserScore
<1> QED
  BY <1>4 DEF Best

\* All scores are numbers up to that of the user's choice.
LEMMA RowScores ==
  ASSUME NEW table, NEW s, NEW comp, NEW first \in {UcxScore, StarsScore},
         DOMAIN table \subseteq Nat \ {0}
  PROVE  \A p \in RowsAt(table, s, comp, first) : p.score \in Int /\ p.score <= UserScore
BY DEF RowsAt, UcxScore, StarsScore, UserScore

LEMMA PlanScores ==
  ASSUME NEW coll \in Collectives, NEW s, DOMAIN UcxTable(coll) \subseteq Nat \ {0}
  PROVE  \A p \in PlansFor(coll, s) : p.score \in Int /\ p.score <= UserScore
<1>1. \A p \in UcxPlans(coll, s) : p.score \in Int /\ p.score <= UserScore
  BY RowScores DEF UcxPlans, Known
<1>2. \A p \in UserPlans(coll) : p.score \in Int /\ p.score <= UserScore
  BY DEF UserPlans, Known, UserScore
<1>3. DOMAIN StarsTable(coll) \subseteq Nat \ {0}
  BY DEF StarsTable, Collectives, StarsBcastTable, StarsScattervTable, StarsAllgathervTable,
         StarsBarrierTable, StarsAlltoallvTable
<1>4. \A p \in StarsPlans(coll, s) : p.score \in Int /\ p.score <= UserScore
  BY <1>3, RowScores DEF StarsPlans
<1> QED
  BY <1>1, <1>2, <1>4 DEF PlansFor

\* An algorithm that the table offers and that is registered is a plan.
LEMMA RowIsPlan ==
  ASSUME NEW coll, NEW s, NEW ids, Offers(UcxTable(coll), s, ids),
         ids \subseteq Registered(coll), 0 \notin ids
  PROVE  \E p \in PlansFor(coll, s) : p.comp = "ucx" /\ p.id \in ids
<1>1. PICK u \in DOMAIN UcxTable(coll) : InTier(UcxTable(coll)[u], s) \in ids
  BY DEF Offers
<1> DEFINE p == [comp |-> "ucx", id |-> InTier(UcxTable(coll)[u], s), score |-> UcxScore + 1 - u]
<1>2. p \in RowsAt(UcxTable(coll), s, "ucx", UcxScore)
  BY <1>1 DEF RowsAt
<1>3. p \in PlansFor(coll, s)
  BY <1>1, <1>2 DEF PlansFor, UcxPlans, Known
<1> QED
  BY <1>1, <1>3

\* A plan that accepts is enough.
LEMMA AcceptedIsFound ==
  ASSUME NEW coll \in Collectives, coll # "alltoallv", NEW a,
         DOMAIN UcxTable(coll) \subseteq Nat \ {0},
         NEW p \in PlansFor(coll, MsgSize(coll, a)), Accepts(coll, p, a)
  PROVE  Select(coll, a) \in PlansFor(coll, MsgSize(coll, a))
<1> DEFINE able == {q \in PlansFor(coll, MsgSize(coll, a)) : Accepts(coll, q, a)}
<1>1. able # {} /\ able \subseteq PlansFor(coll, MsgSize(coll, a))
  OBVIOUS
<1>2. Select(coll, a) = Best(able)
  BY <1>1 DEF Select
<1>3. \A q \in able : q.score \in Int /\ q.score <= UserScore
  BY PlanScores
<1> HIDE DEF able
<1>4. Best(able) \in able
  BY <1>1, <1>3, BestIsOne
<1> QED
  BY <1>1, <1>2, <1>4

\* No plan is NotFound.
LEMMA PlansAreFound ==
  ASSUME NEW coll, NEW s, NEW p \in PlansFor(coll, s)
  PROVE  p # NotFound /\ p # NoPlan
<1>1. p.comp \in {"ucx", "stars"}
  BY DEF PlansFor, UcxPlans, UserPlans, StarsPlans, Known, RowsAt
<1>2. NotFound.comp = "not found" /\ NoPlan.comp = "none"
  BY DEF NotFound, NoPlan
<1> QED
  BY <1>1, <1>2

\* The plan every collective can fall back on.
LEMMA UcxServes ==
  ASSUME group \in Topologies, config.default, NEW coll \in Collectives \ {"alltoallv"},
         NEW a, Sized(a), ~Unserved(coll, a)
  PROVE  /\ DOMAIN UcxTable(coll) \subseteq Nat \ {0}
         /\ \E p \in PlansFor(coll, MsgSize(coll, a)) : Accepts(coll, p, a)
<1> DEFINE s == MsgSize(coll, a)
           n == NodeLevel(group.nnode)
           l == PpnLevel(AveragePpn(group))
<1>1. s \in Nat
  BY DEF MsgSize, Sized, Collectives
<1>2. n \in {"n4", "n8", "n16", "nLG"} /\ l \in Levels
  BY TopologyShape, NodeLevelType, PpnLevelType
<1>3. ASSUME NEW ids, Offers(UcxTable(coll), s, ids), ids \subseteq Registered(coll), 0 \notin ids,
             \A id \in ids : UcxAccepts(coll, id, a)
      PROVE  /\ DOMAIN UcxTable(coll) \subseteq Nat \ {0}
             /\ \E p \in PlansFor(coll, s) : Accepts(coll, p, a)
  <2>1. PICK p \in PlansFor(coll, s) : p.comp = "ucx" /\ p.id \in ids
    BY <1>3, RowIsPlan
  <2>2. Accepts(coll, p, a)
    BY <1>3, <2>1 DEF Accepts
  <2> QED
    BY <1>3, <2>2 DEF Offers
<1> HIDE DEF s, n, l
<1>4. CASE coll = "bcast"
  <2>1. CASE group.nnode # 0
    <3>1. UcxTable(coll) = BcastTable(n, l, TRUE)
      BY <1>4 DEF UcxTable, n, l
    <3>2. Offers(BcastTable(n, l, TRUE), s, BcastSure)
      BY <1>1, <1>2, BcastN4Offers, BcastN8Offers, BcastN16Offers, BcastNLGOffers DEF BcastTable
    <3>3. BcastSure \subseteq Registered(coll) /\ 0 \notin BcastSure
      BY <1>4 DEF Registered, BcastIds, BcastSure
    <3>4. \A id \in BcastSure : UcxAccepts(coll, id, a)
      <4>1. PpnKnown
        BY <2>1, TopologyShape DEF PpnKnown
      <4>2. \A id : UcxAccepts(coll, id, a) = BcastAccepts(id, a)
        BY <1>4 DEF UcxAccepts
      <4>3. BcastAccepts(2, a) /\ BcastAccepts(3, a) /\ BcastAccepts(4, a)
        BY <4>1 DEF BcastAccepts
      <4>4. /\ BcastAccepts(1, a) /\ BcastAccepts(6, a) /\ BcastAccepts(10, a)
            /\ BcastAccepts(12, a) /\ BcastAccepts(13, a)
        BY DEF BcastAccepts
      <4> QED
        BY <4>2, <4>3, <4>4 DEF BcastSure
    <3> QED
      BY <1>3, <3>1, <3>2, <3>3, <3>4 DEF s
  <2>2. CASE group.nnode = 0
    <3>1. n = "n4" /\ l = "p4"
      BY <2>2, TopologyShape DEF n, l, NodeLevel, PpnLevel, UNKNOWN
    <3>2. UcxTable(coll) = BcastN4(TRUE).p4
      BY <1>4, <3>1 DEF UcxTable, BcastTable, n, l
    <3>3. s >= 64
      BY <1>1, <1>4, <2>2 DEF Unserved, MsgSize, s, Sized
    <3>4. Offers(UcxTable(coll), s, {1, 10})
      BY <1>1, <3>2, <3>3, BcastUnknownOffers
    <3>5. {1, 10} \subseteq Registered(coll) /\ \A id \in {1, 10} : UcxAccepts(coll, id, a)
      BY <1>4 DEF Registered, BcastIds, UcxAccepts, BcastAccepts
    <3> QED
      BY <1>3, <3>4, <3>5 DEF s
  <2> QED
    BY <2>1, <2>2
<1>5. CASE coll = "allreduce"
  <2>1. UcxTable(coll) = AllreduceTable(n, l, TRUE)
    BY <1>5 DEF UcxTable, n, l
  <2>2. Offers(AllreduceTable(n, l, TRUE), s, {1})
    BY <1>1, <1>2, AllreduceN4Offers, AllreduceN8Offers, AllreduceN16Offers, AllreduceNLGOffers
       DEF AllreduceTable
  <2>3. {1} \subseteq Registered(coll) /\ 0 \notin {1} /\ \A id \in {1} : UcxAccepts(coll, id, a)
    BY <1>5 DEF Registered, AllreduceIds, UcxAccepts, AllreduceAccepts
  <2> QED
    BY <1>3, <2>1, <2>2, <2>3 DEF s
<1>6. CASE coll = "allgatherv"
  <2>1. UcxTable(coll) = AllgathervTable(n, l, TRUE)
    BY <1>6 DEF UcxTable, n, l
  <2>2. Offers(AllgathervTable(n, l, TRUE), s, AllgathervSure)
    BY <1>1, <1>2, AllgathervN4Offers, AllgathervN8Offers, AllgathervN16Offers, AllgathervNLGOffers
       DEF AllgathervTable
  <2>3. AllgathervSure \subseteq Registered(coll) /\ 0 \notin AllgathervSure
    BY <1>6 DEF Registered, AllgathervIds, AllgathervSure
  <2>4. \A id \in AllgathervSure : UcxAccepts(coll, id, a)
    <3>1. \A id : UcxAccepts(coll, id, a) = AllgathervAccepts(id)
      BY <1>6 DEF UcxAccepts
    <3>2. AllgathervAccepts(2) /\ AllgathervAccepts(3) /\ AllgathervAccepts(4) /\ AllgathervAccepts(5)
      BY DEF AllgathervAccepts
    <3> QED
      BY <3>1, <3>2 DEF AllgathervSure
  <2> QED
    BY <1>3, <2>1, <2>2, <2>3, <2>4 DEF s
<1>7. CASE coll = "barrier"
  <2>1. UcxTable(coll) = BarrierTable(n, l)
    BY <1>7 DEF UcxTable, n, l
  <2>2. Offers(BarrierTable(n, l), s, {1})
    BY <1>1, <1>2, BarrierOffers
  <2>3. {1} \subseteq Registered(coll) /\ 0 \notin {1} /\ \A id \in {1} : UcxAccepts(coll, id, a)
    BY <1>7 DEF Registered, BarrierIds, UcxAccepts, BarrierAccepts
  <2> QED
    BY <1>3, <2>1, <2>2, <2>3 DEF s
<1>8. CASE coll \in {"scatterv", "gatherv", "reduce"}
  <2>1. UcxTable(coll) = <<<<0, 1>>>>
    BY <1>8 DEF UcxTable, ScattervTable, GathervTable, ReduceTable
  <2>2. Offers(UcxTable(coll), s, {1})
    BY <1>1, <2>1, Tier1 DEF Offers
  <2>3. {1} \subseteq Registered(coll)
    BY <1>8 DEF Registered, ScattervIds
  <2>4. UcxAccepts(coll, 1, a)
    <3>1. CASE coll = "scatterv"
      BY <3>1 DEF UcxAccepts
    <3>2. CASE coll = "gatherv"
      BY <3>2 DEF UcxAccepts, Unserved, GathervAccepts
    <3>3. CASE coll = "reduce"
      BY <3>3 DEF UcxAccepts, Unserved
    <3> QED
      BY <1>8, <3>1, <3>2, <3>3
  <2> QED
    BY <1>3, <2>2, <2>3, <2>4 DEF s
<1> QED
  BY <1>4, <1>5, <1>6, <1>7, <1>8 DEF Collectives

\* The stars component takes every alltoallv.
LEMMA StarsServes ==
  ASSUME config.stars, NEW a, Sized(a)
  PROVE  /\ Select("alltoallv", a) \in PlansFor("alltoallv", 0)
         /\ PlansFor("alltoallv", 0) # {}
<1> DEFINE plans == PlansFor("alltoallv", 0)
           p == [comp |-> "stars", id |-> InTier(StarsAlltoallvTable[1], 0), score |-> StarsScore]
<1>1. PlansFor("alltoallv", MsgSize("alltoallv", a)) = plans
  <2>1. MsgSize("alltoallv", a) \in Nat
    BY DEF MsgSize, Sized
  <2> QED
    BY <2>1, AlltoallvPlans
<1>2. \A q \in plans : Accepts("alltoallv", q, a)
  <2>1. \A q \in plans : q.comp = "stars"
    BY AlltoallvPlans
  <2> QED
    BY <2>1 DEF Accepts, StarsAccepts
<1>3. plans # {}
  <2>1. StarsAlltoallvTable = <<<<0, 1>>>> /\ 1 \in DOMAIN StarsAlltoallvTable
    BY DEF StarsAlltoallvTable
  <2>2. InTier(StarsAlltoallvTable[1], 0) = 1
    BY <2>1, Tier1
  <2>3. p \in RowsAt(StarsAlltoallvTable, 0, "stars", StarsScore)
    BY <2>1, <2>2 DEF RowsAt, StarsScore
  <2>4. p \in StarsPlans("alltoallv", 0)
    BY <2>3 DEF StarsPlans, StarsTable
  <2> QED
    BY <2>4 DEF PlansFor
<1>4. {q \in plans : Accepts("alltoallv", q, a)} = plans
  BY <1>2
<1>5. Select("alltoallv", a) = Best(plans)
  BY <1>1, <1>3, <1>4 DEF Select
<1>6. \A q \in plans : q.score \in Int /\ q.score <= UserScore
  <2>1. DOMAIN UcxTable("alltoallv") \subseteq Nat \ {0}
    BY DEF UcxTable
  <2> QED
    BY <2>1, PlanScores DEF Collectives
<1> HIDE DEF plans
<1>7. Best(plans) \in plans
  BY <1>3, <1>6, BestIsOne
<1> QED
  BY <1>3, <1>5, <1>7 DEF plans

\* With the default tables a member finds a plan.
LEMMA Served ==
  ASSUME group \in Topologies, config.default, NEW coll \in Collectives,
         NEW a, Sized(a), ~Unserved(coll, a)
  PROVE  Select(coll, a) # NotFound
<1>1. CASE coll = "alltoallv"
  <2>1. config.stars
    BY <1>1 DEF Unserved
  <2>2. Select(coll, a) \in PlansFor(coll, 0)
    BY <1>1, <2>1, StarsServes
  <2> QED
    BY <2>2, PlansAreFound
<1>2. CASE coll # "alltoallv"
  <2>1. /\ DOMAIN UcxTable(coll) \subseteq Nat \ {0}
        /\ \E p \in PlansFor(coll, MsgSize(coll, a)) : Accepts(coll, p, a)
    BY <1>2, UcxServes
  <2>2. Select(coll, a) \in PlansFor(coll, MsgSize(coll, a))
    BY <1>2, <2>1, AcceptedIsFound
  <2> QED
    BY <2>2, PlansAreFound
<1> QED
  BY <1>1, <1>2

-----------------------------------------------------------------------------
(* The choices of the members *)

\* A call under way is one the group makes, and what a member has chosen is
\* what its own arguments select.
IInv ==
  /\ group \in Topologies
  /\ call = NoCall \/ \E c \in Calls(group) : call.coll = c.coll /\ call.args = c.args
  /\ DOMAIN choice = Members
  /\ call = NoCall => \A m \in Members : choice[m] = NoPlan
  /\ \A m \in Members : choice[m] # NoPlan => choice[m] = Select(call.coll, call.args[m])

\* Before the first call nobody has chosen.
LEMMA InitIInv == Init => IInv
BY DEF Init, IInv, Topologies

\* What a member selects depends on the group and the configuration alone.
LEMMA SelectIsStable ==
  ASSUME group' = group, config' = config, NEW coll, NEW a
  PROVE  Select(coll, a)' = Select(coll, a)
<1>1. \A s : PlansFor(coll, s)' = PlansFor(coll, s)
  <2>1. UcxTable(coll)' = UcxTable(coll)
    BY DEF UcxTable
  <2>2. UserPlans(coll)' = UserPlans(coll)
    BY DEF UserPlans
  <2> QED
    BY <2>1, <2>2 DEF PlansFor, UcxPlans, StarsPlans
<1>2. Enough(a)' = Enough(a) /\ Reorders(a)' = Reorders(a) /\ PpnKnown' = PpnKnown
      /\ PpsKnown' = PpsKnown /\ Balanced' = Balanced
  BY DEF Enough, Reorders, PpnKnown, PpsKnown, Balanced
<1>3. \A id : BcastAccepts(id, a)' = BcastAccepts(id, a)
  BY <1>2 DEF BcastAccepts
<1>4. \A id : AllreduceAccepts(id, a)' = AllreduceAccepts(id, a)
  BY <1>2 DEF AllreduceAccepts, NaRabenseifnerAccepts, SaRabenseifnerAccepts
<1>5. \A id : AllgathervAccepts(id)' = AllgathervAccepts(id) /\ BarrierAccepts(id)' = BarrierAccepts(id)
  BY <1>2 DEF AllgathervAccepts, NaRollingAccepts, BarrierAccepts
<1>6. ScattervNaKntreeAccepts' = ScattervNaKntreeAccepts /\ GathervAccepts' = GathervAccepts
      /\ StarsAccepts(coll)' = StarsAccepts(coll)
  BY <1>2 DEF ScattervNaKntreeAccepts, GathervAccepts, StarsAccepts
<1>7. \A id : UcxAccepts(coll, id, a)' = UcxAccepts(coll, id, a)
  BY <1>3, <1>4, <1>5, <1>6 DEF UcxAccepts
<1>8. \A p : Accepts(coll, p, a)' = Accepts(coll, p, a)
  BY <1>6, <1>7 DEF Accepts
<1> QED
  BY <1>1, <1>8 DEF Select

\* A choice changes once in a call, and the call stays until all have chosen.
LEMMA NextIInv ==
  ASSUME IInv, [Next]_vars
  PROVE  IInv'
<1>1. CASE UNCHANGED vars
  <2>1. UNCHANGED <<group, config, call, choice>>
    BY <1>1 DEF vars
  <2>2. \A coll, a : Select(coll, a)' = Select(coll, a)
    BY <2>1, SelectIsStable
  <2> QED
    BY <2>1, <2>2 DEF IInv, Topologies
<1>2. ASSUME NEW c \in Calls(group), Begin(c.coll, c.args)
      PROVE  IInv'
  <2>1. call' = [coll |-> c.coll, args |-> c.args] /\ UNCHANGED <<group, choice>>
    BY <1>2 DEF Begin
  <2>2. \A m \in Members : choice'[m] = NoPlan
    BY <1>2, <2>1 DEF Begin, IInv
  <2>3. \E d \in Calls(group') : call'.coll = d.coll /\ call'.args = d.args
    BY <2>1
  <2> QED
    BY <2>1, <2>2, <2>3 DEF IInv, Topologies
<1>3. ASSUME NEW m \in Members, Choose(m)
      PROVE  IInv'
  <2>1. /\ UNCHANGED <<group, config, call>> /\ call # NoCall
        /\ choice' = [choice EXCEPT ![m] = Select(call.coll, call.args[m])]
    BY <1>3 DEF Choose
  <2>2. \A n \in Members : choice'[n] = IF n = m THEN Select(call.coll, call.args[m]) ELSE choice[n]
    BY <2>1 DEF IInv
  <2>3. \A coll, a : Select(coll, a)' = Select(coll, a)
    BY <2>1, SelectIsStable
  <2>4. \A n \in Members : choice'[n] # NoPlan => choice'[n] = Select(call.coll, call.args[n])'
    BY <2>1, <2>2, <2>3 DEF IInv
  <2>5. DOMAIN choice' = Members
    BY <2>1 DEF IInv
  <2> QED
    BY <2>1, <2>4, <2>5 DEF IInv, Topologies
<1>4. CASE End
  BY <1>4 DEF End, IInv, Topologies
<1> QED
  BY <1>1, <1>2, <1>3, <1>4 DEF Next

\* The arguments of a call that some member has chosen for.
LEMMA ArgumentsMatch ==
  ASSUME IInv, NEW m \in Members, NEW n \in Members, choice[m] # NoPlan
  PROVE  /\ call.coll \in Collectives
         /\ Sized(call.args[m]) /\ Sized(call.args[n])
         /\ Matching(call.args[m], call.args[n])
<1>1. PICK c \in Calls(group) : call.coll = c.coll /\ call.args = c.args
  BY DEF IInv
<1>2. PICK g \in Groups : group = Topology(g)
  BY DEF IInv, Topologies
<1> QED
  BY <1>1, <1>2, CallsAssumption

\* Members select the same plan because their arguments match.
LEMMA IInvAgree == IInv => MembersAgree
<1> SUFFICES ASSUME IInv, NEW m \in Members, NEW n \in Members, choice[m] # NoPlan, choice[n] # NoPlan
             PROVE  choice[m] = choice[n]
  BY DEF MembersAgree
<1>1. choice[m] = Select(call.coll, call.args[m]) /\ choice[n] = Select(call.coll, call.args[n])
  BY DEF IInv
<1>2. Select(call.coll, call.args[m]) = Select(call.coll, call.args[n])
  BY ArgumentsMatch, SelectTheSame
<1> QED
  BY <1>1, <1>2

\* A member that found no plan had a call that none serves.
LEMMA IInvServes == IInv => DefaultPolicyServes
<1> SUFFICES ASSUME IInv, NEW m \in Members, choice[m] = NotFound, config.default
             PROVE  Unserved(call.coll, call.args[m])
  BY DEF DefaultPolicyServes
<1>1. choice[m] # NoPlan
  <2>1. NotFound.comp = "not found" /\ NoPlan.comp = "none"
    BY DEF NotFound, NoPlan
  <2> QED
    BY <2>1
<1>2. Select(call.coll, call.args[m]) = NotFound
  BY <1>1 DEF IInv
<1>3. call.coll \in Collectives /\ Sized(call.args[m])
  BY <1>1, ArgumentsMatch
<1> QED
  BY <1>2, <1>3, Served DEF IInv

\* The choices of the members, for any members, groups, configurations and calls.
THEOREM Invariance == Spec => []IInv
<1>1. Init => IInv
  BY InitIInv
<1>2. IInv /\ [Next]_vars => IInv'
  BY NextIInv
<1> QED
  BY <1>1, <1>2, PTL DEF Spec

\* Members whose arguments match run the same algorithm, though each looks its
\* own arguments up and falls back on its own (ucg_plans_prepare).
THEOREM AgreementCorrect == Spec => []MembersAgree
<1>1. IInv => MembersAgree
  BY IInvAgree
<1> QED
  BY <1>1, Invariance, PTL

\* Under the default policies every call of every group finds an algorithm but
\* those that are left to the caller (Unserved).
THEOREM DefaultPolicyCorrect == Spec => []DefaultPolicyServes
<1>1. IInv => DefaultPolicyServes
  BY IInvServes
<1> QED
  BY <1>1, Invariance, PTL
=============================================================================
