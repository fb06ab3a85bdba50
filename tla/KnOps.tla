-------------------------------- MODULE KnOps --------------------------------
(***************************************************************************)
(* The shape of the k-nomial tree, as ucg_algo_kntree_iter_init computes   *)
(* it. Ranks are relative to the root, which has rank 0.                   *)
(* Source: util/algo/ucg_kntree.c.                                         *)
(***************************************************************************)
EXTENDS Integers, FiniteSetsExt

\* UCG_INVALID_RANK
INVALID_RANK == -1

\* The first branch wins: a degree of at most 1 becomes 2 whatever the size.
AdjustDegree(d, n) == IF d <= 1 THEN 2 ELSE IF d > n THEN n ELSE d

\* A sub-tree of level k holds d to the power of k ranks.
Power(d, k) == LET f[j \in Nat] == IF j = 0 THEN 1 ELSE d * f[j - 1] IN f[k]

\* Mutant: the search for the parent stops one level early.
MaxSubsize_Half(v, d, n) ==
  IF n = 1 THEN 1
  ELSE LET stop(j) == 2 * Power(d, j) >= n \/ v % Power(d, j + 1) # 0
           k == CHOOSE j \in 0..n : stop(j) /\ \A i \in 0..(j - 1) : ~stop(i)
       IN  Power(d, k)

\* The size of the largest sub-tree rooted at v: the first power of d that
\* reaches the size, or whose next power does not divide v.
MaxSubsize(v, d, n) ==
  IF n = 1 THEN 1
  ELSE LET stop(j) == Power(d, j) >= n \/ v % Power(d, j + 1) # 0
           k == CHOOSE j \in 0..n : stop(j) /\ \A i \in 0..(j - 1) : ~stop(i)
       IN  Power(d, k)

\* The relative rank of v's parent; the root has none.
ParentOf(v, d, n) ==
  LET m == MaxSubsize(v, d, n)
  IN  IF m >= n THEN INVALID_RANK ELSE (v \div (m * d)) * (m * d)

\* The ranks of a group of n that have v as their parent.
KnChildren(v, d, n) == {c \in 0..(n - 1) : ParentOf(c, d, n) = v}

\* The sum of f over a set of ranks.
SumOver(f, S) == MapThenSumSet(LAMBDA c : f[c], S)

\* ucg_algo_kntree_get_subtree_size: one more than the sizes of the children's
\* sub-trees; a child has a greater relative rank than its parent.
KnSubtreeSize(v, d, n) ==
  LET f[u \in 0..(n - 1)] == 1 + SumOver(f, KnChildren(u, d, n))
  IN  f[v]
=============================================================================
