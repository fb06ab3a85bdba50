------------------------------- MODULE KnTree -------------------------------
(***************************************************************************)
(* The iterator over the k-nomial tree with which the fan-in and fan-out   *)
(* collectives find their parent and, one at a time, their children.       *)
(* Source: util/algo/ucg_kntree.c.                                         *)
(*                                                                         *)
(* The loops of ucg_algo_kntree_iter_update are stepped through, so that   *)
(* their termination is a property and not an assumption.                  *)
(***************************************************************************)
EXTENDS Integers, Sequences, FiniteSets, KnOps

CONSTANTS
  Sizes,         \* group sizes
  Degrees        \* configured degrees, before ucg_algo_kntree_iter_init adjusts them

ASSUME SizesAssumption == Sizes \subseteq Nat \ {0} /\ Degrees \subseteq Int

VARIABLES
  size, degree, root, leftmost,
  myrank,        \* iter->myrank: the rank relative to the root
  parent, max_subsize, subsize, child_idx, child,
  pc,            \* "scan": inside iter_update; "child": at a child; "end"
  got            \* history: the children the iterator returned, in order

config == <<size, degree, root, leftmost, myrank, parent, max_subsize>>
vars == <<config, subsize, child_idx, child, pc, got>>

-----------------------------------------------------------------------------
(* ucg_algo_kntree_iter_init *)

\* AdjustDegree, MaxSubsize and ParentOf are defined in KnOps.

Absolute(v) == (v + root) % size

Init ==
  /\ size \in Sizes
  /\ \E d \in Degrees : degree = AdjustDegree(d, size)
  /\ root \in 0..(size - 1)
  /\ \E r \in 0..(size - 1) : myrank = (r - root + size) % size
  /\ leftmost \in BOOLEAN
  /\ max_subsize = MaxSubsize(myrank, degree, size)
  /\ parent = LET p == ParentOf(myrank, degree, size)
              IN  IF p = INVALID_RANK THEN p ELSE Absolute(p)
  /\ subsize = IF leftmost THEN max_subsize ELSE 1
  /\ child = INVALID_RANK
  /\ child_idx = 1
  /\ pc = "scan"
  /\ got = <<>>

-----------------------------------------------------------------------------
(* ucg_algo_kntree_iter_update, one step of its loops at a time *)

\* Mutant: the rightmost scan does not mirror the leftmost one.
Candidate_NoMirror ==
  IF leftmost THEN myrank + (subsize \div degree) * child_idx
  ELSE myrank + subsize * child_idx

\* The child the inner loop looks at.
Candidate ==
  IF leftmost THEN myrank + (subsize \div degree) * child_idx
  ELSE myrank + subsize * (degree - child_idx)

\* The condition of the outer loop.
SubtreesLeft == IF leftmost THEN subsize \div degree > 0 ELSE subsize < max_subsize

ScanHit ==
  /\ pc = "scan" /\ SubtreesLeft /\ child_idx < degree
  /\ Candidate < size
  /\ child' = Absolute(Candidate)
  /\ pc' = "child"
  /\ got' = Append(got, Candidate)
  /\ UNCHANGED <<config, subsize, child_idx>>

\* Mutant: the inner loop does not move on from a rank outside of the group.
ScanMiss_Stay ==
  /\ pc = "scan" /\ SubtreesLeft /\ child_idx < degree
  /\ Candidate >= size
  /\ UNCHANGED vars

ScanMiss ==
  /\ pc = "scan" /\ SubtreesLeft /\ child_idx < degree
  /\ Candidate >= size
  /\ child_idx' = child_idx + 1
  /\ UNCHANGED <<config, subsize, child, pc, got>>

\* Mutant: child_idx is not set back.
ScanSubtree_KeepIdx ==
  /\ pc = "scan" /\ SubtreesLeft /\ child_idx >= degree
  /\ subsize' = IF leftmost THEN subsize \div degree ELSE subsize * degree
  /\ UNCHANGED <<config, child_idx, child, pc, got>>

\* Move on to the next smaller or bigger sub-tree.
ScanSubtree ==
  /\ pc = "scan" /\ SubtreesLeft /\ child_idx >= degree
  /\ subsize' = IF leftmost THEN subsize \div degree ELSE subsize * degree
  /\ child_idx' = 1
  /\ UNCHANGED <<config, child, pc, got>>

ScanEnd ==
  /\ pc = "scan" /\ ~SubtreesLeft
  /\ child' = INVALID_RANK
  /\ pc' = "end"
  /\ UNCHANGED <<config, subsize, child_idx, got>>

\* ucg_algo_kntree_iter_child_inc, called for each child until the end.
ChildInc ==
  /\ pc = "child"
  /\ child_idx' = child_idx + 1
  /\ pc' = "scan"
  /\ UNCHANGED <<config, subsize, child, got>>

\* ucg_algo_kntree_iter_reset when the collective is started again.
Reset ==
  /\ pc = "end"
  /\ subsize' = IF leftmost THEN max_subsize ELSE 1
  /\ child' = INVALID_RANK
  /\ child_idx' = 1
  /\ pc' = "scan"
  /\ got' = <<>>
  /\ UNCHANGED config

Next == ScanHit \/ ScanMiss \/ ScanSubtree \/ ScanEnd \/ ChildInc \/ Reset

Spec == Init /\ [][Next]_vars

\* The loops run until they are done.
FairSpec == Spec /\ WF_vars(ScanHit \/ ScanMiss \/ ScanSubtree \/ ScanEnd) /\ WF_vars(ChildInc)

-----------------------------------------------------------------------------
(* ucg_algo_kntree_get_subtree_size *)

Ranks == 0..(size - 1)

ChildrenOf(v) == KnChildren(v, degree, size)

SubtreeSize(v) == KnSubtreeSize(v, degree, size)

-----------------------------------------------------------------------------
(* Properties *)

\* The children a rank enumerates are exactly the ranks that computed it as
\* their parent, each once: the two loops, one run by the child and the other
\* by the parent, agree, so every message of a tree collective has its match.
ChildrenMatchParents ==
  pc = "end" =>
    /\ {got[i] : i \in 1..Len(got)} = ChildrenOf(myrank)
    /\ Len(got) = Cardinality(ChildrenOf(myrank))

\* All ranks hang under the root: only the root lacks a parent, a parent is
\* closer to it, and the sizes get_subtree_size computes add up.
SpanningTree ==
  /\ \A v \in Ranks :
       LET p == ParentOf(v, degree, size)
       IN  IF v = 0 THEN p = INVALID_RANK ELSE p \in 0..(v - 1)
  /\ SubtreeSize(0) = size

\* The highest power of the degree that divides the distance of c from me.
StrideTo(c) ==
  Power(degree, CHOOSE j \in 0..size :
    /\ (c - myrank) % Power(degree, j) = 0
    /\ (c - myrank) % Power(degree, j + 1) # 0)

\* "The right-most kntree is a mirror flip of left-most kntree": the left-most
\* order visits larger strides first and smaller children first, the right-most
\* order the opposite.
MirrorOrder ==
  \A i, j \in 1..Len(got) : i < j =>
    LET a == IF leftmost THEN got[i] ELSE got[j]
        b == IF leftmost THEN got[j] ELSE got[i]
    IN  StrideTo(a) > StrideTo(b) \/ (StrideTo(a) = StrideTo(b) /\ a < b)

\* The iterator reaches "UCG_INVALID_RANK the end of iterator" (ucg_kntree.h).
IterEnds == pc = "scan" ~> pc # "scan"
=============================================================================
