------------------------------ MODULE UcxBcast ------------------------------
(***************************************************************************)
(* The broadcast algorithms of the UCX plan component as stages. The       *)
(* operator XxxOp(S, p, ...) gives the stages of member p in a group with  *)
(* members S; roots are ranks within that group, and cells are those of    *)
(* the buffer, in the area "r". Sources: planc/ucx/bcast.                  *)
(***************************************************************************)
EXTENDS Sched, KnOps

\* Ranks relative to the root of a tree, and back.
Relative(n, v, root) == (v - root + n) % n
Absolute(n, x, root) == (x + root) % n

\* The ranks of p's parent (none or one) and children in the tree on S.
TreeParents(S, p, degree, root) ==
  LET n == Cardinality(S)
      x == ParentOf(Relative(n, VRank(S, p), root), AdjustDegree(degree, n), n)
  IN  IF x = INVALID_RANK THEN {} ELSE {RankAt(S, Absolute(n, x, root))}
TreeChildren(S, p, degree, root) ==
  LET n == Cardinality(S)
      v == Relative(n, VRank(S, p), root)
  IN  {RankAt(S, Absolute(n, x, root)) : x \in KnChildren(v, AdjustDegree(degree, n), n)}

Froms(Q, cells) == SetToSeq({Recv(q, cells) : q \in Q})
Tos(Q, cells) == SetToSeq({Send(q, cells) : q \in Q})

\* The root hands its data to the fixed root of the tree, if they differ.
AdjustRoot(S, p, root, top, cells) ==
  LET v == VRank(S, p)
  IN  Stage(IF v = root /\ top # root THEN <<Send(RankAt(S, top), cells)>> ELSE <<>>,
            IF v = top /\ top # root THEN <<Recv(RankAt(S, root), cells)>> ELSE <<>>)

\* k-nomial tree: receive from the parent, then send to the children.
BcastKntreeOp(S, p, degree, root, adjust, cells) ==
  LET top == IF adjust THEN 0 ELSE root
  IN  NonEmpty(<<AdjustRoot(S, p, root, top, cells),
                 Stage(<<>>, Froms(TreeParents(S, p, degree, top), cells)),
                 Stage(Tos(TreeChildren(S, p, degree, top), cells), <<>>)>>)

\* A broadcast from the leader of a topology group.
AddBcast(loc, p, type, degree, cells) ==
  SubOp(loc, type, p, BcastKntreeOp(TopoMembers(loc, type, p), p, degree, LEADER, TRUE, cells))

\* Root to rank 0, then the node leaders, then within the nodes.
BcastNaKntree(loc, p, intra, inter, root, cells) ==
  NonEmpty(<<AdjustRoot(DOMAIN loc, p, root, LEADER, cells)>>)
    \o AddBcast(loc, p, "NODE_LEADER", inter, cells) \o AddBcast(loc, p, "NODE", intra, cells)

\* Mutant: the root is not told apart.
RingReceives_Always(v, root) == TRUE

\* RECV and SEND of the ring's trigger.
RingReceives(v, root) == v # root

RingSends(n, v, root) == v = root \/ (v + 1) % n # root

\* The root only sends and its left neighbour only receives.
BcastRing(S, p, root, cells) ==
  LET n == Cardinality(S)
      v == VRank(S, p)
  IN  NonEmpty(
        <<Stage(<<>>, IF RingReceives(v, root) THEN <<Recv(RankAt(S, (v - 1 + n) % n), cells)>> ELSE <<>>),
          Stage(IF RingSends(n, v, root) THEN <<Send(RankAt(S, (v + 1) % n), cells)>> ELSE <<>>, <<>>)>>)

-----------------------------------------------------------------------------
(* van de Geijn: the blocks are scattered down a binomial tree and then    *)
(* gathered around a ring. Ranks are relative to the root.                 *)

Smallest(a, b) == IF a < b THEN a ELSE b

Quotient(count, n) == (count + n - 1) \div n

\* What x receives from its parent: its own block and those of its sub-tree.
ScatterCount(x, n, count) ==
  LET q == Quotient(count, n)
      up == ParentOf(x, 2, n)
      sibling == up + (x - up) * 2
  IN  IF x = 0 THEN count
      ELSE (IF sibling < n THEN Smallest(sibling * q, count) ELSE count) - x * q

\* What x sends to its child c, after the children with larger sub-trees.
ChildCount(x, c, n, count) ==
  LET q == Quotient(count, n)
      before == {d \in KnChildren(x, 2, n) : d > c}
      limits == {ScatterCount(x, n, count)} \cup {q * (d - x) : d \in before}
  IN  Min(limits) - q * (c - x)

\* The size of a block in the ring phase; the last ones may be empty.
BlockCount(b, n, count) ==
  LET q == Quotient(count, n)
  IN  IF count - b * q < 0 THEN 0 ELSE Smallest(q, count - b * q)

BcastVanDeGeijn(S, p, root, count, batch) ==
  LET n == Cardinality(S)
      v == VRank(S, p)
      x == Relative(n, v, root)
      q == Quotient(count, n)
      rank(y) == RankAt(S, Absolute(n, y, root))
      receive ==
        IF x # 0 /\ ScatterCount(x, n, count) > 0
        THEN <<Recv(rank(ParentOf(x, 2, n)), Cells("r", x * q, ScatterCount(x, n, count)))>>
        ELSE <<>>
      busy == {c \in KnChildren(x, 2, n) : ChildCount(x, c, n, count) > 0}
      sends == Each(SetToSortSeq(busy, LAMBDA a, b : a > b),
                    LAMBDA c : Send(rank(c), Cells("r", c * q, ChildCount(x, c, n, count))))
      Ring(step) ==
        LET out == (x - step + n) % n
            in == (x - step - 1 + n) % n
        IN  Stage(<<Send(rank((x + 1) % n), Cells("r", out * q, BlockCount(out, n, count)))>>,
                  <<Recv(rank((x - 1 + n) % n), Cells("r", in * q, BlockCount(in, n, count)))>>)
  IN  NonEmpty(<<Stage(<<>>, receive)>>
                 \o (IF batch THEN <<Stage(sends, <<>>)>>
                     ELSE Each(sends, LAMBDA s : Stage(<<s>>, <<>>))))
        \o [k \in 1..(n - 1) |-> Ring(k - 1)]

-----------------------------------------------------------------------------
(* The long broadcast: blocks are scattered down a binomial tree, then all *)
(* members exchange blocks with the two neighbours in turn. rank[x] is the *)
(* rank of the member that comes x-th after the root. The plan needs count *)
(* to be at least n, so no block is empty.                                 *)

\* m blocks from block b on; the first count % n blocks have one element more.
LongBlocks(b, m, n, count) ==
  LET start(i) == i * (count \div n) + Smallest(i, count % n)
  IN  Cells("r", start(b), start(b + m) - start(b))

\* The sends that are posted before the next testall: until the elements in
\* flight reach thresh (BATCH_THRESH).
Batches(sends, thresh) ==
  LET size(b) == FoldLeft(LAMBDA x, s : x + Len(s.cells), 0, b)
      Join(b, s) == IF b # <<>> /\ size(Last(b)) < thresh
                    THEN [b EXCEPT ![Len(b)] = Append(@, s)] ELSE Append(b, <<s>>)
  IN  FoldLeft(Join, <<>>, sends)

LongScatter(x, n, count, thresh, rank) ==
  LET \* counted in blocks, as if each were one element
      busy == {c \in KnChildren(x, 2, n) : ChildCount(x, c, n, n) > 0}
      sends == Each(SetToSortSeq(busy, LAMBDA a, b : a > b),
                    LAMBDA c : Send(rank[c], LongBlocks(c, ChildCount(x, c, n, n), n, count)))
  IN  NonEmpty(<<Stage(<<>>, IF x = 0 THEN <<>>
                             ELSE <<Recv(rank[ParentOf(x, 2, n)],
                                         LongBlocks(x, ScatterCount(x, n, n), n, count))>>)>>)
        \o Each(Batches(sends, thresh), LAMBDA b : Stage(b, <<>>))

\* The neighbours of step k: in a group of odd size the first member has both
\* or none.
LongSides(x, n, k) ==
  IF n % 2 = 1 /\ x = 0 THEN (IF k % 2 = 1 THEN <<1, -1>> ELSE <<>>)
  ELSE IF (x % 2) # (k % 2) THEN <<1>> ELSE <<-1>>

LongAllgather(x, n, count, rank) ==
  LET in(d, k) == (x + d * ((k + 1) \div 2) + n) % n
      out(d, k) == (x + d - d * ((k + 1) \div 2) + n) % n
      Swap(k) ==
        LET d == LongSides(x, n, k)
            peer(i) == rank[(x + d[i] + n) % n]
        IN  Stage([i \in DOMAIN d |-> Send(peer(i), LongBlocks(out(d[i], k), 1, n, count))],
                  [i \in DOMAIN d |-> Recv(peer(i), LongBlocks(in(d[i], k), 1, n, count))])
  IN  NonEmpty([k \in 1..(n - 1) |-> Swap(k)])

BcastLong(n, p, root, count, thresh) ==
  LET x == Relative(n, p, root)
      rank == [y \in 0..(n - 1) |-> Absolute(n, y, root)]
  IN  LongScatter(x, n, count, thresh, rank) \o LongAllgather(x, n, count, rank)

\* The rank after the root gets everything at once and stays out of the rest.
\* The root does not wait for that send before it scatters.
BcastLongModified(n, p, root, count) ==
  LET m == n - 1
      near == (root + 1) % n
      whole == Cells("r", 0, count)
      x == IF p = root THEN 0 ELSE ((p - root + n) % n) - 1
      rank == [y \in 0..(m - 1) |-> IF y = 0 THEN root ELSE (y + 1 + root) % n]
      rest == LongScatter(x, m, count, count, rank) \o LongAllgather(x, m, count, rank)
  IN  IF p = near THEN <<Stage(<<>>, <<Recv(root, whole)>>)>>
      ELSE IF p # root THEN rest
      ELSE IF n = 2 THEN <<Stage(<<Send(near, whole)>>, <<>>)>>
      ELSE [rest EXCEPT ![1].send = <<Send(near, whole)>> \o @]

-----------------------------------------------------------------------------
(* Rings in which the root also serves ranks further on: the second after  *)
(* it and, with two rings, the one half-way round.                         *)

IncHeads(n, root) == IF n < 3 THEN <<>> ELSE <<(root + 2) % n>>
Inc2Heads(n, root) == IncHeads(n, root) \o (IF n < 6 THEN <<>> ELSE <<(n \div 2 + root) % n>>)

\* heads are the ranks that receive from the root instead of their left.
BcastIncRing(n, p, root, heads, cells) ==
  LET left == (p - 1 + n) % n
      right == (p + 1) % n
      Served(q) == \E i \in DOMAIN heads : heads[i] = q
      from == IF Served(p) THEN root ELSE left
      ends == right = root \/ left = root \/ Served(right)
  IN  IF p = root
      THEN <<Stage(<<Send(right, cells)>> \o [i \in DOMAIN heads |-> Send(heads[i], cells)], <<>>)>>
      ELSE NonEmpty(<<Stage(<<>>, <<Recv(from, cells)>>),
                      Stage(IF ends THEN <<>> ELSE <<Send(right, cells)>>, <<>>)>>)
=============================================================================
