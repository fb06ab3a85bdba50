----------------------------- MODULE UcxScatterv -----------------------------
(***************************************************************************)
(* The linear, k-nomial tree and node-aware scatterv of the UCX plan       *)
(* component as stages. v is the layout of the root's send buffer "s"; "r" is the       *)
(* receive buffer, "t" the staging area of an inner node of the tree, and  *)
(* "c" the counts and the size of the datatype, which only the root knows. *)
(* Source: planc/ucx/scatterv.                                             *)
(***************************************************************************)
EXTENDS UcxBcast

SendBlock(v, b) == Cells("s", v.displ[b], v.count[b])
RecvBlock(v, b) == Cells("r", 0, v.count[b])

\* The root takes its own block from the send buffer unless it is in place.
TakeOwn(v, root, inplace) ==
  IF inplace \/ v.count[root] = 0 THEN <<>>
  ELSE <<Copy(SendBlock(v, root), RecvBlock(v, root))>>

\* Mutant: an empty block is sent although nobody receives it.
LinearTo_Empty(v, root, q) == IF q = root THEN <<>> ELSE <<Send(q, SendBlock(v, q))>>

\* Empty blocks are neither sent nor received.
LinearTo(v, root, q) ==
  IF q = root \/ v.count[q] = 0 THEN <<>> ELSE <<Send(q, SendBlock(v, q))>>

\* The root sends the blocks one after the other, each after testall, or all at
\* once; which of the two depends on the average size alone.
ScattervLinear(n, r, root, v, inplace, batch) ==
  LET out == [q \in 0..(n - 1) |-> LinearTo(v, root, q)]
      own(q) == IF q = root THEN TakeOwn(v, root, inplace) ELSE <<>>
      OneByOne == [i \in 1..n |-> [local |-> own(i - 1), send |-> out[i - 1], recv |-> <<>>]]
      Batch == [local |-> own(root), send |-> FlattenSeq([i \in 1..n |-> out[i - 1]]), recv |-> <<>>]
  IN  NonEmpty(
        IF r = root THEN IF batch THEN <<Batch>> ELSE OneByOne
        ELSE <<Stage(<<>>, IF v.count[r] > 0 THEN <<Recv(root, RecvBlock(v, r))>> ELSE <<>>)>>)

-----------------------------------------------------------------------------
(* The k-nomial tree. Parents and children as of UcxBcast; the children    *)
(* come in the left-most order, the largest sub-tree first.                *)

\* sendcounts, and sdtype_size
Params == <<<<<<"c", 0>>>>, <<<<"c", 1>>>>>>

\* The ranks whose data pass through q, in the order of the messages: q itself
\* first, then its sub-tree.
Subtree(n, q, degree, root) ==
  LET size == KnSubtreeSize(Relative(n, q, root), AdjustDegree(degree, n), n)
  IN  [i \in 1..size |-> (q + i - 1) % n]

\* staging_displs: the blocks of the ranks after r, packed.
StagingOffset(v, r, n, b) ==
  LET before == {i \in 1..(n - 1) : i < (b - r + n) % n}
  IN  MapThenSumSet(LAMBDA i : v.count[(r + i) % n], before)

Staged(v, r, n, b) == Cells("t", StagingOffset(v, r, n, b), v.count[b])

\* The parameters travel down the tree only in the first start of a request.
ScattervKntree(n, r, degree, root, v, inplace, first_trigger) ==
  LET S == 0..(n - 1)
      parents == SetToSeq(TreeParents(S, r, degree, root))
      children == SetToSortSeq(TreeChildren(S, r, degree, root),
                               LAMBDA a, b : Relative(n, a, root) > Relative(n, b, root))
      each(peers, messages) == FlattenSeq([i \in DOMAIN peers |-> messages[peers[i]]])
      source(b) == IF r = root THEN SendBlock(v, b) ELSE Staged(v, r, n, b)
      target(b) == IF b = r THEN RecvBlock(v, r) ELSE Staged(v, r, n, b)
      Down(q) == LET t == Subtree(n, q, degree, root)
                 IN  [i \in DOMAIN t |-> Send(q, source(t[i]))]
      Mine(q) == LET t == Subtree(n, r, degree, root)
                 IN  [i \in DOMAIN t |-> Recv(q, target(t[i]))]
      ParamsTo(q) == [i \in 1..2 |-> Send(q, Params[i])]
      ParamsFrom(q) == [i \in 1..2 |-> Recv(q, Params[i])]
      params == <<Stage(<<>>, each(parents, [q \in S |-> ParamsFrom(q)])),
                  Stage(each(children, [q \in S |-> ParamsTo(q)]), <<>>)>>
      data == <<[local |-> IF r = root THEN TakeOwn(v, root, inplace) ELSE <<>>,
                 send |-> <<>>, recv |-> each(parents, [q \in S |-> Mine(q)])],
                Stage(each(children, [q \in S |-> Down(q)]), <<>>)>>
  IN  NonEmpty((IF first_trigger THEN params ELSE <<>>) \o data)

-----------------------------------------------------------------------------
(* The node-aware tree: the root packs the blocks in rank order and hands  *)
(* them to rank 0; they go down the tree of the node leaders and then those*)
(* within the nodes. The ranks of a node are consecutive, so that what a   *)
(* member forwards is a part of what it received.                          *)

FromParent(S, p, degree, messages) ==
  LET from == SetToSeq(TreeParents(S, p, degree, LEADER))
  IN  [k \in DOMAIN from |->
         Stage(<<>>, [i \in DOMAIN messages |-> Recv(from[k], messages[i])])]

\* One child after the other, the largest sub-tree first, with testall between.
ToChildren(S, p, degree, messages) ==
  LET to == SetToSortSeq(TreeChildren(S, p, degree, LEADER), LAMBDA a, b : a > b)
  IN  [k \in DOMAIN to |->
         Stage([i \in DOMAIN messages[to[k]] |-> Send(to[k], messages[to[k]][i])], <<>>)]

NaParamsOp(S, p, degree) ==
  FromParent(S, p, degree, Params) \o ToChildren(S, p, degree, [q \in S |-> Params])

\* The data of the ranks from a on and before b.
SizeOf(v, a, b) == MapThenSumSet(LAMBDA r : v.count[r], a..(b - 1))

\* Each member of S stands for per ranks: itself and those that follow it.
NaDataOp(S, p, degree, per, v) ==
  LET n == Cardinality(S)
      End(q) == q + KnSubtreeSize(VRank(S, q), AdjustDegree(degree, n), n) * per
      Part(q) == <<Cells("t", SizeOf(v, p, q), SizeOf(v, q, End(q)))>>
  IN  FromParent(S, p, degree, Part(p)) \o ToChildren(S, p, degree, [q \in S |-> Part(q)])

Pack(n, v) ==
  [i \in 1..n |-> Copy(SendBlock(v, i - 1), Cells("t", SizeOf(v, 0, i - 1), v.count[i - 1]))]

\* The root hands parameters and data to rank 0.
AdjustScatterRoot(n, p, root, v) ==
  LET HandOver(messages) ==
        Stage(IF p = root THEN [i \in DOMAIN messages |-> Send(LEADER, messages[i])] ELSE <<>>,
              IF p = LEADER THEN [i \in DOMAIN messages |-> Recv(root, messages[i])] ELSE <<>>)
  IN  IF root = LEADER THEN <<>>
      ELSE NonEmpty(<<HandOver(Params), HandOver(<<Cells("t", 0, SizeOf(v, 0, n))>>)>>)

ScattervNaKntree(loc, p, inter, intra, root, v) ==
  LET n == Cardinality(DOMAIN loc)
      leaders == TopoMembers(loc, "NODE_LEADER", p)
      mates == TopoMembers(loc, "NODE", p)
      ppn == Cardinality(mates)
  IN  First(IF p = root THEN Pack(n, v) ELSE <<>>,
            AdjustScatterRoot(n, p, root, v)
              \o SubOp(loc, "NODE_LEADER", p,
                       NaParamsOp(leaders, p, inter) \o NaDataOp(leaders, p, inter, ppn, v))
              \o SubOp(loc, "NODE", p, NaParamsOp(mates, p, intra) \o NaDataOp(mates, p, intra, 1, v))
              \o <<Local(<<Copy(Cells("t", 0, v.count[p]), RecvBlock(v, p))>>)>>)
=============================================================================
