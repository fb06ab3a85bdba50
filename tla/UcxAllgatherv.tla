---------------------------- MODULE UcxAllgatherv ----------------------------
(***************************************************************************)
(* The allgatherv algorithms of the UCX plan component as stages. The      *)
(* members are the ranks 0..(n - 1). v is the layout the caller r passed:  *)
(* v.count[b] elements of rank b are placed at v.displ[b] of the receive   *)
(* buffer "r"; the send buffer is "s". Sources: planc/ucx/allgatherv.      *)
(***************************************************************************)
EXTENDS Sched, RdIter

\* The address and the count of block b.
Block(v, b) == Cells("r", v.displ[b], v.count[b])

\* The trigger puts the own block in its place unless the call is in place.
CopyOwn(v, r, inplace) ==
  IF inplace THEN <<>> ELSE <<Copy(Cells("s", 0, v.count[r]), Block(v, r))>>

RingOut(r, step, n) == (r - step + n) % n
RingIn(r, step, n) == (r - step - 1 + n) % n

AllgathervRing(n, r, v, inplace) ==
  First(CopyOwn(v, r, inplace),
        [k \in 1..(n - 1) |->
           Stage(<<Send((r + 1) % n, Block(v, RingOut(r, k - 1, n)))>>,
                 <<Recv((r - 1 + n) % n, Block(v, RingIn(r, k - 1, n)))>>)])

\* Ranks of different parity talk to different neighbours in turn.
AllgathervRingHpl(n, r, v, inplace) ==
  LET left == (r - 1 + n) % n
      right == (r + 1) % n
      peer(step) == IF (r + step) % 2 # 0 THEN left ELSE right
      out(step) == (IF peer(step) = right THEN r - step \div 2 + n ELSE r + step \div 2 + n) % n
      in(step) == (IF peer(step) = right THEN peer(step) + step \div 2 + n
                   ELSE peer(step) - step \div 2 + n) % n
  IN  First(CopyOwn(v, r, inplace),
            [k \in 1..(n - 1) |-> Stage(<<Send(peer(k - 1), Block(v, out(k - 1)))>>,
                                        <<Recv(peer(k - 1), Block(v, in(k - 1)))>>)])

AllgathervLinear(n, r, v, inplace) ==
  First(CopyOwn(v, r, inplace),
        NonEmpty(<<Stage([i \in 1..(n - 1) |-> Send((r + i) % n, Block(v, r))],
                         [i \in 1..(n - 1) |->
                            Recv((r - i + n) % n, Block(v, (r - i + n) % n))])>>))

-----------------------------------------------------------------------------
(* Bruck *)

\* Neighbouring blocks are merged when the caller's displacements put one
\* directly after the other.
Merged(v, blocks) ==
  FoldLeft(LAMBDA acc, i :
             IF i > 1 /\ v.displ[blocks[i]] = v.displ[blocks[i - 1]] + v.count[blocks[i - 1]]
             THEN [acc EXCEPT ![Len(acc)] = @ \o Block(v, blocks[i])]
             ELSE Append(acc, Block(v, blocks[i])),
           <<>>, [i \in DOMAIN blocks |-> i])

BruckCount(d, n) == IF d <= n \div 2 THEN d ELSE n - d

AllgathervBruck(n, r, v, inplace) ==
  LET steps == CHOOSE k \in 0..n : Bit(k) >= n /\ \A j \in 0..(k - 1) : Bit(j) < n
      Blocks(from, d) == [i \in 1..BruckCount(d, n) |-> (from + i - 1) % n]
      Step(d) ==
        LET to == (r - d + n) % n
            from == (r + d) % n
            out == Merged(v, Blocks(r, d))
            in == Merged(v, Blocks(from, d))
        IN  Stage([i \in DOMAIN out |-> Send(to, out[i])],
                  [i \in DOMAIN in |-> Recv(from, in[i])])
  IN  First(CopyOwn(v, r, inplace), [k \in 1..steps |-> Step(Bit(k - 1))])

-----------------------------------------------------------------------------
(* Neighbor exchange, for even sizes only: pairs of blocks travel in both  *)
(* directions.                                                             *)

NeighborSupported(n) == n % 2 = 0

\* neighbor[parity], offset_at_step[parity] and the first block of a pair.
Neighbor(n, r, parity) == IF r % 2 = parity THEN (r + 1) % n ELSE (r - 1 + n) % n
Offset(r, parity) == IF r % 2 = parity THEN 2 ELSE -2
PairOf(r) == r - (r % 2)

\* recv_data_from[k % 2] in loop k, advanced once every other loop.
RecvDataFrom(n, r, k) ==
  LET turns == Cardinality({i \in 1..k : i % 2 = k % 2})
  IN  (PairOf(r) + turns * Offset(r, k % 2) + turns * n) % n

SendDataFrom(n, r, k) == IF k = 1 THEN PairOf(r) ELSE RecvDataFrom(n, r, k - 1)

AllgathervNeighbor(n, r, v, inplace) ==
  LET Pair(b) == <<Block(v, b), Block(v, b + 1)>>
      first == Neighbor(n, r, 0)
      Loop(k) ==
        LET q == Neighbor(n, r, k % 2)
            out == Pair(SendDataFrom(n, r, k))
            in == Pair(RecvDataFrom(n, r, k))
        IN  Stage(<<Send(q, out[1]), Send(q, out[2])>>, <<Recv(q, in[1]), Recv(q, in[2])>>)
  IN  First(CopyOwn(v, r, inplace),
            <<Stage(<<Send(first, Block(v, r))>>, <<Recv(first, Block(v, first))>>)>>
              \o [k \in 1..(n \div 2 - 1) |-> Loop(k)])

-----------------------------------------------------------------------------
(* Node-aware rolling: the ranks with the same place on their nodes gather *)
(* their blocks first, then each node gathers what its ranks have. Both    *)
(* run the rolling iterator: neighbours are visited in turn and the blocks *)
(* a member has reach from left to right around the ring.                  *)

\* One step of the rolling iterator: whether the member exchanges with its left
\* and its right neighbour, and which blocks it sends them.
RollLeft(m, x, odd_step) ==
  IF odd_step THEN x % 2 = 1 \/ (x = 0 /\ m % 2 = 1) ELSE x % 2 = 0 /\ ~(x = 0 /\ m % 2 = 1)
RollRight(m, x, odd_step) == IF odd_step THEN x % 2 = 0 ELSE x % 2 = 1

RollOut(m, it) ==
  IF it.odd_step THEN [left |-> it.right, right |-> it.left]
  ELSE [left |-> (it.right + m - 1) % m, right |-> (it.left + 1) % m]

RollFull(m, it) == it.left = (it.right + 1) % m

\* The stages of member x of the group g, a sequence of ranks; blocks[i] is the
\* sequence of buffers the group's i-th member contributes. Every member is
\* full after at most m steps of either kind.
Roll(g, x, blocks) ==
  LET m == Len(g)
      left == g[1 + ((x + m - 1) % m)]
      right == g[1 + ((x + 1) % m)]
      Sends(q, b) == [i \in DOMAIN blocks[b] |-> Send(q, blocks[b][i])]
      Recvs(q, b) == [i \in DOMAIN blocks[b] |-> Recv(q, blocks[b][i])]
      Step(it, k) ==
        IF RollFull(m, it) THEN it
        ELSE LET toLeft == RollLeft(m, x, it.odd_step)
                 toRight == RollRight(m, x, it.odd_step)
                 out == RollOut(m, it)
                 newLeft == (it.left + m - 1) % m
                 newRight == (it.right + 1) % m
             IN  [left |-> IF toLeft THEN newLeft ELSE it.left,
                  right |-> IF toRight THEN newRight ELSE it.right,
                  odd_step |-> ~it.odd_step,
                  stages |-> Append(it.stages, Stage(
                    (IF toRight THEN Sends(right, out.right) ELSE <<>>)
                      \o (IF toLeft THEN Sends(left, out.left) ELSE <<>>),
                    (IF toRight THEN Recvs(right, newRight) ELSE <<>>)
                      \o (IF toLeft THEN Recvs(left, newLeft) ELSE <<>>)))]
      it0 == [left |-> x, right |-> x, odd_step |-> TRUE, stages |-> <<>>]
  IN  NonEmpty(FoldLeft(Step, it0, [k \in 1..(2 * m) |-> k]).stages)

\* ppn is known, the same on all nodes and more than one, and there are several
\* nodes.
NaRollingSupported(loc) ==
  /\ \A p, q \in DOMAIN loc : Cardinality(NodeMates(loc, p)) = Cardinality(NodeMates(loc, q))
  /\ \A p \in DOMAIN loc : Cardinality(NodeMates(loc, p)) > 1 /\ NodeMates(loc, p) # DOMAIN loc

\* The ranks that have p's place on their nodes, in the order of the node ids.
OnlyNodeLeaderGroup(loc, p) ==
  LET place(r) == VRank(NodeMates(loc, r), r)
      same == {r \in DOMAIN loc : place(r) = place(p)}
  IN  SetToSortSeq(same, LAMBDA a, b : loc[a].node < loc[b].node)

AllgathervNaRolling(loc, p, v, inplace) ==
  LET g == OnlyNodeLeaderGroup(loc, p)
      mates == NodeMates(loc, p)
      me == CHOOSE i \in DOMAIN g : g[i] = p
      inter == Roll(g, me - 1, [i \in 0..(Len(g) - 1) |-> <<Block(v, g[i + 1])>>])
      intra == Roll([i \in 1..Cardinality(mates) |-> RankAt(mates, i - 1)], VRank(mates, p),
                    [i \in 0..(Cardinality(mates) - 1) |->
                       LET h == OnlyNodeLeaderGroup(loc, RankAt(mates, i))
                       IN  [j \in DOMAIN h |-> Block(v, h[j])]])
  IN  First(CopyOwn(v, p, inplace), inter) \o intra
=============================================================================
