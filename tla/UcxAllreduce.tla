---------------------------- MODULE UcxAllreduce ----------------------------
(***************************************************************************)
(* The allreduce algorithms of the UCX plan component, and the reduction   *)
(* along a k-nomial tree, as stages. Areas of memory: "s" the send buffer, *)
(* "r" the receive buffer, "t" the staging area. Sources:                  *)
(* planc/ucx/allreduce, planc/ucx/reduce.                                  *)
(***************************************************************************)
EXTENDS UcxBcast, RdIter

Buf(area, count) == Cells(area, 0, count)

\* The trigger copies the send buffer unless the call is in place.
CopyIn(inplace, count) ==
  IF inplace THEN <<>> ELSE <<Copy(Buf("s", count), Buf("r", count))>>

-----------------------------------------------------------------------------
(* Recursive doubling. The two buffers are exchanged after each round in   *)
(* which the own operands come first, so that the operands stay in rank    *)
(* order.                                                                  *)

OwnFirst(r, peer) == r < peer

\* The buffer that holds the partial result after so many exchanges, and the one
\* the peer's is received into.
Mine(swaps) == IF swaps % 2 = 0 THEN "r" ELSE "t"

\* Mutant: the pointers are exchanged for the send only.
Theirs_Stored(swaps) == "t"

Theirs(swaps) == IF swaps % 2 = 0 THEN "t" ELSE "r"

RdBase(S, p, count) ==
  LET n == Cardinality(S)
      r == VRank(S, p)
      skip == IF RdType(n, r) = "PROXY" THEN 1 ELSE 0
      rounds == RdMaxIdx(n, r) - 2 * skip
      peer(j) == RdPeer(n, r, j - 1 + skip)
      swaps(j) == Cardinality({i \in 1..(j - 1) : OwnFirst(r, peer(i))})
      mine(j) == Mine(swaps(j))
      theirs(j) == Theirs(swaps(j))
      After(j) == IF j = 0 THEN <<>>
                  ELSE IF OwnFirst(r, peer(j))
                       THEN <<Reduce(Buf(mine(j), count), Buf(theirs(j), count))>>
                       ELSE <<Reduce(Buf(theirs(j), count), Buf(mine(j), count))>>
      Back == IF mine(rounds + 1) = "r" THEN <<>>
              ELSE <<Copy(Buf("t", count), Buf("r", count))>>
      Round(j) == [local |-> After(j - 1),
                   send |-> <<Send(RankAt(S, peer(j)), Buf(mine(j), count))>>,
                   recv |-> <<Recv(RankAt(S, peer(j)), Buf(theirs(j), count))>>]
  IN  [j \in 1..rounds |-> Round(j)] \o NonEmpty(<<Local(After(rounds) \o Back)>>)

ProxySend(partner, cells) == <<Send(partner, cells)>>

AllreduceRdOp(S, p, count, inplace) ==
  LET n == Cardinality(S)
      r == VRank(S, p)
      partner == RankAt(S, RdPeer(n, r, 0))
      src == IF inplace THEN "r" ELSE "s"
  IN  CASE RdType(n, r) = "EXTRA" ->
             <<Stage(<<Send(partner, Buf(src, count))>>, <<Recv(partner, Buf("r", count))>>)>>
        [] RdType(n, r) = "BASE" ->
             First(CopyIn(inplace, count), RdBase(S, p, count))
        [] RdType(n, r) = "PROXY" ->
             First(CopyIn(inplace, count), <<Stage(<<>>, <<Recv(partner, Buf("t", count))>>)>>)
               \o First(<<Reduce(Buf("t", count), Buf("r", count))>>, RdBase(S, p, count))
               \o NonEmpty(<<Stage(ProxySend(partner, Buf("r", count)), <<>>)>>)

-----------------------------------------------------------------------------
(* Ring: reduce-scatter, then allgather; only for commutative operations   *)
(* and count >= n.                                                         *)

\* The first count % n blocks have one element more.
RingOffset(b, n, count) ==
  IF b < count % n THEN b * ((count \div n) + 1) ELSE b * (count \div n) + (count % n)
RingCount(b, n, count) == IF b < count % n THEN (count \div n) + 1 ELSE count \div n

RingMax(n, count) == IF count % n # 0 THEN (count \div n) + 1 ELSE count \div n

AllreduceRing(S, p, count, inplace) ==
  LET n == Cardinality(S)
      r == VRank(S, p)
      left == RankAt(S, (r - 1 + n) % n)
      right == RankAt(S, (r + 1) % n)
      Block(b) == Cells("r", RingOffset(b, n, count), RingCount(b, n, count))
      Room(b) == Cells("r", RingOffset(b, n, count), RingMax(n, count))
      sent(k) == (r + n - k) % n
      got(k) == (r + n - k - 1) % n
      After(k) == IF k < 0 THEN <<>>
                  ELSE <<Reduce(Buf("t", RingCount(got(k), n, count)), Block(got(k)))>>
      Scatter(k) == [local |-> After(k - 1), send |-> <<Send(right, Block(sent(k)))>>,
                     recv |-> <<Recv(left, Buf("t", RingMax(n, count)))>>]
      Gather(k) == [local |-> IF k = 0 THEN After(n - 2) ELSE <<>>,
                    send |-> <<Send(right, Block((r + n - k + 1) % n))>>,
                    recv |-> <<Recv(left, Room((r + n - k) % n))>>]
  IN  First(CopyIn(inplace, count),
            [k \in 1..(n - 1) |-> Scatter(k - 1)] \o [k \in 1..(n - 1) |-> Gather(k - 1)])

-----------------------------------------------------------------------------
(* Rabenseifner: recursive halving, then recursive doubling among a power  *)
(* of two of ranks; of the first 2 * rem ranks the odd ones are extra.     *)

RabRem(n) == n - Bit(ILog2(n))
RabType(n, r) ==
  IF r >= 2 * RabRem(n) THEN "BASE" ELSE IF r % 2 = 0 THEN "PROXY" ELSE "EXTRA"
RabNewRank(n, r) == IF RabType(n, r) = "PROXY" THEN r \div 2 ELSE r - RabRem(n)
RabPeer(n, r, k) ==
  LET a == FlipBit(RabNewRank(n, r), k)
  IN  IF a < RabRem(n) THEN a * 2 ELSE a + RabRem(n)

\* The halves of a window [lo, len].
LowHalf(w) == [lo |-> w.lo, len |-> w.len \div 2]
HighHalf(w) == [lo |-> w.lo + (w.len \div 2), len |-> w.len - (w.len \div 2)]

\* recv_index and recv_count of step k: the half r goes on with.
RabKept(n, r, k, count) ==
  LET kept[j \in -1..k] ==
        IF j = -1 THEN [lo |-> 0, len |-> count]
        ELSE IF r < RabPeer(n, r, j) THEN LowHalf(kept[j - 1]) ELSE HighHalf(kept[j - 1])
  IN  kept[k]

\* send_index and send_count of step k: the half r leaves to its peer.
RabGiven(n, r, k, count) ==
  LET w == RabKept(n, r, k - 1, count)
  IN  IF r < RabPeer(n, r, k) THEN HighHalf(w) ELSE LowHalf(w)

RabCells(area, w) == Cells(area, w.lo, w.len)

\* Recursive halving: the kept half is received in the staging area.
RabScatterBase(S, r, count) ==
  LET n == Cardinality(S)
      kept(k) == RabKept(n, r, k, count)
      peer(k) == RankAt(S, RabPeer(n, r, k))
      After(k) == IF k < 0 THEN <<>>
                  ELSE <<Reduce(RabCells("t", kept(k)), RabCells("r", kept(k)))>>
      Step(k) == [local |-> After(k - 1),
                  send |-> <<Send(peer(k), RabCells("r", RabGiven(n, r, k, count)))>>,
                  recv |-> <<Recv(peer(k), RabCells("t", kept(k)))>>]
  IN  [k \in 1..ILog2(n) |-> Step(k - 1)] \o NonEmpty(<<Local(After(ILog2(n) - 1))>>)

\* A proxy and its extra rank first reduce one half each.
ReduceScatterOp(S, p, count, inplace) ==
  LET n == Cardinality(S)
      r == VRank(S, p)
      half == count \div 2
      Left(area) == Cells(area, 0, half)
      Right(area) == Cells(area, half, count - half)
      up == RankAt(S, r + 1)
      down == RankAt(S, r - 1)
  IN  First(CopyIn(inplace, count),
        CASE RabType(n, r) = "BASE" -> RabScatterBase(S, r, count)
          [] RabType(n, r) = "PROXY" ->
               <<Stage(<<Send(up, Right("r"))>>, <<Recv(up, Left("t"))>>),
                 [local |-> <<Reduce(Left("t"), Left("r"))>>, send |-> <<>>,
                  recv |-> <<Recv(up, Right("r"))>>]>> \o RabScatterBase(S, r, count)
          [] RabType(n, r) = "EXTRA" ->
               <<Stage(<<Send(down, Left("r"))>>, <<Recv(down, Right("t"))>>),
                 [local |-> <<Reduce(Right("t"), Right("r"))>>,
                  send |-> <<Send(down, Right("r"))>>, recv |-> <<>>]>>)

\* Recursive doubling back over the same windows.
RabGatherBase(S, r, count) ==
  LET n == Cardinality(S)
      Step(k) == Stage(<<Send(RankAt(S, RabPeer(n, r, k)), RabCells("r", RabKept(n, r, k, count)))>>,
                       <<Recv(RankAt(S, RabPeer(n, r, k)), RabCells("r", RabGiven(n, r, k, count)))>>)
  IN  [k \in 1..ILog2(n) |-> Step(ILog2(n) - k)]

AllgathervOp(S, p, count) ==
  LET n == Cardinality(S)
      r == VRank(S, p)
      all == Buf("r", count)
  IN  CASE RabType(n, r) = "BASE" -> RabGatherBase(S, r, count)
        [] RabType(n, r) = "PROXY" ->
             RabGatherBase(S, r, count) \o <<Stage(<<Send(RankAt(S, r + 1), all)>>, <<>>)>>
        [] RabType(n, r) = "EXTRA" -> <<Stage(<<>>, <<Recv(RankAt(S, r - 1), all)>>)>>

AllreduceRabenseifner(loc, p, count, inplace) ==
  SubOp(loc, "NET", p, ReduceScatterOp(TopoMembers(loc, "NET", p), p, count, inplace))
    \o SubOp(loc, "NET", p, AllgathervOp(TopoMembers(loc, "NET", p), p, count))

-----------------------------------------------------------------------------
(* Node- and socket-aware Rabenseifner: the ranks of a node or socket       *)
(* reduce a window each, the ranks with the same place on the others double *)
(* their windows, and the windows are gathered again. Nodes and sockets     *)
(* have the same number of ranks each. Source: also planc_ucx_group.c.      *)

\* ucg_planc_ucx_allreduce_get_rd_args: the window the member of virtual rank r
\* goes on with; an extra rank is above every peer.
RdWindow(n, r, count) ==
  LET window[k \in -1..(ILog2(n) - 1)] ==
        IF k = -1 THEN [lo |-> 0, len |-> count]
        ELSE IF RabType(n, r) # "EXTRA" /\ r < RabPeer(n, r, k)
             THEN LowHalf(window[k - 1]) ELSE HighHalf(window[k - 1])
  IN  window[ILog2(n) - 1]

SocketPlace(loc, p) == VRank(TopoMembers(loc, "SOCKET", p), p)

\* Where a rank comes when those of its node are ordered by socket.
NodePlace(loc, p) ==
  Cardinality({r \in NodeMates(loc, p) : loc[r].socket < loc[p].socket}) + SocketPlace(loc, p)

\* The members of the groups of leaders, in order. Nodes and sockets are
\* numbered from 0 on.
NodeLeaderAlgoGroup(loc, p) ==
  LET pps == Cardinality(TopoMembers(loc, "SOCKET", p))
      myoffset == SocketPlace(loc, p) + loc[p].socket * pps
  IN  SetToSortSeq({r \in DOMAIN loc : NodePlace(loc, r) = myoffset},
                   LAMBDA a, b : loc[a].node < loc[b].node)

SocketLeaderAlgoGroup(loc, p) ==
  SetToSortSeq({r \in NodeMates(loc, p) : SocketPlace(loc, r) = SocketPlace(loc, p)},
               LAMBDA a, b : a < b)

\* The stages of a virtual group of ranks on a buffer of its own, as the stages
\* of the members g on the part of the receive buffer from lo on.
Mapped(stages, g, lo) ==
  LET moved(cells) == [i \in DOMAIN cells |->
                         IF cells[i][1] = "r" THEN <<"r", cells[i][2] + lo>> ELSE cells[i]]
      Step(x) == [x EXCEPT !.src = moved(@), !.dst = moved(@)]
      To(x) == [x EXCEPT !.to = g[@ + 1], !.cells = moved(@)]
      From(x) == [x EXCEPT !.from = g[@ + 1], !.cells = moved(@)]
      One(stage) == [local |-> [i \in DOMAIN stage.local |-> Step(stage.local[i])],
                     send |-> [i \in DOMAIN stage.send |-> To(stage.send[i])],
                     recv |-> [i \in DOMAIN stage.recv |-> From(stage.recv[i])]]
  IN  [k \in DOMAIN stages |-> One(stages[k])]

\* Recursive doubling in place among the members g on a window of the buffer; a
\* member alone has an empty op.
RdAmong(g, p, w) ==
  LET me == (CHOOSE i \in DOMAIN g : g[i] = p) - 1
  IN  IF Len(g) <= 1 THEN <<>>
      ELSE Mapped(AllreduceRdOp(0..(Len(g) - 1), me, w.len, TRUE), g, w.lo)

\* Rabenseifner's steps within p's group of a type, around others.
AroundIn(loc, type, p, count, inplace, inner) ==
  LET S == TopoMembers(loc, type, p)
  IN  SubOp(loc, type, p, ReduceScatterOp(S, p, count, inplace)) \o inner
        \o SubOp(loc, type, p, AllgathervOp(S, p, count))

AllreduceNaRabenseifner(loc, p, count, inplace) ==
  LET S == TopoMembers(loc, "NODE", p)
      w == RdWindow(Cardinality(S), VRank(S, p), count)
  IN  AroundIn(loc, "NODE", p, count, inplace, RdAmong(NodeLeaderAlgoGroup(loc, p), p, w))

AllreduceSaRabenseifner(loc, p, count, inplace) ==
  LET S == TopoMembers(loc, "SOCKET", p)
      w == RdWindow(Cardinality(S), VRank(S, p), count)
  IN  AroundIn(loc, "SOCKET", p, count, inplace,
               RdAmong(SocketLeaderAlgoGroup(loc, p), p, w) \o RdAmong(NodeLeaderAlgoGroup(loc, p), p, w))

-----------------------------------------------------------------------------
(* Reduction along a tree and the meta ops over the topology groups.       *)

\* The contributions of the children are received side by side in the staging
\* area and reduced; the operation is commutative, so their order is fixed here.
ReduceKntreeOp(S, p, degree, root, count, inplace) ==
  LET children == SetToSeq(TreeChildren(S, p, degree, root))
      slot(i) == Cells("t", (i - 1) * count, count)
  IN  NonEmpty(
        <<[local |-> CopyIn(inplace, count), send |-> <<>>,
           recv |-> [i \in DOMAIN children |-> Recv(children[i], slot(i))]],
          [local |-> [i \in DOMAIN children |-> Reduce(slot(i), Buf("r", count))],
           send |-> Tos(TreeParents(S, p, degree, root), Buf("r", count)), recv |-> <<>>]>>)

\* send_in_place: the rank's operands are in the receive buffer since it took
\* part in an earlier sub-op.
SendInPlace(loc, p, inplace, before) ==
  inplace \/ \E type \in before : TopoEnabled(loc, type, p)

AddReduce(loc, p, type, degree, count, inplace) ==
  SubOp(loc, type, p, ReduceKntreeOp(TopoMembers(loc, type, p), p, degree, LEADER, count, inplace))
AddAllreduceRd(loc, p, type, count, inplace) ==
  SubOp(loc, type, p, AllreduceRdOp(TopoMembers(loc, type, p), p, count, inplace))

AllreduceNaKntree(loc, p, deg, count, inplace) ==
  AddReduce(loc, p, "NODE", deg.fanin_intra, count, inplace)
    \o AddReduce(loc, p, "NODE_LEADER", deg.fanin_inter, count, SendInPlace(loc, p, inplace, {"NODE"}))
    \o AddBcast(loc, p, "NODE_LEADER", deg.fanout_inter, Buf("r", count))
    \o AddBcast(loc, p, "NODE", deg.fanout_intra, Buf("r", count))

AllreduceNaRdAndKntree(loc, p, deg, count, inplace) ==
  AddReduce(loc, p, "NODE", deg.fanin_intra, count, inplace)
    \o AddAllreduceRd(loc, p, "NODE_LEADER", count, SendInPlace(loc, p, inplace, {"NODE"}))
    \o AddBcast(loc, p, "NODE", deg.fanout_intra, Buf("r", count))

AllreduceNaRdAndBntree(loc, p, count, inplace) ==
  AllreduceNaRdAndKntree(loc, p, Binomial, count, inplace)

\* The two steps within a node that the socket-aware variants begin with, and
\* the two they end with.
SocketReduce(loc, p, deg, count, inplace) ==
  AddReduce(loc, p, "SOCKET", deg.fanin_intra, count, inplace)
    \o AddReduce(loc, p, "SOCKET_LEADER", deg.fanin_intra, count, SendInPlace(loc, p, inplace, {"SOCKET"}))
SocketBcast(loc, p, deg, count) ==
  AddBcast(loc, p, "SOCKET_LEADER", deg.fanout_intra, Buf("r", count))
    \o AddBcast(loc, p, "SOCKET", deg.fanout_intra, Buf("r", count))

AllreduceSaKntree(loc, p, deg, count, inplace) ==
  SocketReduce(loc, p, deg, count, inplace)
    \o AddReduce(loc, p, "NODE_LEADER", deg.fanin_inter, count,
                 SendInPlace(loc, p, inplace, {"SOCKET", "SOCKET_LEADER"}))
    \o AddBcast(loc, p, "NODE_LEADER", deg.fanout_inter, Buf("r", count))
    \o SocketBcast(loc, p, deg, count)

AllreduceSaRdAndKntree(loc, p, deg, count, inplace) ==
  SocketReduce(loc, p, deg, count, inplace)
    \o AddAllreduceRd(loc, p, "NODE_LEADER", count,
                      SendInPlace(loc, p, inplace, {"SOCKET", "SOCKET_LEADER"}))
    \o SocketBcast(loc, p, deg, count)

AllreduceSaRdAndBntree(loc, p, count, inplace) ==
  AllreduceSaRdAndKntree(loc, p, Binomial, count, inplace)
=============================================================================
