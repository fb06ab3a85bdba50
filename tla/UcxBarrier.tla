----------------------------- MODULE UcxBarrier -----------------------------
(***************************************************************************)
(* The barrier algorithms of the UCX plan component as stages of messages  *)
(* without data. An operator XxxOp(S, p) is the op of member p on a group  *)
(* with members S. Sources: planc/ucx/barrier.                             *)
(***************************************************************************)
EXTENDS UcxBcast, RdIter

To(q) == Send(q, <<>>)
From(q) == Recv(q, <<>>)

\* Mutant: a proxy never passes the result on to its extra rank.
RdResult_None(q) == <<>>

\* Mutant: the flag of a proxy's send is tested but not cleared.
RdResult_Twice(q) == <<Stage(<<To(q), To(q)>>, <<>>)>>

\* A proxy lets its extra rank go.
RdResult(q) == <<Stage(<<To(q)>>, <<>>)>>

\* Recursive doubling. An extra rank posts its receive together with its send.
RdOp(S, p) ==
  LET n == Cardinality(S)
      r == VRank(S, p)
      peer(idx) == RankAt(S, RdPeer(n, r, idx))
      Exchange(q) == Stage(<<To(q)>>, <<From(q)>>)
  IN  CASE RdType(n, r) = "EXTRA" -> <<Exchange(peer(0))>>
        [] RdType(n, r) = "BASE" ->
             [i \in 1..RdMaxIdx(n, r) |-> Exchange(peer(i - 1))]
        [] RdType(n, r) = "PROXY" ->
             <<Stage(<<>>, <<From(peer(0))>>)>>
               \o [i \in 1..(RdMaxIdx(n, r) - 2) |-> Exchange(peer(i))]
               \o RdResult(peer(RdMaxIdx(n, r) - 1))

\* Mutant: a rank reports to its parent before its children have arrived.
FaninOp_SendFirst(S, p, degree) ==
  NonEmpty(<<Stage(Tos(TreeParents(S, p, degree, LEADER), <<>>), <<>>),
             Stage(<<>>, Froms(TreeChildren(S, p, degree, LEADER), <<>>))>>)

\* fanin: receive from the children, then send to the parent.
FaninOp(S, p, degree) ==
  NonEmpty(<<Stage(<<>>, Froms(TreeChildren(S, p, degree, LEADER), <<>>)),
             Stage(Tos(TreeParents(S, p, degree, LEADER), <<>>), <<>>)>>)

AddFanin(loc, p, type, deg) == SubOp(loc, type, p, FaninOp(TopoMembers(loc, type, p), p, deg))

\* fanout, a broadcast of no data from the leader
AddFanout(loc, p, type, deg) == AddBcast(loc, p, type, deg, <<>>)
AddRd(loc, p, type) == SubOp(loc, type, p, RdOp(TopoMembers(loc, type, p), p))

-----------------------------------------------------------------------------
(* The meta ops; deg holds the configured tree degrees.                    *)

BarrierRd(loc, p) == RdOp(DOMAIN loc, p)

BarrierNaKntree(loc, p, deg) ==
  AddFanin(loc, p, "NODE", deg.fanin_intra) \o AddFanin(loc, p, "NODE_LEADER", deg.fanin_inter)
    \o AddFanout(loc, p, "NODE_LEADER", deg.fanout_inter) \o AddFanout(loc, p, "NODE", deg.fanout_intra)

BarrierNaRdAndKntree(loc, p, deg) ==
  AddFanin(loc, p, "NODE", deg.fanin_intra) \o AddRd(loc, p, "NODE_LEADER")
    \o AddFanout(loc, p, "NODE", deg.fanout_intra)

BarrierNaRdAndBntree(loc, p) == BarrierNaRdAndKntree(loc, p, Binomial)

BarrierSaKntree(loc, p, deg) ==
  AddFanin(loc, p, "SOCKET", deg.fanin_intra) \o AddFanin(loc, p, "SOCKET_LEADER", deg.fanin_intra)
    \o AddFanin(loc, p, "NODE_LEADER", deg.fanin_inter) \o AddFanout(loc, p, "NODE_LEADER", deg.fanout_inter)
    \o AddFanout(loc, p, "SOCKET_LEADER", deg.fanout_intra) \o AddFanout(loc, p, "SOCKET", deg.fanout_intra)

BarrierSaRdAndKntree(loc, p, deg) ==
  AddFanin(loc, p, "SOCKET", deg.fanin_intra) \o AddFanin(loc, p, "SOCKET_LEADER", deg.fanin_intra)
    \o AddRd(loc, p, "NODE_LEADER")
    \o AddFanout(loc, p, "SOCKET_LEADER", deg.fanout_intra) \o AddFanout(loc, p, "SOCKET", deg.fanout_intra)

BarrierSaRdAndBntree(loc, p) == BarrierSaRdAndKntree(loc, p, Binomial)
=============================================================================
