---------------------------- MODULE UcxPolicies -----------------------------
(***************************************************************************)
(* The tables with which the plan components choose their algorithms: for  *)
(* every collective, number of nodes and number of processes on a node, the*)
(* algorithm for each range of message sizes (policy tables of             *)
(* planc/ucx/<collective>/<collective>.c and of the stars component).      *)
(*                                                                         *)
(* A table is a sequence of tiers, one for each score from the highest     *)
(* down.  A tier <<s1, id1, s2, id2, ...>> takes algorithm id1 from size s1 *)
(* on, id2 from s2 on, and so forth; 0 stands for no algorithm.  Algorithms*)
(* have the numbers of their attribute tables.                             *)
(***************************************************************************)
EXTENDS Integers, Sequences, FiniteSetsExt

K == 1024
M == K * K

UNKNOWN == -2      \* UCG_TOPO_PPX_UNKNOWN
UNBALANCED == -1   \* UCG_TOPO_PPX_UNBALANCED

-----------------------------------------------------------------------------
(* Levels *)

\* log2_n: how often n can be halved before it falls below begin.
log2_n(n, begin) == Cardinality({i \in 0 .. 30 : n \div 2 ^ i >= begin})

NodeLevels == <<"n4", "n8", "n16", "nLG">>

PpnLevels == <<"p1", "p4", "p8", "p16", "p32", "p64", "pLG">>

\* ucg_planc_ucx_get_node_level
NodeLevel(nnode) ==
    IF nnode <= 4 THEN "n4"
    ELSE IF nnode > 16 THEN "nLG"
    ELSE NodeLevels[1 + log2_n(nnode - 1, 4)]

\* ucg_planc_ucx_get_ppn_level
PpnLevel(ppn) ==
    IF ppn = 1 THEN "p1"
    ELSE IF ppn <= 4 THEN "p4"
    ELSE IF ppn > 64 THEN "pLG"
    ELSE PpnLevels[1 + log2_n(ppn, 4)]

-----------------------------------------------------------------------------
(* Broadcast: 1 binomial tree, 2 node-aware binomial tree, 4 node-aware    *)
(* k-nomial tree, 8 van de Geijn, 10 k-nomial tree. `default' selects the  *)
(* default policy (configuration variable BCAST_DEFAULT_POLICY).           *)

\* bcast_4_*
BcastN4(default) == [
  p1 |-> <<<<0, 10, 8*K, 4, 128*K, 2, 512*K, 8>>, <<512*K, 2>>>>,
  p4 |-> <<<<0, 4, 64, 10, 1*M, 1>>>>,
  p8 |-> <<<<0, 4, 16*K, 10>>>>,
  p16 |-> IF default THEN <<<<0, 4, 16*K, 10>>>>
          ELSE <<<<0, 10>>>>,
  p32 |-> <<<<0, 4, 16*K, 10>>>>,
  p64 |-> <<<<0, 4, 16*K, 10>>>>,
  pLG |-> IF default THEN <<<<0, 4, 16*K, 10>>>>
          ELSE <<<<16*K, 10>>>>]

\* bcast_8_*
BcastN8 == [
  p1 |-> <<<<0, 10, 128, 4, 32*K, 2, 256*K, 8>>, <<256*K, 10>>>>,
  p4 |-> <<<<0, 4, 32*K, 10, 256*K, 1>>>>,
  p8 |-> <<<<0, 4, 16*K, 10, 256*K, 8, 1*M, 1>>, <<256*K, 10, 1*M, 0>>>>,
  p16 |-> <<<<0, 4, 16*K, 10, 256*K, 1>>>>,
  p32 |-> <<<<0, 4, 16*K, 10>>>>,
  p64 |-> <<<<0, 4, 16*K, 10>>>>,
  pLG |-> <<<<0, 4, 32*K, 10>>>>]

\* bcast_16_*
BcastN16 == [
  p1 |-> <<<<0, 10, 32*K, 2, 512*K, 8>>, <<512*K, 10>>>>,
  p4 |-> <<<<0, 4, 16*K, 10, 256*K, 8, 1*M, 1>>, <<256*K, 10, 1*M, 0>>>>,
  p8 |-> <<<<0, 4, 16*K, 10, 256*K, 8>>, <<256*K, 1>>>>,
  p16 |-> <<<<0, 4, 16*K, 10, 512*K, 1, 1*M, 8>>, <<1*M, 1>>>>,
  p32 |-> <<<<0, 4, 16*K, 10, 128*K, 1>>>>,
  p64 |-> <<<<0, 4, 16*K, 10>>>>,
  pLG |-> <<<<0, 1, 8, 4, 16*K, 10>>>>]

\* bcast_LG_*
BcastNLG == [
  p1 |-> <<<<0, 4, 32*K, 1, 64*K, 2, 512*K, 8>>, <<512*K, 1>>>>,
  p4 |-> <<<<0, 4, 16*K, 10, 256*K, 8>>, <<256*K, 1>>>>,
  p8 |-> <<<<0, 4, 16*K, 10, 512*K, 8>>, <<512*K, 1>>>>,
  p16 |-> <<<<0, 4, 16*K, 10, 512*K, 1>>>>,
  p32 |-> <<<<0, 4, 64*K, 10, 256*K, 1>>>>,
  p64 |-> <<<<0, 4, 16*K, 10, 512*K, 1>>>>,
  pLG |-> <<<<0, 4, 16*K, 10, 256*K, 1>>>>]

-----------------------------------------------------------------------------
(* Allreduce: 1 recursive doubling, 2, 5 and 7 node-aware, 3, 6 and 8       *)
(* socket-aware trees, 4 ring, 12 to 14 Rabenseifner.                      *)
\* allreduce_4_*
AllreduceN4(default) == [
  p1 |-> <<<<0, 1, 64*K, 12>>, <<1*K, 3>>, <<0, 1>>>>,
  p4 |-> <<<<0, 1, 1*K, 14, 4*K, 13, 64*K, 4, 256*K, 12>>, <<1*K, 3>>, <<0, 1>>>>,
  p8 |-> <<<<0, 1, 128, 14, 8*K, 13, 128*K, 4, 512*K, 12>>, <<128, 3>>, <<0, 1>>>>,
  p16 |-> IF default THEN <<<<0, 1, 128, 14, 8*K, 13, 32*K, 14, 128*K, 12>>, <<128, 3>>,
             <<0, 1>>>>
          ELSE <<<<0, 1, 128, 14>>, <<128, 3>>, <<0, 1>>>>,
  p32 |-> <<<<0, 1, 64, 6, 256, 14, 4*K, 13, 512*K, 12>>, <<256, 3>>, <<0, 1>>>>,
  p64 |-> <<<<0, 6, 4*K, 14, 1*M, 13>>, <<4*K, 3>>, <<0, 1>>>>,
  pLG |-> IF default THEN <<<<0, 6, 4*K, 3, 16*K, 14>>, <<16*K, 3>>, <<0, 1>>>>
          ELSE <<<<0, 6, 64, 14>>, <<16*K, 3>>, <<0, 1>>>>]

\* allreduce_8_*
AllreduceN8 == [
  p1 |-> <<<<0, 2, 16, 7, 64, 1, 4*K, 2, 16*K, 12>>, <<16*K, 2>>, <<0, 1>>>>,
  p4 |-> <<<<0, 1, 1*K, 14, 4*K, 13, 32*K, 12>>, <<1*K, 3>>, <<0, 1>>>>,
  p8 |-> <<<<0, 1, 256, 14, 1*K, 13, 64*K, 12>>, <<256, 3>>, <<0, 1>>>>,
  p16 |-> <<<<0, 1, 128, 14, 2*K, 13, 128*K, 12>>, <<128, 3>>, <<0, 1>>>>,
  p32 |-> <<<<0, 5, 256, 14, 1*K, 13, 8*K, 12, 32*K, 13, 256*K, 12, 1*M, 13>>, <<256,
             3>>, <<0, 1>>>>,
  p64 |-> <<<<0, 8, 64, 6, 8*K, 13, 16*K, 12, 32*K, 13, 64*K, 12, 256*K, 14, 1*M, 12>>,
             <<8*K, 6>>, <<0, 1>>>>,
  pLG |-> <<<<0, 2, 16, 14, 512, 6, 4*K, 3, 16*K, 13, 128*K, 12>>, <<0, 3>>, <<0, 1>>>>]

\* allreduce_16_*
AllreduceN16 == [
  p1 |-> <<<<0, 7, 32, 1, 512, 2, 8*K, 12>>, <<0, 1>>>>,
  p4 |-> <<<<0, 1, 256, 14, 512, 13, 1*K, 14, 2*K, 13, 32*K, 12>>, <<256, 3>>, <<0, 1>>>>,
  p8 |-> <<<<0, 1, 256, 7, 512, 14, 1*K, 13, 16*K, 12, 1*M, 4>>, <<512, 3>>, <<0, 1>>>>,
  p16 |-> <<<<0, 1, 128, 14, 512, 13, 4*K, 12>>, <<128, 3>>, <<0, 1>>>>,
  p32 |-> <<<<0, 6, 256, 14, 1*K, 13, 2*K, 14, 4*K, 13, 8*K, 12>>, <<256, 3>>, <<0, 1>>>>,
  p64 |-> <<<<0, 8, 16, 6, 4*K, 3, 8*K, 13, 16*K, 12>>, <<8*K, 3>>, <<0, 1>>>>,
  pLG |-> <<<<0, 2, 32, 6, 2*K, 2, 16*K, 13, 64*K, 12>>, <<16*K, 3>>, <<0, 1>>>>]

\* allreduce_LG_*
AllreduceNLG == [
  p1 |-> <<<<0, 1, 4*K, 12>>, <<>>, <<4*K, 1>>>>,
  p4 |-> <<<<0, 1, 256, 13, 1*K, 14, 4*K, 13, 16*K, 12>>, <<256, 5, 256*K, 4>>, <<0, 1>>>>,
  p8 |-> <<<<0, 1, 256, 7, 1*K, 13, 16*K, 12>>, <<1*K, 6, 512*K, 4>>, <<0, 1>>>>,
  p16 |-> <<<<0, 3, 32, 8, 64, 6, 128, 3, 256, 14, 512, 13, 1*K, 12, 2*K, 13, 4*K, 12>>,
             <<256, 3, 512*K, 4>>, <<0, 1>>>>,
  p32 |-> <<<<0, 6, 256, 14, 1*K, 13, 2*K, 14, 4*K, 13, 8*K, 12, 512*K, 13, 1*M, 12>>,
             <<256, 4, 4*K, 3>>, <<0, 1>>>>,
  p64 |-> <<<<0, 7, 64, 5, 2*K, 6, 16*K, 12>>, <<16*K, 3>>, <<0, 1>>>>,
  pLG |-> <<<<0, 7, 128, 5, 512, 6, 4*K, 7, 8*K, 13, 16*K, 14, 64*K, 12>>, <<8*K, 3>>,
             <<0, 1>>>>]

-----------------------------------------------------------------------------
(* Allgatherv: 1 neighbour exchange, 2 ring, 3 ring-HPL, 4 linear, 5 Bruck, *)
(* 6 node-aware rolling. Large node counts share the tables of 16 nodes.   *)
\* allgatherv_4_*
AllgathervN4(default) == [
  p1 |-> <<<<0, 4>>>>,
  p4 |-> <<<<0, 1, 8*K, 2, 16*K, 1>>, <<0, 2, 8*K, 0, 16*K, 3>>>>,
  p8 |-> <<<<0, 1, 4*K, 2, 16*K, 1>>, <<0, 2, 4*K, 0, 16*K, 3>>>>,
  p16 |-> IF default THEN <<<<0, 1, 2*K, 2, 16*K, 1>>, <<0, 2, 2*K, 0, 16*K, 3>>>>
          ELSE <<<<8*K, 2, 16*K, 1>>, <<16*K, 3>>>>,
  p32 |-> <<<<0, 1, 16, 2, 16*K, 1, 256*K, 3>>, <<0, 2, 16, 0, 16*K, 3, 256*K, 0>>>>,
  p64 |-> <<<<0, 2, 16*K, 6, 32*K, 1, 256*K, 2>>, <<16*K, 1, 32*K, 0>>, <<16*K, 3, 256*K,
             0>>>>,
  pLG |-> IF default THEN <<<<0, 2>>>>
          ELSE <<<<1*K, 2>>>>]

\* allgatherv_8_*
AllgathervN8(default) == [
  p1 |-> <<<<0, 4>>>>,
  p4 |-> <<<<0, 5, 512, 4, 4*K, 2, 64*K, 6>>, <<64*K, 2, 1*M, 1>>, <<1*M, 3>>>>,
  p8 |-> <<<<0, 5, 1*K, 2, 32*K, 6, 256*K, 3>>, <<32*K, 2, 256*K, 0>>>>,
  p16 |-> IF default THEN <<<<0, 1, 2*K, 2, 16*K, 6, 64*K, 1, 1*M, 2>>, <<0, 2, 2*K, 0,
             16*K, 1, 64*K, 0>>, <<16*K, 3, 1*M, 0>>>>
          ELSE <<<<0, 5, 4*K, 6>>, <<0, 2, 2*K, 0, 16*K, 1, 64*K, 0>>, <<16*K, 3, 1*M,
             0>>>>,
  p32 |-> <<<<0, 2, 16*K, 6, 64*K, 3>>, <<16*K, 1, 64*K, 0>>, <<16*K, 3, 64*K, 0>>>>,
  p64 |-> <<<<0, 2, 16*K, 1, 64*K, 3, 256*K, 1, 512*K, 2>>, <<16*K, 3, 64*K, 0, 256*K, 3,
             512*K, 0>>>>,
  pLG |-> <<<<0, 5, 32, 2, 1*K, 1, 128*K, 2>>, <<1*K, 2, 128*K, 0>>>>]

\* allgatherv_16_*
AllgathervN16 == [
  p1 |-> <<<<0, 4>>>>,
  p4 |-> <<<<0, 5, 4*K, 2, 1*M, 1>>, <<1*M, 2>>>>,
  p8 |-> <<<<0, 5, 2*K, 2, 512*K, 1>>, <<512*K, 3>>>>,
  p16 |-> <<<<0, 1, 4*K, 2, 16*K, 1, 128*K, 3, 1*M, 2>>, <<0, 2, 4*K, 0, 16*K, 3, 128*K,
             0>>>>,
  p32 |-> <<<<0, 2, 16*K, 1, 128*K, 3>>, <<16*K, 3, 128*K, 0>>>>,
  p64 |-> <<<<0, 2, 16*K, 1, 64*K, 3, 256*K, 1, 512*K, 2>>, <<16*K, 3, 64*K, 0, 256*K, 3,
             512*K, 0>>>>,
  pLG |-> <<<<0, 5, 16, 2, 1*K, 1, 32*K, 3, 128*K, 2>>, <<1*K, 2, 32*K, 0>>>>]

\* allgatherv_LG_*
AllgathervNLG == [
  p1 |-> <<<<0, 5, 256, 4, 128*K, 1>>, <<128*K, 2>>>>,
  p4 |-> <<<<0, 5, 2*K, 4, 4*K, 2, 256*K, 1>>, <<256*K, 3>>>>,
  p8 |-> <<<<0, 5, 1*K, 2, 1*M, 1>>, <<1*M, 3>>>>,
  p16 |-> AllgathervN16.p16,
  p32 |-> AllgathervN16.p32,
  p64 |-> AllgathervN16.p64,
  pLG |-> AllgathervN16.pLG]


-----------------------------------------------------------------------------
(* Barrier: 1 recursive doubling, the others node- and socket-aware trees  *)
(* with recursive doubling behind them.                                    *)

BarrierFirst == [
  n4 |-> [p1 |-> 1, p4 |-> 1, p8 |-> 1, p16 |-> 1, p32 |-> 6, p64 |-> 7, pLG |-> 7],
  n8 |-> [p1 |-> 6, p4 |-> 1, p8 |-> 6, p16 |-> 6, p32 |-> 7, p64 |-> 7, pLG |-> 6],
  n16 |-> [p1 |-> 1, p4 |-> 1, p8 |-> 6, p16 |-> 6, p32 |-> 6, p64 |-> 6, pLG |-> 6],
  nLG |-> [p1 |-> 2, p4 |-> 6, p8 |-> 6, p16 |-> 6, p32 |-> 6, p64 |-> 6, pLG |-> 6]]

BarrierTiers(id) == IF id = 1 THEN <<<<0, 1>>>> ELSE <<<<0, id>>, <<0, 1>>>>

-----------------------------------------------------------------------------
(* The tables of the UCX component for a collective *)

BcastTable(n, p, default) ==
    CASE n = "n4" -> BcastN4(default)[p]
      [] n = "n8" -> BcastN8[p]
      [] n = "n16" -> BcastN16[p]
      [] n = "nLG" -> BcastNLG[p]

AllreduceTable(n, p, default) ==
    CASE n = "n4" -> AllreduceN4(default)[p]
      [] n = "n8" -> AllreduceN8[p]
      [] n = "n16" -> AllreduceN16[p]
      [] n = "nLG" -> AllreduceNLG[p]

AllgathervTable(n, p, default) ==
    CASE n = "n4" -> AllgathervN4(default)[p]
      [] n = "n8" -> AllgathervN8(default)[p]
      [] n = "n16" -> AllgathervN16[p]
      [] n = "nLG" -> AllgathervNLG[p]

BarrierTable(n, p) == BarrierTiers(BarrierFirst[n][p])

\* Linear scatterv, linear gatherv and k-nomial reduce for every size.
ScattervTable == <<<<0, 1>>>>
GathervTable == <<<<0, 1>>>>
ReduceTable == <<<<0, 1>>>>

-----------------------------------------------------------------------------
(* The tables of the stars component: one algorithm per collective for     *)
(* every size and every level.                                             *)

StarsBcastTable == <<<<0, 1>>>>
StarsBarrierTable == <<<<0, 1>>>>
StarsAllgathervTable == <<<<0, 1>>>>
StarsScattervTable == <<<<0, 1>>>>
StarsAlltoallvTable == <<<<0, 1>>>>

-----------------------------------------------------------------------------
(* Looking a size up *)

\* The algorithm a tier has for a size; 0 if it has none.
InTier(tier, s) ==
    LET from == {i \in 1 .. Len(tier) \div 2 : tier[2 * i - 1] <= s}
    IN  IF from = {} THEN 0 ELSE tier[2 * Max(from)]

\* The rows of a table for a size, with scores that fall from `first'.
RowsAt(table, s, comp, first) ==
    {[comp |-> comp, id |-> InTier(table[t], s), score |-> first + 1 - t] :
        t \in {u \in DOMAIN table : InTier(table[u], s) # 0}}
=============================================================================
