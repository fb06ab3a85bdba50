------------------------------- MODULE RdIter -------------------------------
(***************************************************************************)
(* Recursive doubling among n ranks: the role of a rank and the peer at    *)
(* each index of its iterator. Source: util/algo/ucg_rd.c, ucg_rd.h.       *)
(***************************************************************************)
EXTENDS Integers

\* UCG_BIT(k)
Bit(k) == 2 ^ k

\* ucg_ilog2
ILog2(n) == CHOOSE k \in 0..n : Bit(k) <= n /\ n < Bit(k + 1)

\* a ^ UCG_BIT(k)
FlipBit(a, k) == IF (a \div Bit(k)) % 2 = 0 THEN a + Bit(k) ELSE a - Bit(k)

ProxyNum(n) == n - Bit(ILog2(n))

RdType(n, r) ==
  CASE r >= 2 * ProxyNum(n) -> "BASE"
    [] r < 2 * ProxyNum(n) /\ r % 2 = 0 -> "EXTRA"
    [] r < 2 * ProxyNum(n) /\ r % 2 = 1 -> "PROXY"

RdMaxIdx(n, r) ==
  LET rounds == ILog2(Bit(ILog2(n)))
  IN  CASE RdType(n, r) = "BASE" -> rounds
        [] RdType(n, r) = "PROXY" -> rounds + 2
        [] RdType(n, r) = "EXTRA" -> 2

\* The rank among the ranks that take part in the doubling.
NewRank(n, r) == IF RdType(n, r) = "PROXY" THEN r \div 2 ELSE r - ProxyNum(n)

OldRank(n, a) == IF a < ProxyNum(n) THEN 2 * a + 1 ELSE a + ProxyNum(n)

\* iter->current at index idx, below the maximum.
RdPeer(n, r, idx) ==
  CASE RdType(n, r) = "EXTRA" -> r + 1
    [] RdType(n, r) = "BASE" -> OldRank(n, FlipBit(NewRank(n, r), idx))
    [] RdType(n, r) = "PROXY" ->
         IF idx \in {0, RdMaxIdx(n, r) - 1} THEN r - 1
         ELSE OldRank(n, FlipBit(NewRank(n, r), idx - 1))
=============================================================================
