------------------------------ MODULE MCBarrier ------------------------------
(* Barriers on small groups: an algorithm on a placement of the ranks. *)
EXTENDS CollEngine, MCPlaces

U == INSTANCE UcxBarrier

Case(name, loc, times, stages(_)) ==
  [name |-> name,
   times |-> times,
   eager |-> BOOLEAN,
   stages |-> [p \in DOMAIN loc |-> stages(p)],
   init |-> [p \in DOMAIN loc |-> <<>>],
   goal |-> [p \in DOMAIN loc |-> <<>>],
   ordered |-> TRUE]

Algorithm(name, loc, p) ==
  CASE name = "rd" -> U!BarrierRd(loc, p)
    [] name = "na_kntree" -> U!BarrierNaKntree(loc, p, U!Degrees(2, 3, 3, 2))
    [] name = "na_rd_bntree" -> U!BarrierNaRdAndBntree(loc, p)
    [] name = "sa_kntree" -> U!BarrierSaKntree(loc, p, U!Degrees(3, 2, 2, 3))
    [] name = "sa_rd_bntree" -> U!BarrierSaRdAndBntree(loc, p)

Hierarchical == {"na_kntree", "na_rd_bntree", "sa_kntree", "sa_rd_bntree"}

Row(names, loc, times) == [names |-> names, loc |-> loc, times |-> times]

Cases(t) ==
  {Case(name, t.loc, t.times, LAMBDA p : Algorithm(name, t.loc, p)) : name \in t.names}

MaxTimes == 3

\* Consecutive barriers that overlap, and one barrier in larger groups.
Rows == <<
  Row(Hierarchical, Lonely, MaxTimes), Row({"sa_kntree"}, OneNode, MaxTimes),
  Row({"rd"}, Spread(2), MaxTimes), Row({"rd"}, Spread(3), MaxTimes),
  Row({"rd"}, Spread(4), 1), Row({"rd"}, Spread(5), 1),
  Row({"rd"}, Spread(6), 1), Row({"rd"}, Spread(7), 1),
  Row(Hierarchical, Cyclic, 1), Row(Hierarchical, Sockets, 1), Row(Hierarchical, Large, 1)>>

Barriers == UNION {Cases(Rows[i]) : i \in DOMAIN Rows}
=============================================================================
