------------------------------- MODULE MCBcast -------------------------------
(* Broadcasts on small groups: an algorithm, a placement, a root, a count. *)
EXTENDS CollEngine, MCPlaces

U == INSTANCE UcxBcast

\* Element i of the root's buffer.
Element(root, i) == <<<<root, i>>>>

Case(name, loc, root, count, times, modes, stages(_)) ==
  [name |-> name,
   times |-> times,
   eager |-> modes,
   stages |-> [p \in DOMAIN loc |-> stages(p)],
   init |-> [p \in DOMAIN loc |->
               [x \in {"r"} \X (0..(count - 1)) |->
                  IF p = root THEN Element(root, x[2]) ELSE <<>>]],
   goal |-> [p \in DOMAIN loc |->
               [x \in {"r"} \X (0..(count - 1)) |-> Element(root, x[2])]],
   ordered |-> TRUE]

Algorithm(name, loc, p, root, count) ==
  LET S == DOMAIN loc
      cells == U!Cells("r", 0, count)
  IN  CASE name = "kntree" -> U!BcastKntreeOp(S, p, 3, root, FALSE, cells)
        [] name = "kntree_adjust" -> U!BcastKntreeOp(S, p, 2, root, TRUE, cells)
        [] name = "na_kntree" -> U!BcastNaKntree(loc, p, 2, 3, root, cells)
        [] name = "ring" -> U!BcastRing(S, p, root, cells)
        [] name = "van_de_geijn" -> U!BcastVanDeGeijn(S, p, root, count, FALSE)
        [] name = "van_de_geijn_batch" -> U!BcastVanDeGeijn(S, p, root, count, TRUE)
        [] name = "long" -> U!BcastLong(Cardinality(S), p, root, count, 2)
        [] name = "long_m" -> U!BcastLongModified(Cardinality(S), p, root, count)
        [] name = "inc_ring_m" ->
             U!BcastIncRing(Cardinality(S), p, root, U!IncHeads(Cardinality(S), root), cells)
        [] name = "inc_2_ring_m" ->
             U!BcastIncRing(Cardinality(S), p, root, U!Inc2Heads(Cardinality(S), root), cells)

Cases(t) ==
  {Case(name, t.loc, root, t.count, t.times, t.eager,
        LAMBDA p : Algorithm(name, t.loc, p, root, t.count)) :
     name \in t.names, root \in t.roots}

Row(names, loc, roots, count, times, modes) ==
  [names |-> names, loc |-> loc, roots |-> roots, count |-> count, times |-> times,
   eager |-> modes]

Geijn == {"van_de_geijn", "van_de_geijn_batch"}
Trees == {"kntree", "kntree_adjust", "na_kntree", "ring"}

\* Consecutive broadcasts, where the root may be far ahead of the others, and
\* one broadcast in larger groups, in the largest with sends that wait for their
\* match only. With 6 elements on 5 ranks two blocks of the van de Geijn
\* algorithm are empty. The long broadcast has neighbours on both sides in groups
\* of odd size; two rings need six members.
Rows == <<
  Row({"na_kntree", "ring"}, Lonely, {1}, 1, 3, BOOLEAN),
  Row(Trees, Lonely, {0, 1, 2}, 1, 2, BOOLEAN),
  Row(Geijn, Spread(2), {0, 1}, 3, 3, BOOLEAN),
  Row(Trees, Cyclic, 0..3, 1, 1, BOOLEAN),
  Row(Trees, Sockets, 0..3, 1, 1, BOOLEAN),
  Row(Trees, Large, {0, 4}, 1, 1, {FALSE}),
  Row(Geijn, Spread(4), {0, 3}, 6, 1, BOOLEAN),
  Row(Geijn, Spread(5), {2}, 6, 1, {FALSE}),
  Row({"long", "long_m", "inc_ring_m"}, Spread(2), {1}, 3, 2, BOOLEAN),
  Row({"long", "long_m", "inc_2_ring_m"}, Spread(3), {1}, 4, 1, BOOLEAN),
  Row({"long", "long_m"}, Spread(4), {3}, 6, 1, BOOLEAN),
  Row({"long", "long_m"}, Spread(5), {1}, 7, 1, {FALSE}),
  Row({"inc_ring_m"}, Spread(4), {2}, 1, 1, BOOLEAN),
  Row({"inc_2_ring_m"}, Spread(7), {3}, 1, 1, {FALSE})>>

Broadcasts == UNION {Cases(Rows[i]) : i \in DOMAIN Rows}
=============================================================================
