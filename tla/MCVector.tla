------------------------------ MODULE MCVector ------------------------------
(* The collectives that move data without computing: the broadcasts of     *)
(* MCBcast, allgatherv and scatterv. An allgatherv or a scatterv is an     *)
(* algorithm, a placement, a layout of the blocks, in place or not.        *)
EXTENDS MCBcast

A == INSTANCE UcxAllgatherv
R == INSTANCE MCAllreduce
V == INSTANCE UcxScatterv

Garbage == <<<<-1, -1>>>>

\* Layouts of blocks with the given counts: one after the other, with gaps,
\* and in reverse order.
Offsets(counts, gap) ==
  [b \in 0..(Len(counts) - 1) |-> gap * b + FoldLeft(LAMBDA x, y : x + y, 0, SubSeq(counts, 1, b))]
Counts(counts) == [b \in 0..(Len(counts) - 1) |-> counts[b + 1]]
Packed(counts) == [count |-> Counts(counts), displ |-> Offsets(counts, 0)]
Gapped(counts) == [count |-> Counts(counts), displ |-> Offsets(counts, 1)]
Reversed(counts) ==
  LET n == Len(counts)
      back == Offsets(Reverse(counts), 0)
  IN  [count |-> Counts(counts), displ |-> [b \in 0..(n - 1) |-> back[n - 1 - b]]]

\* The layouts of the members: all the same, or packed on one of them only.
Same(v) == [p \in DOMAIN v.count |-> v]
Mixed(counts) ==
  [p \in 0..(Len(counts) - 1) |-> IF p = 0 THEN Packed(counts) ELSE Gapped(counts)]

Area(name, size) == {name} \X (0..(size - 1))
BlockOf(area, v, b) == {<<area, v.displ[b] + i>> : i \in 0..(v.count[b] - 1)}
Blocks(area, v) == UNION {BlockOf(area, v, b) : b \in DOMAIN v.count}
Extent(v) == Max({v.displ[b] + v.count[b] : b \in DOMAIN v.count})

\* The element that belongs into a cell of a layout.
InBlock(area, v, x) ==
  LET b == CHOOSE b \in DOMAIN v.count : x \in BlockOf(area, v, b)
  IN  Element(b, x[2] - v.displ[b])

-----------------------------------------------------------------------------
Allgatherv(name, loc, p, v, inplace) ==
  LET n == Cardinality(DOMAIN loc)
  IN  CASE name = "ring" -> A!AllgathervRing(n, p, v, inplace)
        [] name = "ring_hpl" -> A!AllgathervRingHpl(n, p, v, inplace)
        [] name = "linear" -> A!AllgathervLinear(n, p, v, inplace)
        [] name = "bruck" -> A!AllgathervBruck(n, p, v, inplace)
        [] name = "neighbor" -> A!AllgathervNeighbor(n, p, v, inplace)
        [] name = "na_rolling" -> A!AllgathervNaRolling(loc, p, v, inplace)

Supported(name, loc) ==
  /\ name = "neighbor" => A!NeighborSupported(Cardinality(DOMAIN loc))
  /\ name = "na_rolling" => A!NaRollingSupported(loc)

\* layout[p] is the layout member p passes; the counts are the same.
GatherCase(name, loc, layout, inplace, times, modes) ==
  [name |-> name,
   times |-> times,
   eager |-> modes,
   stages |-> [p \in DOMAIN loc |-> Allgatherv(name, loc, p, layout[p], inplace)],
   init |-> [p \in DOMAIN loc |->
               [x \in Area("s", layout[p].count[p]) \cup Area("r", Extent(layout[p])) |->
                  IF x[1] = "s" /\ ~inplace THEN Element(p, x[2])
                  ELSE IF x \in BlockOf("r", layout[p], p) /\ inplace
                  THEN InBlock("r", layout[p], x)
                  ELSE Garbage]],
   goal |-> [p \in DOMAIN loc |->
               [x \in Blocks("r", layout[p]) |-> InBlock("r", layout[p], x)]],
   ordered |-> TRUE]

GatherCases(t) ==
  {GatherCase(name, t.loc, layout, inplace, t.times, t.eager) :
     name \in {m \in t.names : Supported(m, t.loc)}, layout \in t.layouts, inplace \in t.inplace}

-----------------------------------------------------------------------------
\* Two consecutive ranks on each node.
Pairs(n) == [r \in 0..(n - 1) |-> [node |-> r \div 2, socket |-> 0]]

\* A parameter cell as the root knows it.
Param(i) == <<<<-2, i>>>>

Scatterv(name, n, p, root, v, inplace, first) ==
  CASE name = "linear" -> V!ScattervLinear(n, p, root, v, inplace, FALSE)
    [] name = "linear_batch" -> V!ScattervLinear(n, p, root, v, inplace, TRUE)
    [] name = "kntree" -> V!ScattervKntree(n, p, 2, root, v, inplace, first)
    [] name = "na_kntree" -> V!ScattervNaKntree(Pairs(n), p, 2, 2, root, v)

\* In a later start of a request all members know the parameters.
ScatterCase(name, n, root, v, inplace, first, times, modes) ==
  LET Memory(p) == UNION {Area("c", 2), Area("r", v.count[p]), Area("t", Extent(v)),
                          Area("s", IF p = root THEN Extent(v) ELSE 0)}
  IN  [name |-> name,
       times |-> times,
       eager |-> modes,
       stages |-> [p \in 0..(n - 1) |-> Scatterv(name, n, p, root, v, inplace, first)],
       init |-> [p \in 0..(n - 1) |->
                   [x \in Memory(p) |->
                      IF x[1] = "c" /\ (p = root \/ ~first) THEN Param(x[2])
                      ELSE IF x \in Blocks("s", v) THEN InBlock("s", v, x)
                      ELSE Garbage]],
       goal |-> [p \in 0..(n - 1) |->
                   [x \in (IF inplace /\ p = root THEN {} ELSE Area("r", v.count[p]))
                            \cup (IF name \in {"kntree", "na_kntree"} THEN Area("c", 2) ELSE {}) |->
                      IF x[1] = "c" THEN Param(x[2]) ELSE Element(p, x[2])]],
       ordered |-> TRUE]

ScatterCases(t) ==
  {ScatterCase(name, t.n, root, t.layout, inplace, t.first, t.times, t.eager) :
     name \in t.names, root \in t.roots, inplace \in t.inplace}

-----------------------------------------------------------------------------
Gathers == {"ring", "ring_hpl", "linear", "bruck", "neighbor", "na_rolling"}
ThreeNodes == Place(<<0, 1, 2, 0, 1, 2>>, <<0, 0, 0, 0, 0, 0>>)
Ones == <<1, 1, 1, 1, 1, 1>>

GatherRow(names, loc, layouts, inplace, times, modes) ==
  [names |-> names, loc |-> loc, layouts |-> layouts, inplace |-> inplace,
   times |-> times, eager |-> modes]
ScatterRow(names, n, roots, layout, inplace, first, times, modes) ==
  [names |-> names, n |-> n, roots |-> roots, layout |-> layout, inplace |-> inplace,
   first |-> first, times |-> times, eager |-> modes]

\* Consecutive calls that overlap in small groups, larger groups once. In the
\* largest groups only the sends that wait for their match are tried.
GatherRows == <<
  GatherRow(Gathers, Spread(2), {Same(Packed(<<1, 2>>))}, BOOLEAN, 3, BOOLEAN),
  GatherRow(Gathers, Spread(3), {Same(Packed(<<1, 0, 2>>)), Same(Reversed(<<1, 2, 1>>))},
            {FALSE}, 1, BOOLEAN),
  GatherRow({"bruck"}, Spread(4), {Same(Gapped(<<1, 1, 0, 2>>)), Same(Packed(<<1, 1, 0, 2>>))},
            {TRUE}, 1, BOOLEAN),
  GatherRow({"ring", "ring_hpl", "neighbor"}, Spread(4), {Mixed(<<1, 1, 0, 2>>)},
            {TRUE}, 1, BOOLEAN),
  GatherRow({"na_rolling"}, Cyclic, {Mixed(<<1, 1, 2, 1>>)}, {FALSE}, 1, BOOLEAN),
  GatherRow({"bruck", "ring_hpl"}, Spread(5), {Same(Packed(<<1, 1, 1, 1, 1>>))},
            {FALSE}, 1, BOOLEAN),
  GatherRow({"neighbor"}, Spread(6), {Same(Packed(Ones))}, {FALSE}, 1, {FALSE}),
  GatherRow({"na_rolling"}, ThreeNodes, {Same(Packed(Ones))}, {FALSE}, 1, {FALSE})>>

ScatterRows == <<
  ScatterRow({"linear", "linear_batch"}, 3, 0..2, Gapped(<<1, 0, 2>>), {FALSE}, TRUE, 2, BOOLEAN),
  ScatterRow({"kntree"}, 3, 0..2, Gapped(<<1, 0, 2>>), BOOLEAN, FALSE, 2, BOOLEAN),
  ScatterRow({"kntree"}, 4, {1}, Reversed(<<1, 2, 0, 1>>), {FALSE}, TRUE, 1, BOOLEAN),
  ScatterRow({"kntree"}, 6, {0, 4}, Packed(<<1, 2, 0, 1, 1, 2>>), {TRUE}, TRUE, 1, {FALSE}),
  ScatterRow({"na_kntree"}, 4, 0..3, Gapped(<<1, 2, 0, 1>>), {FALSE}, TRUE, 1, BOOLEAN),
  ScatterRow({"na_kntree"}, 6, {3}, Packed(<<1, 2, 0, 1, 1, 2>>), {FALSE}, TRUE, 1, {FALSE})>>

DataMoves ==
  UNION {Broadcasts,
         UNION {GatherCases(GatherRows[i]) : i \in DOMAIN GatherRows},
         UNION {ScatterCases(ScatterRows[i]) : i \in DOMAIN ScatterRows}}

AllCollectives == DataMoves \cup R!Allreduces
=============================================================================
