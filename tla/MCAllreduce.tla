----------------------------- MODULE MCAllreduce -----------------------------
(* Allreduce on small groups: an algorithm, a placement, a count, in place *)
(* or not.                                                                 *)
EXTENDS FiniteSets, MCPlaces

U == INSTANCE UcxAllreduce

Contribution(p, i) == <<<<p, i>>>>
Garbage == <<<<-1, -1>>>>

\* All contributions to element i, in rank order.
Total(n, i) == [k \in 1..n |-> <<k - 1, i>>]

\* A parent in a tree keeps the contributions of its children apart.
Trees == {"na_kntree", "na_rd_bntree", "sa_kntree", "sa_rd_bntree"}

Case(name, loc, count, times, inplace, modes, stages(_)) ==
  LET n == Cardinality(DOMAIN loc)
      own == IF inplace THEN "r" ELSE "s"
      staged == IF name \in Trees THEN n * count ELSE count
      memory == ({"s", "r"} \X (0..(count - 1))) \cup ({"t"} \X (0..(staged - 1)))
  IN  [name |-> name,
       times |-> times,
       eager |-> modes,
       stages |-> [p \in DOMAIN loc |-> stages(p)],
       init |-> [p \in DOMAIN loc |->
                   [x \in memory |-> IF x[1] = own THEN Contribution(p, x[2]) ELSE Garbage]],
       goal |-> [p \in DOMAIN loc |-> [x \in {"r"} \X (0..(count - 1)) |-> Total(n, x[2])]],
       ordered |-> name = "rd"]

Algorithm(name, loc, p, count, inplace) ==
  CASE name = "rd" -> U!AllreduceRdOp(DOMAIN loc, p, count, inplace)
    [] name = "ring" -> U!AllreduceRing(DOMAIN loc, p, count, inplace)
    [] name = "rabenseifner" -> U!AllreduceRabenseifner(loc, p, count, inplace)
    [] name = "na_rabenseifner" -> U!AllreduceNaRabenseifner(loc, p, count, inplace)
    [] name = "sa_rabenseifner" -> U!AllreduceSaRabenseifner(loc, p, count, inplace)
    [] name = "na_kntree" -> U!AllreduceNaKntree(loc, p, U!Degrees(2, 3, 3, 2), count, inplace)
    [] name = "na_rd_bntree" -> U!AllreduceNaRdAndBntree(loc, p, count, inplace)
    [] name = "sa_kntree" -> U!AllreduceSaKntree(loc, p, U!Degrees(3, 2, 2, 3), count, inplace)
    [] name = "sa_rd_bntree" -> U!AllreduceSaRdAndBntree(loc, p, count, inplace)

Row(names, loc, count, times, modes) ==
  [names |-> names, loc |-> loc, count |-> count, times |-> times, eager |-> modes,
   inplace |-> BOOLEAN]

Cases(t) ==
  {Case(name, t.loc, t.count, t.times, inplace, t.eager,
        LAMBDA p : Algorithm(name, t.loc, p, t.count, inplace)) :
     name \in t.names, inplace \in t.inplace}

\* Consecutive operations that overlap, and one operation in larger groups,
\* with blocks of different sizes; in the largest only the sends that wait for
\* their match are tried.  A member alone copies its data; in place the code
\* never sets the status it then returns (allreduce_ring.c:119), so that case
\* is left out.
Rows == <<
  Row({"rd"}, Spread(2), 1, 2, BOOLEAN), Row({"rd"}, Spread(3), 1, 2, BOOLEAN),
  Row({"ring", "rabenseifner"}, Spread(2), 2, 2, BOOLEAN),
  [Row({"ring"}, Spread(1), 1, 2, BOOLEAN) EXCEPT !.inplace = {FALSE}],
  Row(Trees, Lonely, 1, 2, BOOLEAN),
  Row({"rd"}, Spread(4), 1, 1, BOOLEAN), Row({"rd"}, Spread(5), 1, 1, BOOLEAN),
  Row({"rd"}, Spread(6), 1, 1, {FALSE}),
  Row({"ring"}, Spread(3), 5, 1, BOOLEAN),
  Row({"rabenseifner"}, Spread(3), 5, 1, BOOLEAN), Row({"rabenseifner"}, Spread(4), 5, 1, BOOLEAN),
  Row({"rabenseifner"}, Spread(5), 5, 1, {FALSE}),
  Row(Trees, Cyclic, 1, 1, BOOLEAN), Row(Trees, Sockets, 1, 1, BOOLEAN),
  Row({"na_rabenseifner"}, TwoNodes, 4, 1, {FALSE}), Row({"na_rabenseifner"}, Cyclic2, 4, 1, {FALSE}),
  Row({"sa_rabenseifner"}, OneNode2, 4, 1, {FALSE}), Row({"sa_rabenseifner"}, TwoNodes, 4, 1, {FALSE}),
  [Row({"na_rabenseifner"}, Odd, 6, 1, {FALSE}) EXCEPT !.inplace = {FALSE}]>>

Allreduces == UNION {Cases(Rows[i]) : i \in DOMAIN Rows}
=============================================================================
