---------------------------- MODULE MCPlanChoice ----------------------------
(***************************************************************************)
(* Groups and calls for TLC: every level of nodes and processes on a node  *)
(* with even and uneven nodes and sockets, and every border of the policy  *)
(* tables as a message size, exact and one element above.                  *)
(***************************************************************************)
EXTENDS PlanChoice

MCRoot == 1
MCMembers == {1, 2}

\* ppn processes on each of nnode nodes, on one socket or on two.
Even(nnode, ppn, two) ==
    [n \in 1 .. nnode |-> IF two THEN <<ppn \div 2, ppn - ppn \div 2>> ELSE <<ppn>>]

\* The first node has one process more.
Uneven(nnode, ppn) == [n \in 1 .. nnode |-> IF n = 1 THEN <<ppn, 1>> ELSE <<ppn, 0>>]

Group(sockets, known, continuous) ==
    [sockets |-> sockets, known |-> known, continuous |-> continuous]

NodeCount == {1, 4, 5, 9, 17}
ProcessCount == {1, 2, 5, 8, 16, 32, 64, 65}

MCGroups ==
    {Group(Even(n, p, two), "sockets", TRUE) : n \in NodeCount, p \in ProcessCount, two \in BOOLEAN}
    \cup {Group(Uneven(n, p), "sockets", TRUE) : n \in NodeCount \ {1}, p \in ProcessCount}
    \cup {Group(Even(n, p, FALSE), "nodes", FALSE) : n \in NodeCount, p \in ProcessCount}
    \cup {Group(Even(1, p, FALSE), "nothing", TRUE) : p \in {2, 3, 256}}

Config(d, c, s, u) == [default |-> d, consistency |-> c, stars |-> s, user |-> u]

MCConfigs ==
    {Config(d, FALSE, s, {}) : d \in BOOLEAN, s \in BOOLEAN}
    \cup {Config(TRUE, FALSE, FALSE, {id}) : id \in {3, 8, 14}}
    \cup {Config(TRUE, TRUE, FALSE, {13})}

\* The borders of the tables.
Borders == {0} \cup {2 ^ i : i \in 3 .. 20}

Same(coll, a) == [coll |-> coll, args |-> [m \in Members |-> a]]

Args(dt, count, commutative) ==
    [dt |-> dt, count |-> count, own |-> count, commutative |-> commutative]

\* The counts with which a message has s bytes, or one byte more.
Counts(dt, s) == {s \div dt} \cup (IF dt = 1 THEN {s + 1} ELSE {})

\* Calls in which the members pass the same count and type.
SameArgs ==
    UNION {{Same(c, Args(dt, n, o)) :
              c \in {"bcast", "allreduce"}, n \in Counts(dt, s), o \in BOOLEAN} :
           dt \in {1, 64}, s \in Borders}
    \cup {Same(c, Args(8, 16, o)) : c \in {"barrier", "scatterv", "gatherv", "reduce"}, o \in BOOLEAN}

\* Calls in which the members' own blocks differ.
OwnArgs ==
    UNION {{[coll |-> c, args |-> [m \in Members |->
               [Args(1, n, TRUE) EXCEPT !.own = IF m = Root THEN n ELSE 0]]] :
              c \in {"allgatherv", "alltoallv"}, n \in Counts(1, s)} :
           s \in Borders}

MCCalls(g) == SameArgs \cup OwnArgs
=============================================================================
