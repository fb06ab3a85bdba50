------------------------------ MODULE MCPlaces ------------------------------
(* Placements of the ranks for the model checking of the collectives. *)
EXTENDS Integers, Sequences

\* The node and the socket of each rank.
Place(nodes, sockets) ==
  [r \in 0..(Len(nodes) - 1) |-> [node |-> nodes[r + 1], socket |-> sockets[r + 1]]]

\* One node; two nodes, one of them with a single rank; ranks dealt out to the
\* nodes in turn; two sockets on a node and a node alone; a node with a tree of
\* depth two; two nodes with two ranks each, in rank order and in turn; one node
\* with two sockets, in turn; two nodes of an odd size; every rank on a node of
\* its own.
OneNode == Place(<<0, 0, 0>>, <<0, 0, 1>>)
Lonely == Place(<<0, 0, 1>>, <<0, 0, 0>>)
Cyclic == Place(<<0, 1, 0, 1>>, <<0, 0, 1, 0>>)
Sockets == Place(<<0, 0, 0, 1>>, <<0, 1, 1, 0>>)
Large == Place(<<0, 0, 0, 0, 1, 2>>, <<0, 1, 1, 1, 0, 0>>)
TwoNodes == Place(<<0, 0, 1, 1>>, <<0, 0, 0, 0>>)
Cyclic2 == Place(<<0, 1, 0, 1>>, <<0, 0, 1, 1>>)
OneNode2 == Place(<<0, 0, 0, 0>>, <<0, 1, 0, 1>>)
Odd == Place(<<0, 0, 0, 1, 1, 1>>, <<0, 0, 0, 0, 0, 0>>)
Spread(n) == Place([i \in 1..n |-> i], [i \in 1..n |-> 0])
=============================================================================
