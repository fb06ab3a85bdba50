-------------------------------- MODULE Topo --------------------------------
(***************************************************************************)
(* The topology groups of a process: which ranks a group of each type has, *)
(* and whether the process takes part. Source: core/ucg_topo.c.            *)
(*                                                                         *)
(* loc[r] = [node |-> ..., socket |-> ...] is the location of rank r; every*)
(* rank has both ids (otherwise the group is in the error state and the    *)
(* algorithms that need it are not used).                                  *)
(***************************************************************************)
EXTENDS Integers, FiniteSets

\* UCG_TOPO_GROUP_LEADER
LEADER == 0

NodeMates(loc, p) == {r \in DOMAIN loc : loc[r].node = loc[p].node}

\* The first rank of S with each id (the leader filter).
Leaders(S, id) == {r \in S : \A q \in S : q < r => id[q] # id[r]}

\* The members of p's group of a type, in rank order. The socket groups are
\* built on the node group: socket ids are local to a node.
TopoMembers(loc, type, p) ==
  LET node == [r \in DOMAIN loc |-> loc[r].node]
      socket == [r \in DOMAIN loc |-> loc[r].socket]
  IN  CASE type = "NET" -> DOMAIN loc
        [] type = "NODE" -> NodeMates(loc, p)
        [] type = "NODE_LEADER" -> Leaders(DOMAIN loc, node)
        [] type = "SOCKET" -> {r \in NodeMates(loc, p) : socket[r] = socket[p]}
        [] type = "SOCKET_LEADER" -> Leaders(NodeMates(loc, p), socket)

\* UCG_TOPO_GROUP_STATE_ENABLE: the others are disabled, and replaced by an
\* empty op. A disabled node group disables the socket groups.
TopoEnabled(loc, type, p) ==
  /\ p \in TopoMembers(loc, type, p)
  /\ Cardinality(TopoMembers(loc, type, p)) > 1
  /\ type \in {"SOCKET", "SOCKET_LEADER"} => Cardinality(NodeMates(loc, p)) > 1

\* The rank map of a group: its members in increasing order.
VRank(S, r) == Cardinality({q \in S : q < r})
RankAt(S, v) == CHOOSE r \in S : VRank(S, r) = v
=============================================================================
