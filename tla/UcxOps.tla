------------------------------- MODULE UcxOps ------------------------------
(***************************************************************************)
(* Constructors and destructors of the operations of the UCX collectives,  *)
(* as tables of Lifecycle.  A plain operation comes from the pool of the   *)
(* context and may own arrays.  A meta operation is made of operations,    *)
(* one per level of the topology; "n" tells them apart, and "err" is what  *)
(* the caller releases when the operation cannot be had.  A rank that is   *)
(* not in the group of a level adds an empty operation, which owns nothing.*)
(***************************************************************************)
EXTENDS Steps, TLC

(* ucg_mpool_get, UCG_CLASS_CONSTRUCT: the start of every operation *)
plan_op(n, err) == << Get("op" \o n, err), Ask(<< Put("op" \o n) >> \o err) >>
plan_op_discard(n) == << Opt("op" \o n) >>

(***************************************************************************)
(* Plain operations                                                        *)
(***************************************************************************)
bcast_kntree_op_new(n, err)       == plan_op(n, err)
empty_op_new(n, err)              == plan_op(n, err)
fanin_kntree_op_new(n, err)       == plan_op(n, err)
barrier_rd_op_new(n, err)         == plan_op(n, err)
bcast_adjust_root_op_new(n, err)  == plan_op(n, err)

(* Proxy and base ranks of recursive doubling have a staging area. *)
allreduce_rd_op_new(n, err) ==
    plan_op(n, err) \o << Get("staging" \o n, << Put("op" \o n) >> \o err) >>
ucg_planc_ucx_op_discard(n) == << Opt("staging" \o n) >> \o plan_op_discard(n)

reduce_kntree_op_new(n, err) ==
    LET op == << Put("op" \o n) >> \o err
        staging == << Put("staging" \o n) >> \o op
    IN plan_op(n, err) \o
       << Get("staging" \o n, op), Get("requests" \o n, staging),
          Get("req_bitmap" \o n, << Put("requests" \o n) >> \o staging) >>
reduce_kntree_op_discard(n) ==
    << Opt("requests" \o n), Opt("req_bitmap" \o n) >> \o ucg_planc_ucx_op_discard(n)

allreduce_rabenseifner_common_op_init(n, op) ==
    LET si == << Put("send_index" \o n) >> \o op
        ri == << Put("recv_index" \o n) >> \o si
        sc == << Put("send_count" \o n) >> \o ri
        rc == << Put("recv_count" \o n) >> \o sc
    IN << Get("send_index" \o n, op), Get("recv_index" \o n, si), Get("send_count" \o n, ri),
          Get("recv_count" \o n, sc), Get("staging" \o n, rc) >>
allreduce_rabenseifner_common_op_discard(n) ==
    << Opt("recv_count" \o n), Opt("send_count" \o n), Opt("recv_index" \o n), Opt("send_index" \o n) >>
    \o ucg_planc_ucx_op_discard(n)
allreduce_reduce_scatter_op_new(n, err) ==
    plan_op(n, err) \o allreduce_rabenseifner_common_op_init(n, << Put("op" \o n) >> \o err)
allreduce_allgatherv_op_new(n, err) == allreduce_reduce_scatter_op_new(n, err)

allreduce_ring_op  == << Ask(<<>>) >> \o allreduce_rd_op_new("1", <<>>)
allreduce_rd_op    == allreduce_rd_op_new("1", <<>>)
reduce_kntree_op   == << Ask(<<>>) >> \o reduce_kntree_op_new("1", <<>>)
bcast_kntree_op    == bcast_kntree_op_new("1", <<>>)
allgatherv_bruck_op ==
    LET op == << Put("op1") >>
    IN plan_op("1", <<>>) \o
       << Get("new_cnt_displs1", op), Get("merged_cnt_displs1", << Put("new_cnt_displs1") >> \o op) >>
allgatherv_bruck_op_discard == Puts(<<"new_cnt_displs1", "merged_cnt_displs1", "op1">>)

(* A rank that is not the root needs two arrays; the second one's failure
   forgets the first. *)
scatterv_kntree_op ==
    LET op == << Put("op1") >>
    IN plan_op("1", <<>>) \o << Get("sendcounts1", op), Get("staging_displs1", op) >>
scatterv_kntree_op_discard ==
    << Opt("sendcounts1"), Opt("staging_displs1") >> \o ucg_planc_ucx_op_discard("1")

(* Operations that own nothing else; a check may refuse them first. *)
bcast_ring_op             == plan_op("1", <<>>)
bcast_inc_ring_m_op       == plan_op("1", <<>>)
bcast_inc_2_ring_m_op     == plan_op("1", <<>>)
bcast_long_op             == << Ask(<<>>) >> \o plan_op("1", <<>>)
bcast_long_m_op           == << Ask(<<>>) >> \o plan_op("1", <<>>)
bcast_van_de_geijn_op     == << Ask(<<>>) >> \o plan_op("1", <<>>)
gatherv_linear_op         == << Ask(<<>>) >> \o plan_op("1", <<>>)
scatterv_linear_op        == plan_op("1", <<>>)
allgatherv_linear_op      == plan_op("1", <<>>)
allgatherv_neighbor_op    == << Ask(<<>>) >> \o plan_op("1", <<>>)
allgatherv_ring_op        == plan_op("1", <<>>)
allgatherv_ring_hpl_op    == plan_op("1", <<>>)
scatterv_na_kntree_op     == << Ask(<<>>) >> \o plan_op("1", <<>>)

(***************************************************************************)
(* One execution of scatterv na_kntree and its buffers.  A leader of a node*)
(* gets the data of its subtree of nodes in the inter buffers and hands    *)
(* them on as its intra buffers; the rank at the root packs the data, and  *)
(* gives it to rank 0 when that is somebody else.                          *)
(***************************************************************************)
free_temp_buf           == << Opt("temp_displs"), Opt("temp_sendcounts") >>
free_adjust_root_params == << Opt("inter_sendcounts") >>
free_adjust_root_data   == << Opt("inter_sendbuf") >> \o free_adjust_root_params
free_inter_params       == << Opt("inter_sendcounts") >> \o free_adjust_root_data
free_inter_data         == free_temp_buf \o << Opt("inter_sendbuf") >> \o free_inter_params
free_intra_params(leader) ==
    << Opt(IF leader THEN "inter_sendcounts" ELSE "intra_sendcounts") >> \o free_inter_data
free_intra_data(leader) ==
    << Opt(IF leader THEN "inter_sendbuf" ELSE "intra_sendbuf") >> \o free_temp_buf
    \o free_intra_params(leader)

scatterv_na_kntree_op_trigger ==
    << Get("inter_sendbuf", <<>>), Ask(<<>>), Sure("inter_sendcounts") >>
adjust_root_params(first) ==
    (IF first THEN << Get("inter_sendcounts", free_adjust_root_params) >> ELSE <<>>)
    \o << Ask(free_adjust_root_params) >>
adjust_root_data(first) ==
    (IF first THEN << Get("inter_sendbuf", free_adjust_root_data) >> ELSE <<>>)
    \o << Ask(free_adjust_root_data) >>
    \o (IF first THEN <<>> ELSE << Opt("inter_sendbuf"), Opt("inter_sendcounts") >>)
inter_node_params(first) ==
    (IF first THEN <<>> ELSE << Get("inter_sendcounts", free_inter_params) >>)
    \o << Ask(free_inter_params) >>
inter_node_data(first) ==
    (IF first THEN <<>> ELSE << Get("inter_sendbuf", free_inter_data) >>)
    \o << Get("temp_sendcounts", free_inter_data), Get("temp_displs", free_inter_data),
          Ask(free_inter_data) >>
intra_node_params(leader) ==
    (IF leader THEN <<>> ELSE << Get("intra_sendcounts", free_intra_params(leader)) >>)
    \o << Ask(free_intra_params(leader)) >>
intra_node_data(leader) ==
    LET err == free_intra_data(leader)
    IN (IF leader THEN <<>> ELSE << Get("intra_sendbuf", err) >>)
       \o << Get("temp_sendcounts", err), Get("temp_displs", err), Ask(err) >>

scatterv_na_kntree_op_progress(leader, root, first) ==
    (IF root THEN scatterv_na_kntree_op_trigger ELSE <<>>)
    \o (IF root # first THEN adjust_root_params(first) \o adjust_root_data(first) ELSE <<>>)
    \o (IF leader THEN inter_node_params(first) \o inter_node_data(first) ELSE <<>>)
    \o intra_node_params(leader) \o intra_node_data(leader) \o free_intra_data(leader)

(* Rank 0 leads the first node. *)
ScattervRuns ==
    [ scatterv_root0  |-> Part(scatterv_na_kntree_op_progress(TRUE, TRUE, TRUE), <<>>),
      scatterv_rank0  |-> Part(scatterv_na_kntree_op_progress(TRUE, FALSE, TRUE), <<>>),
      scatterv_root_leader |-> Part(scatterv_na_kntree_op_progress(TRUE, TRUE, FALSE), <<>>),
      scatterv_root_member |-> Part(scatterv_na_kntree_op_progress(FALSE, TRUE, FALSE), <<>>),
      scatterv_leader |-> Part(scatterv_na_kntree_op_progress(TRUE, FALSE, FALSE), <<>>),
      scatterv_member |-> Part(scatterv_na_kntree_op_progress(FALSE, FALSE, FALSE), <<>>) ]

(***************************************************************************)
(* Levels of a meta operation: the group of the level is looked up, and    *)
(* created when it is first used, then the operation is added.  Whatever   *)
(* fails, the meta operation is discarded with what it has so far.         *)
(***************************************************************************)
DiscardAll(n) == reduce_kntree_op_discard(n) \o SubSeq(allreduce_rabenseifner_common_op_discard(n), 1, 4)
ucg_plan_meta_op_discard ==
    DiscardAll("1") \o DiscardAll("2") \o DiscardAll("3") \o DiscardAll("4") \o DiscardAll("5")
    \o DiscardAll("6") \o << Put("meta_op") >>
(* what the code does with a meta operation it cannot complete *)
discard_meta_op == << Put("discarded_meta_op") >>

ucg_plan_meta_op_new == << Get("meta_op", <<>>), Ask(Puts(<<"meta_op">>)) >>
topo_group(type) ==
    << CASE type = "NODE_LEADER"   -> Unless({"node_leader_ranks"}, Get("node_leader", discard_meta_op))
         [] type = "SUBNET_LEADER" -> Unless({"subnet_leader_ranks"}, Get("subnet_leader", discard_meta_op))
         [] OTHER                  -> Ask(discard_meta_op) >>
algo_group(map, group) == << Unless({map}, Get(group, discard_meta_op)) >>

barrier_add_fanin_kntree_op(n, type)  == topo_group(type) \o fanin_kntree_op_new(n, discard_meta_op)
barrier_add_barrier_rd_op(n, type)    == topo_group(type) \o barrier_rd_op_new(n, discard_meta_op)
barrier_add_fanout_kntree_op(n, type) == topo_group(type) \o bcast_kntree_op_new(n, discard_meta_op)
bcast_add_adjust_root_op(n)              == bcast_adjust_root_op_new(n, discard_meta_op)
bcast_add_topo_group_kntree_op(n, type)  == topo_group(type) \o bcast_kntree_op_new(n, discard_meta_op)
allreduce_add_reduce_kntree_op(n, type)  == topo_group(type) \o reduce_kntree_op_new(n, discard_meta_op)
allreduce_add_allreduce_rd_op(n, type)   == topo_group(type) \o allreduce_rd_op_new(n, discard_meta_op)
allreduce_add_bcast_kntree_op(n, type)   == topo_group(type) \o bcast_kntree_op_new(n, discard_meta_op)
allreduce_add_reduce_scatter_op(n, type) ==
    topo_group(type) \o allreduce_reduce_scatter_op_new(n, discard_meta_op)
allreduce_add_allgatherv_op(n, type) ==
    topo_group(type) \o allreduce_allgatherv_op_new(n, discard_meta_op)
(* In a group of leaders; there is none when the group could not be made. *)
allreduce_add_allreduce_op(n) ==
    << Ask(discard_meta_op) >> \o allreduce_rd_op_new(n, discard_meta_op)

(* Four arrays that are only needed for the computation *)
allreduce_get_rd_args ==
    LET err == discard_meta_op
        s1  == << Put("sindex") >> \o err
        s2  == << Put("rindex") >> \o s1
        s3  == << Put("scount") >> \o s2
    IN << Ask(err), Get("sindex", err), Get("rindex", s1), Get("scount", s2), Get("rcount", s3) >>
       \o Puts(<<"rcount", "scount", "rindex", "sindex">>)

(***************************************************************************)
(* Meta operations                                                         *)
(***************************************************************************)
Meta(levels) == << Ask(<<>>) >> \o ucg_plan_meta_op_new \o levels

barrier_na_kntree == Meta(
    barrier_add_fanin_kntree_op("1", "NODE") \o barrier_add_fanin_kntree_op("2", "NODE_LEADER") \o
    barrier_add_fanout_kntree_op("3", "NODE_LEADER") \o barrier_add_fanout_kntree_op("4", "NODE"))
barrier_na_rd_and_kntree == Meta(
    barrier_add_fanin_kntree_op("1", "NODE") \o barrier_add_barrier_rd_op("2", "NODE_LEADER") \o
    barrier_add_fanout_kntree_op("3", "NODE"))
barrier_na_rd_and_bntree == barrier_na_rd_and_kntree
barrier_sa_kntree == Meta(
    barrier_add_fanin_kntree_op("1", "SOCKET") \o barrier_add_fanin_kntree_op("2", "SOCKET_LEADER") \o
    barrier_add_fanin_kntree_op("3", "NODE_LEADER") \o barrier_add_fanout_kntree_op("4", "NODE_LEADER") \o
    barrier_add_fanout_kntree_op("5", "SOCKET_LEADER") \o barrier_add_fanout_kntree_op("6", "SOCKET"))
barrier_sa_rd_and_kntree == Meta(
    barrier_add_fanin_kntree_op("1", "SOCKET") \o barrier_add_fanin_kntree_op("2", "SOCKET_LEADER") \o
    barrier_add_barrier_rd_op("3", "NODE_LEADER") \o
    barrier_add_fanout_kntree_op("4", "SOCKET_LEADER") \o barrier_add_fanout_kntree_op("5", "SOCKET"))
barrier_sa_rd_and_bntree == barrier_sa_rd_and_kntree

(* The node-aware trees set root_adjust in the configuration of the context
   while they are built; the error label does not set it back. *)
RootAdjusted(levels) == << Sure("root_adjust") >> \o levels \o << Put("root_adjust") >>
bcast_na_kntree == Meta(RootAdjusted(
    bcast_add_adjust_root_op("1") \o bcast_add_topo_group_kntree_op("2", "NODE_LEADER") \o
    bcast_add_topo_group_kntree_op("3", "NODE")))
bcast_nta_kntree == ucg_plan_meta_op_new \o RootAdjusted(
    bcast_add_adjust_root_op("1") \o bcast_add_topo_group_kntree_op("2", "SUBNET_LEADER") \o
    bcast_add_topo_group_kntree_op("3", "SUBNET"))

allreduce_na_kntree == Meta(
    allreduce_add_reduce_kntree_op("1", "NODE") \o allreduce_add_reduce_kntree_op("2", "NODE_LEADER") \o
    allreduce_add_bcast_kntree_op("3", "NODE_LEADER") \o allreduce_add_bcast_kntree_op("4", "NODE"))
allreduce_na_rd_and_kntree == Meta(
    allreduce_add_reduce_kntree_op("1", "NODE") \o allreduce_add_allreduce_rd_op("2", "NODE_LEADER") \o
    allreduce_add_bcast_kntree_op("3", "NODE"))
allreduce_na_rd_and_bntree == allreduce_na_rd_and_kntree
allreduce_sa_kntree == Meta(
    allreduce_add_reduce_kntree_op("1", "SOCKET") \o allreduce_add_reduce_kntree_op("2", "SOCKET_LEADER") \o
    allreduce_add_reduce_kntree_op("3", "NODE_LEADER") \o allreduce_add_bcast_kntree_op("4", "NODE_LEADER") \o
    allreduce_add_bcast_kntree_op("5", "SOCKET_LEADER") \o allreduce_add_bcast_kntree_op("6", "SOCKET"))
allreduce_sa_rd_and_kntree == Meta(
    allreduce_add_reduce_kntree_op("1", "SOCKET") \o allreduce_add_reduce_kntree_op("2", "SOCKET_LEADER") \o
    allreduce_add_allreduce_rd_op("3", "NODE_LEADER") \o
    allreduce_add_bcast_kntree_op("4", "SOCKET_LEADER") \o allreduce_add_bcast_kntree_op("5", "SOCKET"))
allreduce_sa_rd_and_bntree == allreduce_sa_rd_and_kntree
allreduce_nta_kntree == Meta(
    allreduce_add_reduce_kntree_op("1", "SUBNET") \o allreduce_add_allreduce_rd_op("2", "SUBNET_LEADER") \o
    allreduce_add_bcast_kntree_op("3", "SUBNET"))

allreduce_rabenseifner == Meta(
    allreduce_add_reduce_scatter_op("1", "NET") \o allreduce_add_allgatherv_op("2", "NET"))
allreduce_na_rabenseifner == Meta(
    allreduce_add_reduce_scatter_op("1", "NODE") \o allreduce_get_rd_args \o
    algo_group("node_leader_map", "leaders_of_nodes") \o allreduce_add_allreduce_op("2") \o
    allreduce_add_allgatherv_op("3", "NODE"))
allreduce_sa_rabenseifner == Meta(
    allreduce_add_reduce_scatter_op("1", "SOCKET") \o allreduce_get_rd_args \o
    algo_group("socket_leader_map", "leaders_of_sockets") \o allreduce_add_allreduce_op("2") \o
    algo_group("node_leader_map", "leaders_of_nodes") \o allreduce_add_allreduce_op("3") \o
    allreduce_add_allgatherv_op("4", "SOCKET"))

(* The two operations own, and free, the arrays of their arguments. *)
rolling_op_discard(displs, counts, n) == << Opt(displs), Opt(counts) >> \o plan_op_discard(n)
rolling_discard == rolling_op_discard("inter_displs", "inter_recvcounts", "1") \o << Put("meta_op") >>
allgatherv_add_rolling_inter_op(err) ==
    LET displs == << Put("inter_displs") >> \o err
    IN << Ask(err), Get("inter_displs", err), Get("inter_recvcounts", displs) >>
       \o plan_op("1", << Put("inter_recvcounts") >> \o displs)
allgatherv_add_rolling_intra_op(err) == << Ask(err) >> \o plan_op("2", err)
(* A rank without a location leaves the array; the caller ignores it. *)
allgatherv_na_rolling_get_global_ranks == << Get("temp_nodes", <<>>), Ask(<<>>), Put("temp_nodes") >>

allgatherv_na_rolling ==
    LET ranks  == Puts(<<"rolling_ranks">>)
        displs == Puts(<<"temp_displs">>) \o ranks
        err    == rolling_discard \o Puts(<<"temp_recvcounts">>) \o displs
    IN << Ask(<<>>) >> \o ucg_plan_meta_op_new \o
       << Get("rolling_ranks", <<>>), Get("temp_displs", ranks), Get("temp_recvcounts", displs) >> \o
       << Try("na_rolling_ranks"), Unless({"node_leader_map"}, Get("leaders_of_nodes_only", err)) >> \o
       allgatherv_add_rolling_inter_op(err) \o allgatherv_add_rolling_intra_op(err) \o ranks
allgatherv_na_rolling_discard ==
    rolling_op_discard("temp_displs", "temp_recvcounts", "2") \o rolling_discard

(***************************************************************************)
(* The operations, each the child of a group                               *)
(***************************************************************************)
MetaOps ==
    [ barrier_na_kntree         |-> barrier_na_kntree,
      barrier_na_rd_and_kntree  |-> barrier_na_rd_and_kntree,
      barrier_sa_kntree         |-> barrier_sa_kntree,
      barrier_sa_rd_and_kntree  |-> barrier_sa_rd_and_kntree,
      bcast_na_kntree           |-> bcast_na_kntree,
      bcast_nta_kntree          |-> bcast_nta_kntree,
      allreduce_na_kntree       |-> allreduce_na_kntree,
      allreduce_na_rd_and_kntree |-> allreduce_na_rd_and_kntree,
      allreduce_sa_kntree       |-> allreduce_sa_kntree,
      allreduce_sa_rd_and_kntree |-> allreduce_sa_rd_and_kntree,
      allreduce_nta_kntree      |-> allreduce_nta_kntree,
      allreduce_rabenseifner    |-> allreduce_rabenseifner,
      allreduce_na_rabenseifner |-> allreduce_na_rabenseifner,
      allreduce_sa_rabenseifner |-> allreduce_sa_rabenseifner ]

PlainOps ==
    [ bcast_ring |-> bcast_ring_op, bcast_inc_ring_m |-> bcast_inc_ring_m_op,
      bcast_inc_2_ring_m |-> bcast_inc_2_ring_m_op, bcast_long |-> bcast_long_op,
      bcast_long_m |-> bcast_long_m_op, bcast_van_de_geijn |-> bcast_van_de_geijn_op,
      bcast_kntree |-> bcast_kntree_op, gatherv_linear |-> gatherv_linear_op,
      scatterv_linear |-> scatterv_linear_op, allgatherv_linear |-> allgatherv_linear_op,
      allgatherv_neighbor |-> allgatherv_neighbor_op, allgatherv_ring |-> allgatherv_ring_op,
      allgatherv_ring_hpl |-> allgatherv_ring_hpl_op, scatterv_na_kntree |-> scatterv_na_kntree_op,
      allreduce_ring |-> allreduce_ring_op, allreduce_rd |-> allreduce_rd_op ]

UcxOpParts ==
    [o \in DOMAIN PlainOps |-> Part(PlainOps[o], ucg_planc_ucx_op_discard("1"))] @@
    [o \in DOMAIN MetaOps |-> Part(MetaOps[o], discard_meta_op)] @@
    [ discarded_meta_op     |-> Part(<<>>, ucg_plan_meta_op_discard) ] @@
    [ reduce_kntree         |-> Part(reduce_kntree_op, reduce_kntree_op_discard("1")),
      allgatherv_bruck      |-> Part(allgatherv_bruck_op, allgatherv_bruck_op_discard),
      na_rolling_ranks      |-> Part(allgatherv_na_rolling_get_global_ranks, <<>>),
      scatterv_kntree       |-> Part(scatterv_kntree_op, scatterv_kntree_op_discard),
      allgatherv_na_rolling |-> Part(allgatherv_na_rolling, allgatherv_na_rolling_discard) ]
=============================================================================
