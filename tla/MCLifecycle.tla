---------------------------- MODULE MCLifecycle ----------------------------
(***************************************************************************)
(* The library's objects for TLC: which of them the application begins and *)
(* ends, inside which other, what each may leave to its parent, and what   *)
(* is known to go wrong, resource by resource.                             *)
(***************************************************************************)
EXTENDS Lifecycle, CoreObjects, UcxObjects, UcxOps, HcclObjects, StarsObjects, CommObjects

AllObjects == CoreParts @@ UcxParts @@ UcxOpParts @@ ScattervRuns @@ HcclParts @@ StarsParts @@ CommParts

UcxOpRoots == DOMAIN UcxOpParts \ {"na_rolling_ranks", "discarded_meta_op"}
LeaderUses == {"use_node_leaders", "use_subnet_leaders", "use_leaders_of_nodes", "use_leaders_of_sockets"}
HcclUses   == {"hccl_gatherv", "hccl_scatterv"}
GroupUses  == UcxOpRoots \cup LeaderUses \cup {"ucx_ep", "stars_op", "hccl_op"}

ParentOf ==
    [o \in GroupUses |-> "ucg_group"] @@ [o \in DOMAIN ScattervRuns |-> "scatterv_na_kntree"] @@ [o \in HcclUses |-> "hccl_op"] @@
    [ucg_global |-> "none", ucg_config |-> "ucg_global", ucg_context |-> "ucg_config",
     ucg_group |-> "ucg_context", proc_info |-> "ucg_context"]

NeededBy ==
    [o \in UcxOpRoots \cup LeaderUses \cup {"ucx_ep"} |-> {"ucx_grp"}] @@ [stars_op |-> {"stars_grp"}] @@
    [o \in HcclUses \cup {"hccl_op"} |-> {"hccl_grp"}] @@ [o \in DOMAIN ParentOf |-> {}]

(* What is made on first use stays: leaders with the group, endpoints and
   addresses with the context, the driver with the process. *)
Leaders  == {"node_leader_ranks", "subnet_leader_ranks", "node_leader_map", "socket_leader_map"}
StarsEp  == {"stars_ep_entry", "ep_mem", "rc_ep_mem", "rc_qp", "rc_qp_event", "in_ep_list",
             "sdma_ep_mem", "ep_cleanup_ctx"}
Driver   == {"stars_lib", "stars_devs"}
LeaderOps == DOMAIN MetaOps \cup {"allgatherv_na_rolling"}
KeptBy ==
    [o \in LeaderOps \cup LeaderUses |-> Leaders] @@ [o \in HcclUses |-> {"dev_stage_area"}] @@
    [ucx_ep |-> {"ucp_ep"}, stars_op |-> StarsEp, ucg_group |-> StarsEp \cup {"ucp_ep"},
     proc_info |-> {"ucp_worker_address", "stars_worker_addr"},
     ucg_context |-> Driver, ucg_config |-> Driver, ucg_global |-> {}] 
    @@ [o \in DOMAIN ParentOf |-> {}]

\* Nothing, everything, or a worker whose context cannot be had.
LentResources == {"oob_worker", "oob_context", "uct_md"}
LendingSets   == {{}, LentResources, LentResources \ {"oob_context"}}
UsePairs ==
    {<<"ucp_ep", "ucp_worker">>, <<"ucp_worker", "ucp_context">>, <<"ucp_worker_address", "ucp_worker">>,
     <<"ep_mp", "scp_wrk">>, <<"ep_addr_mp", "scp_wrk">>, <<"in_ep_list", "rc_ep_mem">>,
     <<"peer_proc_addr", "peer_proc_info">>, <<"rc_rmr", "ib_pd">>, <<"rc_smr", "ib_pd">>,
     <<"ib_pd", "ibv_context">>, <<"tx_cq", "ibv_context">>, <<"rc_qp", "tx_cq">>, <<"rc_qp", "ib_pd">>,
     <<"ucx_policy1", "lib_ucx">>, <<"stars_policy1", "lib_stars">>}

(***************************************************************************)
(* What the code is known to get wrong.                                    *)
(***************************************************************************)
LeftBy(o, rs) == {<<o, r>> : r \in rs}

(* Lost on every run, without any failure *)
AlwaysLeaked ==
    \* the libraries are unloaded before their own cleanup is called (ucg_global.c:122)
       LeftBy("ucg_global", {"lib_planm", "planm_comps"})
    \* sct_stars_unload lowers the last reference and returns (stars.c:187)
    \cup LeftBy("ucg_global", Driver)
    \* never freed: the context's configuration, the component list, the
    \* protocol's options, the struct of the sdma domain
    \cup LeftBy("ucg_context", {"stars_ctx_opts", "stars_ctx_bundle1", "stars_ctx_bundle2", "sct_components",
                               "stars_ctx_bundle1_opts", "stars_ctx_bundle2_opts",
                               "scp_cfg", "scp_cfg_opts", "sdma_md_mem"})
    \* the rank maps of the topology and of the leader groups; the stream handles
    \cup LeftBy("ucg_group", {"topo_rank_map", "node_leader_map", "socket_leader_map", "stars_handle"})
    \* the filter of the subnet leaders (ucg_topo.c)
    \cup {<<o, "filter">> : o \in {"use_subnet_leaders", "bcast_nta_kntree", "allreduce_nta_kntree"}}
    \* the arrays of the inter-node stage, on a leader (scatterv_na_kntree.c:341)
    \cup {<<o, r>> : o \in {"scatterv_root0", "scatterv_rank0", "scatterv_root_leader", "scatterv_leader"},
                    r \in {"temp_sendcounts", "temp_displs"}}
    \* scp_mem_dereg frees neither its array nor the keys of sdma (scp_mm.c:10)
    \cup LeftBy("stars_op", {"lrmemh", "lsmemh", "sdma_rkey", "sdma_skey"})

(* Lost when a step fails *)
LeakedOnFailure ==
    \* configuration: the bundle read before the one that fails; the prefix
       LeftBy("ucg_config", {"full_env_prefix", "ucx_bundle1", "ucx_bundle2", "stars_bundle1"})
    \* context: policies of the first module, plan attributes
    \cup LeftBy("ucg_context", {"ucx_policy1", "stars_policy1", "stars_policy2", "hccl_attr1", "hccl_attr2"})
    \* scp_context_init, scp_fill_resources, scp_create_worker, scp_worker_add_resource_ifaces
    \cup LeftBy("ucg_context", {"scp_ctx", "scp_env_prefix", "rc_tls", "scp_wrk", "sct_worker", "ifaces"})
    \* ... with the domains and interfaces opened so far
    \cup LeftBy("ucg_context", {"rc_md_mem", "rdma_params_pool", "rc_event_params_pool", "rc_stars_ref",
                               "sdma_stars_ref", "ib_event_handler", "ib_event_hash", "ib_pd", "ib_reg_methods",
                               "ibv_context", "rc_wif", "rc_if_mem", "path_bits", "comp_channel", "tx_cq",
                               "rx_cq", "sdma_wif", "sdma_if_mem"})
    \* an endpoint that could not be put into the pool (planc_stars_offload.c)
    \cup {<<o, r>> : o \in {"ucg_context", "stars_op"},
                    r \in {"ep_mem", "in_ep_list", "rc_ep_mem", "rc_qp", "rc_qp_event"}}
    \* topology: only the rank map is undone when the detail, or a plan, fails
    \cup LeftBy("ucg_group", {"new_topo", "locations", "node_hash", "socket_hash", "tmp_node_hash"})
    \* groups of leaders: a rank without a location (planc_ucx_group.c)
    \cup {<<o, r>> : o \in {"use_leaders_of_nodes", "allgatherv_na_rolling", "allreduce_na_rabenseifner",
                           "allreduce_sa_rabenseifner"},
                    r \in {"algo_ranks", "offsets", "global_ranks"}}
    \* arrays of operations
    \cup LeftBy("allgatherv_na_rolling", {"meta_op", "temp_nodes"}) \cup LeftBy("scatterv_kntree", {"sendcounts1"})
    \* the adjusted root stays in the configuration (bcast_na_kntree.c:65)
    \cup {<<o, "root_adjust">> : o \in {"bcast_na_kntree", "bcast_nta_kntree"}}
    \* the data that could not be packed (scatterv_na_kntree.c:775)
    \cup {<<o, "inter_sendbuf">> : o \in {"scatterv_root0", "scatterv_root_leader", "scatterv_root_member"}}
    \* stars: a failed prepare gives back the operation alone (planc_stars_algo.h:12)
    \cup LeftBy("stars_op", {"get_ranks", "put_ranks", "put_rank_desc", "ofd_req_elem_pool", "rbuf_desc",
                            "sbuf_desc", "rc_rmemh", "rc_rmr", "rc_smemh", "rc_smr", "sdma_rpin", "sdma_spin",
                            "event_elem", "events", "self_addr", "peer_addr"})
    \* the lock of the worker stays taken (scp_ep.c:170)
    \cup LeftBy("stars_op", {"async_lock"})

(* Released without being there *)
ReleasedUnheld ==
    \* the handler of a borrowed device, the lock of a context never filled
    {<<"ib_device", "ib_event_handler">>, <<"scp_context", "scp_mt_lock">>,
    \* what the application lent, or failed to (planc_ucx_context.c:539)
     <<"ucx_context", "oob_worker">>, <<"ucx_context", "oob_context">>}
    \* the options of a bundle whose table was not set yet (planc_ucx_context.c:324,
    \* planc_stars_context.c:279)
    \cup {<<"ucx_ctx_config", r>> : r \in {"ucx_ctx_bundle1_opts", "ucx_ctx_bundle2_opts", "ucx_ctx_bundle3_opts"}}
    \cup {<<"stars_ctx_config", r>> : r \in {"stars_ctx_bundle1_opts", "stars_ctx_bundle2_opts"}}

(* Released while still needed *)
ReleasedEarly ==
    \* the peer's address lies in what has just been freed (planc_stars_wireup.c:95)
    {<<"peer_proc_info", "peer_proc_addr">>,
    \* the list of the interface keeps an endpoint whose creation failed (rc_offload_ep.c:217)
     <<"rc_ep_mem", "in_ep_list">>,
    \* scp_create_worker frees the worker before a pool in it (scp_worker.c:264)
     <<"scp_wrk", "ep_mp">>,
    \* a domain closed with leaked interfaces and queues in it
     <<"tx_cq", "rc_qp">>, <<"ib_pd", "rc_qp">>, <<"ibv_context", "ib_pd">>, <<"ibv_context", "tx_cq">>}

(***************************************************************************)
(* Whatever the application begins and ends, and whichever step fails, a   *)
(* call leaves nothing behind that is in no table above: its error labels  *)
(* and destructors match what was acquired (ucg_context_init_version,      *)
(* ucg_group_create, every op_new and every prepare).                      *)
(***************************************************************************)
NothingElseLeaks ==
    leaked \subseteq IF faults = 0 THEN AlwaysLeaked ELSE AlwaysLeaked \cup LeakedOnFailure


(* What others are built on is released after them: a worker after its
   endpoints, a domain after its memory, a library after its objects. *)
UsersGoFirst == early \subseteq ReleasedEarly
=============================================================================
