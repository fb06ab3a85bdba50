---------------------------- MODULE UcxObjects -----------------------------
(***************************************************************************)
(* Constructors and destructors of the UCX plan component, as tables of    *)
(* Lifecycle.  "oob_worker" and "oob_context" belong to the application,   *)
(* which may lend them; the component then creates none of its own.        *)
(***************************************************************************)
EXTENDS Steps

Oob == {"oob_worker"}

ucg_planc_ucx_global_init    == << Try("planm") >>
ucg_planc_ucx_global_cleanup == << Put("planm") >>

(* Configuration: bundles 1 and 2 are for the built-in algorithms, bundle 3 for
   those of an extra module, if one was loaded.  A bundle that fails ends only
   the loop of its own module, and the status of the last loop is returned. *)
ucg_planc_ucx_config_bundle_read(bundle) ==
    << Get(bundle, <<>>), Ask(Puts(<<bundle>>)) >>
ucx_builtin_bundles == << Get("ucx_read_bundle1", <<>>), Get("ucx_read_bundle2", <<>>) >>
ucg_planc_ucx_fill_coll_config ==
    LET Hicoll == {"planm_comps"}
    IN << When(Hicoll, Try("ucx_builtin")), Unless(Hicoll, Get("ucx_builtin", <<>>)),
          When(Hicoll, Get("ucx_read_bundle3", <<>>)) >>

ucg_planc_ucx_config_read ==
    << Get("ucx_cfg", <<>>), Get("full_env_prefix", Puts(<<"ucx_cfg">>)),
       Get("ucx_cfg_opts", Puts(<<"ucx_cfg">>)),
       Get("ucx_bundles", Puts(<<"full_env_prefix", "ucx_cfg_opts", "ucx_cfg">>)),
       Put("full_env_prefix") >>
ucg_planc_ucx_config_bundle_release == << Opt("ucx_bundle1"), Opt("ucx_bundle2"), Opt("ucx_bundle3") >>
ucg_planc_ucx_config_release == << Put("ucx_bundles"), Put("ucx_cfg_opts"), Put("ucx_cfg") >>

(* Context.  The memory of a bundle is not cleared: until its options are
   copied, whether they are released is left to what the memory holds. *)
ucg_planc_ucx_context_free_config ==
    << Stray("ucx_ctx_bundle1", "ucx_ctx_bundle1_opts"), Opt("ucx_ctx_bundle1_opts"), Opt("ucx_ctx_bundle1"),
       Stray("ucx_ctx_bundle2", "ucx_ctx_bundle2_opts"), Opt("ucx_ctx_bundle2_opts"), Opt("ucx_ctx_bundle2"),
       Stray("ucx_ctx_bundle3", "ucx_ctx_bundle3_opts"), Opt("ucx_ctx_bundle3_opts"), Opt("ucx_ctx_bundle3"),
       Opt("ucx_ctx_opts") >>
ucg_planc_ucx_context_fill_config ==
    LET Copy(of, r) == When({of}, Get(r, ucg_planc_ucx_context_free_config))
    IN << Get("ucx_ctx_opts", <<>>),
          Copy("ucx_bundle1", "ucx_ctx_bundle1"), Copy("ucx_bundle1", "ucx_ctx_bundle1_opts"),
          Copy("ucx_bundle2", "ucx_ctx_bundle2"), Copy("ucx_bundle2", "ucx_ctx_bundle2_opts"),
          Copy("ucx_bundle3", "ucx_ctx_bundle3"), Copy("ucx_bundle3", "ucx_ctx_bundle3_opts") >>

ucg_planc_ucx_context_fill_policy == << Get("ucx_policy1", <<>>), Get("ucx_policy2", <<>>) >>
ucg_planc_ucx_context_free_policy == << Opt("ucx_policy1"), Opt("ucx_policy2") >>

ucg_planc_ucx_context_init_ucp_context ==
    << Get("ucp_config", <<>>), Get("ucp_context", Puts(<<"ucp_config">>)), Put("ucp_config") >>
ucg_planc_ucx_context_init_ucp_worker == << Get("ucp_worker", <<>>) >>

ucg_planc_ucx_context_init ==
    LET config == Puts(<<"ucx_ctx_config", "ucx_ctx">>)
        policy == Puts(<<"ucx_policies">>) \o config
        planm  == << Opt("ucx_planm_rscs") >> \o policy
        mpool  == Puts(<<"ucx_op_mp">>) \o planm
        own    == Puts(<<"ucp_worker", "ucp_context">>) \o mpool
        lent   == Puts(<<"oob_worker", "oob_context">>) \o mpool
    IN << Get("ucx_ctx", <<>>), Get("ucx_ctx_config", Puts(<<"ucx_ctx">>)),
          Get("ucx_policies", config),
          When({"planm_comps"}, Get("ucx_planm_rscs", policy)),
          Get("ucx_op_mp", planm),
          Unless(Oob, Get("own_ucp_context", mpool)),
          Unless(Oob, Get("own_ucp_worker", Puts(<<"ucp_context">>) \o mpool)),
          When(Oob, NeedAny({"oob_context"}, Puts(<<"oob_context">>) \o mpool)),
          When(Oob, Get("ucx_eps", lent)), Unless(Oob, Get("ucx_eps", own)) >>

(* Mutant: the worker goes before its endpoints are closed. *)
ucg_planc_ucx_context_cleanup_WorkerFirst ==
    << Opt("ucp_worker_address"),
       Unless(Oob, Put("ucp_worker")), Unless(Oob, Put("ucx_all_eps")), Unless(Oob, Put("ucp_context")),
       Put("ucx_eps"), Put("ucx_op_mp"), Opt("ucx_planm_rscs"), Put("ucx_policies"),
       Put("ucx_ctx_config"), Put("ucx_ctx") >>

(* What the application lent is left alone. *)
ucg_planc_ucx_context_cleanup ==
    << Opt("ucp_worker_address"),
       Unless(Oob, Put("ucx_all_eps")), Unless(Oob, Put("ucp_worker")), Unless(Oob, Put("ucp_context")),
       Put("ucx_eps"), Put("ucx_op_mp"), Opt("ucx_planm_rscs"), Put("ucx_policies"),
       Put("ucx_ctx_config"), Put("ucx_ctx") >>
ucg_planc_ucx_p2p_close_all_ep == << Opt("ucp_ep") >>

ucg_planc_ucx_context_query ==
    << Unless(Oob \cup {"ucp_worker_address"}, Get("ucp_worker_address", <<>>)) >>

(* An endpoint is created when it is first needed and kept by the context. *)
ucg_planc_ucx_p2p_get_ucp_ep ==
    LET first == Oob \cup {"ucp_ep"}
    IN << When(Oob, Ask(<<>>)), Unless(first, Get("peer_proc", <<>>)),
          Unless(first, Get("ucp_ep", Puts(<<"peer_proc">>))),
          Opt("peer_proc") >>

(* Group *)
ucg_planc_ucx_group_create == << Get("ucx_grp", <<>>), Ask(Puts(<<"ucx_grp">>)) >>
ucg_planc_ucx_group_destroy == Puts(<<"ucx_grp">>)

(* The groups of leaders that some algorithms use.  A failed allocation is
   reported as success; a rank without a location leaves everything behind. *)
ucg_planc_ucx_create_node_leader_algo_group ==
    LET all == Puts(<<"global_ranks", "offsets", "algo_ranks">>)
    IN << Ask(<<>>), Claim("algo_ranks", <<>>), Claim("offsets", Puts(<<"algo_ranks">>)),
          Claim("global_ranks", Puts(<<"offsets", "algo_ranks">>)),
          Ask(<<>>), Get("node_leader_map", all) >> \o all
ucg_planc_ucx_create_only_node_leader_algo_group ==
    ucg_planc_ucx_create_node_leader_algo_group
ucg_planc_ucx_create_socket_leader_algo_group ==
    LET all == Puts(<<"offsets", "algo_ranks">>)
    IN << Ask(<<>>), Claim("algo_ranks", <<>>), Claim("offsets", Puts(<<"algo_ranks">>)),
          Ask(all), Put("offsets"), Put("algo_ranks"), Try("socket_leader_map") >>

use_leaders(map, group) == << Unless({map}, Get(group, <<>>)) >>

UcxParts ==
    [ ucx_global       |-> Part(ucg_planc_ucx_global_init, ucg_planc_ucx_global_cleanup),
      ucx_read_bundle1 |-> Part(ucg_planc_ucx_config_bundle_read("ucx_bundle1"), <<>>),
      ucx_read_bundle2 |-> Part(ucg_planc_ucx_config_bundle_read("ucx_bundle2"), <<>>),
      ucx_read_bundle3 |-> Part(ucg_planc_ucx_config_bundle_read("ucx_bundle3"), <<>>),
      ucx_builtin      |-> Part(ucx_builtin_bundles, <<>>),
      ucx_bundles      |-> Part(ucg_planc_ucx_fill_coll_config, ucg_planc_ucx_config_bundle_release),
      ucx_config       |-> Part(ucg_planc_ucx_config_read, ucg_planc_ucx_config_release),
      ucx_ctx_config   |-> Part(ucg_planc_ucx_context_fill_config, ucg_planc_ucx_context_free_config),
      ucx_policies     |-> Part(ucg_planc_ucx_context_fill_policy, ucg_planc_ucx_context_free_policy),
      own_ucp_context  |-> Part(ucg_planc_ucx_context_init_ucp_context, <<>>),
      own_ucp_worker   |-> Part(ucg_planc_ucx_context_init_ucp_worker, <<>>),
      ucx_context      |-> Part(ucg_planc_ucx_context_init, ucg_planc_ucx_context_cleanup),
      ucx_all_eps      |-> Part(<<>>, ucg_planc_ucx_p2p_close_all_ep),
      ucx_query        |-> Part(ucg_planc_ucx_context_query, <<>>),
      ucx_ep           |-> Part(ucg_planc_ucx_p2p_get_ucp_ep, <<>>),
      ucx_group        |-> Part(ucg_planc_ucx_group_create, ucg_planc_ucx_group_destroy),
      leaders_of_nodes_only  |-> Part(ucg_planc_ucx_create_only_node_leader_algo_group, <<>>),
      leaders_of_nodes       |-> Part(ucg_planc_ucx_create_node_leader_algo_group, <<>>),
      leaders_of_sockets     |-> Part(ucg_planc_ucx_create_socket_leader_algo_group, <<>>),
      use_leaders_of_nodes   |-> Part(use_leaders("node_leader_map", "leaders_of_nodes"), <<>>),
      use_leaders_of_sockets |-> Part(use_leaders("socket_leader_map", "leaders_of_sockets"), <<>>) ]
=============================================================================
