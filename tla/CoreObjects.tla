---------------------------- MODULE CoreObjects ----------------------------
(***************************************************************************)
(* Constructors and destructors of the core, as tables of Lifecycle: the   *)
(* global library, component libraries, configuration, context, groups and *)
(* topology.  Each table has the name of the C function.  An array, or a   *)
(* loop that allocates, is two entries, so that it can fail after the      *)
(* first.  A temporary appears like any other resource.                    *)
(***************************************************************************)
EXTENDS Steps

(* Global *)
ucg_global_init ==
    << Ask(<<>>), Get("planc", <<>>), Get("planc_globals", Puts(<<"planc">>)),
       Get("dt_state_mp", Puts(<<"planc_globals", "planc">>)) >>
ucg_global_cleanup == Puts(<<"planc", "planc_globals", "dt_state_mp">>)

ucg_global_init_planc ==
    << When({"lib_ucx"}, Get("ucx_global", <<>>)),
       When({"lib_stars"}, Get("stars_global", << When({"lib_ucx"}, Put("ucx_global")) >>)) >>
ucg_global_cleanup_planc ==
    << When({"lib_ucx"}, Put("ucx_global")), When({"lib_stars"}, Put("stars_global")) >>

(* Component libraries: found by name in a directory; one that does not load
   is left out, but there must be one. *)
ucg_planc_get_default_path ==
    << Ask(<<>>), Get("lib_path", <<>>), Get("default_path", Puts(<<"lib_path">>)), Put("lib_path") >>

ucg_planc_load ==
    << Get("planc_opts", <<>>), Get("planc_path", Puts(<<"planc_opts">>)),
       Get("planc_components", Puts(<<"default_path", "planc_opts">>)),
       Put("default_path"), Put("planc_opts") >>
ucg_planc_unload == << Put("planc_components") >>

ucg_components_load(comps, libs, loads) ==
    << Get("full_pattern", <<>>), Get("globbuf", Puts(<<"full_pattern">>)),
       Get(comps, Puts(<<"globbuf", "full_pattern">>)) >>
    \o [i \in DOMAIN loads |-> Try(loads[i])]
    \o << NeedAny({libs[i] : i \in DOMAIN libs}, Puts(<<comps, "globbuf", "full_pattern">>)),
          Put("globbuf"), Put("full_pattern") >>
ucg_components_unload(comps, libs) == [i \in DOMAIN libs |-> Opt(libs[i])] \o << Put(comps) >>

ucg_components_load_one(lib) ==
    << Get("lib_path_dup", <<>>), Get(lib, Puts(<<"lib_path_dup">>)),
       Ask(Puts(<<lib, "lib_path_dup">>)), Put("lib_path_dup") >>

ucg_planm_load ==
    << Get("planm_opts", <<>>), Get("planc_path", Puts(<<"planm_opts">>)),
       Sure("planm_pattern"),      \* an allocation that fails here is not handled: left out
       Try("planm_components"), Put("default_path"), Put("planm_pattern"), Put("planm_opts"),
       NeedAny({"planm_comps"}, <<>>) >>
ucg_planm_unload == << When({"planm_comps"}, Put("planm_components")) >>


ucg_config_read ==
    << Get("cfg", <<>>), Get("env_prefix", Puts(<<"cfg">>)), Get("cfg_opts", Puts(<<"env_prefix", "cfg">>)),
       Get("planc_configs", Puts(<<"cfg_opts", "env_prefix", "cfg">>)) >>
ucg_config_release == Puts(<<"planc_configs", "cfg_opts", "env_prefix", "cfg">>)

ucg_config_release_planc_cfg ==
    << When({"ucx_cfg"}, Put("ucx_config")), When({"hccl_cfg"}, Put("hccl_config")),
       When({"stars_cfg"}, Put("stars_config")), Put("planc_cfg") >>
ucg_config_read_planc_cfg ==
    << Get("planc_cfg", <<>>),
       When({"lib_ucx"}, Get("ucx_config", ucg_config_release_planc_cfg)),
       When({"lib_hccl"}, Get("hccl_config", ucg_config_release_planc_cfg)),
       When({"lib_stars"}, Get("stars_config", ucg_config_release_planc_cfg)) >>

(* Context *)
ucg_context_init_version ==
    << Ask(<<>>), Get("ctx", <<>>), Ask(Puts(<<"ctx">>)), Get("context_resource", Puts(<<"ctx">>)),
       Get("meta_op_mp", Puts(<<"context_resource", "ctx">>)) >>
ucg_context_cleanup == Puts(<<"meta_op_mp", "context_resource", "ctx">>)

ucg_context_fill_resource ==
    << Get("planc_contexts", <<>>), Get("mt_lock", Puts(<<"planc_contexts">>)) >>
ucg_context_free_resource == Puts(<<"mt_lock", "planc_contexts">>)

ucg_context_free_resource_planc ==
    << When({"ucx_ctx"}, Put("ucx_context")), When({"hccl_ctx"}, Put("hccl_context")),
       When({"stars_ctx"}, Put("stars_context")), Put("planc_rscs") >>
ucg_context_fill_resource_planc ==
    << Get("planc_rscs", <<>>),
       When({"lib_ucx"}, Get("ucx_context", ucg_context_free_resource_planc)),
       When({"lib_hccl"}, Get("hccl_context", ucg_context_free_resource_planc)),
       When({"lib_stars"}, Get("stars_context", ucg_context_free_resource_planc)) >>

(* The address of the process; components keep what they were asked for. *)
ucg_get_allocated_local_proc_info ==
    << When({"ucx_ctx"}, Get("ucx_query", <<>>)), When({"stars_ctx"}, Get("stars_query", <<>>)),
       Get("local_proc", <<>>), Ask(Puts(<<"local_proc">>)) >>
ucg_free_proc_info == Puts(<<"local_proc">>)

(* Group *)
(* Mutant: the groups of the components are forgotten when the plans fail. *)
ucg_group_create_KeepsPlancs ==
    << Get("grp", <<>>), Get("group_params", Puts(<<"grp">>)),
       Get("group_plancs", Puts(<<"group_params", "grp">>)),
       Get("topo", Puts(<<"group_plancs", "group_params", "grp">>)),
       Get("plans", Puts(<<"group_params", "grp">>)) >>

ucg_group_create ==
    << Get("grp", <<>>), Get("group_params", Puts(<<"grp">>)),
       Get("group_plancs", Puts(<<"group_params", "grp">>)),
       Get("topo", Puts(<<"group_plancs", "group_params", "grp">>)),
       Get("plans", Puts(<<"group_plancs", "group_params", "grp">>)) >>
ucg_group_destroy == Puts(<<"topo", "plans", "group_plancs", "group_params", "grp">>)

ucg_group_apply_params == << Ask(<<>>), Get("group_rank_map", <<>>), Ask(Puts(<<"group_rank_map">>)) >>
ucg_group_free_params == Puts(<<"group_rank_map">>)

ucg_group_destroy_planc_group ==
    << When({"ucx_grp"}, Put("ucx_group")), When({"hccl_grp"}, Put("hccl_group")),
       When({"stars_grp"}, Put("stars_group")), Put("planc_groups") >>
ucg_group_create_planc_group ==
    << Ask(<<>>), Get("planc_groups", <<>>),
       When({"ucx_ctx"}, Get("ucx_group", ucg_group_destroy_planc_group)),
       When({"hccl_ctx"}, Get("hccl_group", ucg_group_destroy_planc_group)),
       When({"stars_ctx"}, Get("stars_group", ucg_group_destroy_planc_group)) >>

(* Adding plans may fail half-way; the containers hold what was added. *)
ucg_group_fill_plans ==
    << Get("plan_lists", <<>>), Get("plan_nodes", Puts(<<"plan_lists">>)),
       Ask(Puts(<<"plan_nodes", "plan_lists">>)) >>
ucg_plans_cleanup == Puts(<<"plan_nodes", "plan_lists">>)

(* Topology *)
ucg_topo_init ==
    << Get("new_topo", <<>>), Get("topo_rank_map", Puts(<<"new_topo">>)),
       Ask(Puts(<<"topo_rank_map", "new_topo">>)),
       Get("topo_detail", Puts(<<"topo_rank_map", "new_topo">>)),
       Get("process_cnt", Puts(<<"topo_rank_map", "new_topo">>)), Put("process_cnt") >>
ucg_topo_cleanup ==
    << Put("topo_detail"), Opt("node_ranks"), Opt("node_leader_ranks"),
       Opt("subnet_leader_ranks"), Put("new_topo") >>

ucg_topo_init_detail ==
    << Get("node_hash", <<>>), Ask(<<>>), Get("socket_hash", <<>>), Ask(<<>>),
       Get("locations", <<>>), Ask(Puts(<<"locations">>)),
       Get("tmp_node_hash", Puts(<<"locations">>)), Ask(Puts(<<"locations">>)),
       Put("tmp_node_hash"), Put("node_hash"), Put("socket_hash") >>
ucg_topo_cleanup_detail == Puts(<<"locations">>)

(* A topology group is created when it is first asked for.  "filter" are the
   leaders met so far, freed by "cleanup".  A group of one, or one whose ranks
   are evenly spaced, keeps no array. *)
ucg_topo_create_group(map, filter, cleanup) ==
    << Get("ranks", <<>>) >>
    \o [i \in DOMAIN filter |-> Get(filter[i], Puts(<<"ranks">>))]
    \o << Ask(Puts(cleanup \o <<"ranks">>)), Put("ranks"), Try(map) >> \o Puts(cleanup)

ucg_topo_get_group(map, group) == << Unless({map}, Get(group, <<>>)) >>

CoreParts ==
    [ ucg_global       |-> Part(ucg_global_init, ucg_global_cleanup),
      planc_globals    |-> Part(ucg_global_init_planc, ucg_global_cleanup_planc),
      planc            |-> Part(ucg_planc_load, ucg_planc_unload),
      planc_path       |-> Part(ucg_planc_get_default_path, <<>>),
      planc_components |-> Part(ucg_components_load("comps", <<"lib_ucx", "lib_hccl", "lib_stars">>,
                                                    <<"load_ucx", "load_hccl", "load_stars">>),
                                ucg_components_unload("comps", <<"lib_ucx", "lib_hccl", "lib_stars">>)),
      load_ucx         |-> Part(ucg_components_load_one("lib_ucx"), <<>>),
      load_hccl        |-> Part(ucg_components_load_one("lib_hccl"), <<>>),
      load_stars       |-> Part(ucg_components_load_one("lib_stars"), <<>>),
      planm            |-> Part(ucg_planm_load, ucg_planm_unload),
      planm_components |-> Part(ucg_components_load("planm_comps", <<"lib_planm">>, <<"load_planm">>),
                                ucg_components_unload("planm_comps", <<"lib_planm">>)),
      load_planm       |-> Part(ucg_components_load_one("lib_planm"), <<>>),
      ucg_config       |-> Part(ucg_config_read, ucg_config_release),
      planc_configs    |-> Part(ucg_config_read_planc_cfg, ucg_config_release_planc_cfg),
      ucg_context      |-> Part(ucg_context_init_version, ucg_context_cleanup),
      context_resource |-> Part(ucg_context_fill_resource, ucg_context_free_resource),
      planc_contexts   |-> Part(ucg_context_fill_resource_planc, ucg_context_free_resource_planc),
      proc_info        |-> Part(ucg_get_allocated_local_proc_info, ucg_free_proc_info),
      ucg_group        |-> Part(ucg_group_create, ucg_group_destroy),
      group_params     |-> Part(ucg_group_apply_params, ucg_group_free_params),
      group_plancs     |-> Part(ucg_group_create_planc_group, ucg_group_destroy_planc_group),
      plans            |-> Part(ucg_group_fill_plans, ucg_plans_cleanup),
      topo             |-> Part(ucg_topo_init, ucg_topo_cleanup),
      topo_detail      |-> Part(ucg_topo_init_detail, ucg_topo_cleanup_detail),
      node             |-> Part(ucg_topo_create_group("node_ranks", <<>>, <<>>), <<>>),
      node_leader      |-> Part(ucg_topo_create_group("node_leader_ranks", <<"filter">>, <<"filter">>), <<>>),
      subnet_leader    |-> Part(ucg_topo_create_group("subnet_leader_ranks", <<"filter">>, <<>>), <<>>),
      use_node_leaders |-> Part(ucg_topo_get_group("node_leader_ranks", "node_leader"), <<>>),
      use_subnet_leaders |-> Part(ucg_topo_get_group("subnet_leader_ranks", "subnet_leader"), <<>>) ]
=============================================================================
