---------------------------- MODULE HcclObjects ----------------------------
(***************************************************************************)
(* Constructors and destructors of the hccl plan component, as tables of   *)
(* Lifecycle.                                                              *)
(***************************************************************************)
EXTENDS Steps

ucg_planc_hccl_config_read ==
    << Get("hccl_cfg", <<>>), Get("hccl_env_prefix", Puts(<<"hccl_cfg">>)),
       Get("hccl_cfg_opts", Puts(<<"hccl_env_prefix", "hccl_cfg">>)), Put("hccl_env_prefix") >>
ucg_planc_hccl_config_release == Puts(<<"hccl_cfg_opts", "hccl_cfg">>)

ucg_planc_hccl_free_plan_attr == << Opt("hccl_attr1"), Opt("hccl_attr2") >>
ucg_planc_hccl_fill_plan_attr ==
    << Get("hccl_attr1", ucg_planc_hccl_free_plan_attr), Get("hccl_attr2", ucg_planc_hccl_free_plan_attr) >>
ucg_planc_hccl_fill_config == << Ask(<<>>), Get("hccl_attrs", <<>>) >>

ucg_planc_hccl_context_init ==
    << Get("hccl_ctx", <<>>), Ask(Puts(<<"hccl_ctx">>)), Get("hccl_ctx_config", Puts(<<"hccl_ctx">>)),
       Get("hccl_op_mp", Puts(<<"hccl_ctx">>)) >>
ucg_planc_hccl_context_cleanup == Puts(<<"hccl_op_mp", "hccl_ctx_config", "hccl_ctx">>)

ucg_planc_hccl_group_fill_resource ==
    << Get("root_info", <<>>), Ask(Puts(<<"root_info">>)), Ask(Puts(<<"root_info">>)),
       Get("hccl_comm", Puts(<<"root_info">>)),
       Get("acl_stream", Puts(<<"hccl_comm", "root_info">>)),
       Get("dev_status", Puts(<<"acl_stream", "hccl_comm", "root_info">>)),
       Ask(Puts(<<"dev_status", "acl_stream", "hccl_comm", "root_info">>)), Put("root_info") >>
ucg_planc_hccl_group_free_resource == Puts(<<"dev_status", "acl_stream", "hccl_comm">>)

ucg_planc_hccl_group_create ==
    << Get("hccl_grp", <<>>), Ask(Puts(<<"hccl_grp">>)), Get("hccl_resource", Puts(<<"hccl_grp">>)) >>
ucg_planc_hccl_group_destroy == Puts(<<"hccl_resource", "hccl_grp">>)

(* An operation.  The trees for gatherv and scatterv take an area on the
   device when they are first started, and two arrays for every start. *)
hccl_prepare == << Ask(<<>>), Get("hccl_op_mem", <<>>), Ask(Puts(<<"hccl_op_mem">>)) >>
ucg_planc_hccl_op_discard == << Opt("dev_stage_area"), Put("hccl_op_mem") >>
Hccl_kntree ==
    LET temp == Puts(<<"counts_temp_s", "counts_temp_r">>)
        area == Puts(<<"staging_displs">>) \o temp
    IN << Sure("counts_temp_s"), Sure("counts_temp_r"), Ask(temp), Sure("staging_displs"),
          Unless({"dev_stage_area"}, Get("dev_stage_area", area)), Ask(area) >> \o area
Hccl_gatherv_kntree  == Hccl_kntree
Hccl_scatterv_kntree == Hccl_kntree

HcclParts ==
    [ hccl_op         |-> Part(hccl_prepare, ucg_planc_hccl_op_discard),
      hccl_gatherv    |-> Part(Hccl_gatherv_kntree, <<>>),
      hccl_scatterv   |-> Part(Hccl_scatterv_kntree, <<>>),
      hccl_config     |-> Part(ucg_planc_hccl_config_read, ucg_planc_hccl_config_release),
      hccl_attrs      |-> Part(ucg_planc_hccl_fill_plan_attr, ucg_planc_hccl_free_plan_attr),
      hccl_ctx_config |-> Part(ucg_planc_hccl_fill_config, ucg_planc_hccl_free_plan_attr),
      hccl_context    |-> Part(ucg_planc_hccl_context_init, ucg_planc_hccl_context_cleanup),
      hccl_resource   |-> Part(ucg_planc_hccl_group_fill_resource, ucg_planc_hccl_group_free_resource),
      hccl_group      |-> Part(ucg_planc_hccl_group_create, ucg_planc_hccl_group_destroy) ]
=============================================================================
