---------------------------- MODULE StarsObjects ---------------------------
(***************************************************************************)
(* Constructors and destructors of the stars plan component, as tables of  *)
(* Lifecycle: configuration, context, group, and the operations of its     *)
(* algorithms.                                                             *)
(***************************************************************************)
EXTENDS Steps

(* Configuration.  Bundles read before one fails are not freed. *)
ucg_planc_stars_config_bundle_read(bundle) == << Get(bundle, <<>>), Ask(Puts(<<bundle>>)) >>
ucg_planc_stars_fill_coll_config == << Get("stars_read_bundle1", <<>>), Get("stars_read_bundle2", <<>>) >>

ucg_planc_stars_config_read ==
    << Get("stars_cfg", <<>>), Get("stars_env_prefix", Puts(<<"stars_cfg">>)),
       Get("stars_cfg_opts", Puts(<<"stars_env_prefix", "stars_cfg">>)),
       Get("stars_bundles", Puts(<<"stars_env_prefix", "stars_cfg_opts", "stars_cfg">>)),
       Put("stars_env_prefix") >>
ucg_planc_stars_config_bundle_release == << Opt("stars_bundle1"), Opt("stars_bundle2") >>
ucg_planc_stars_config_release == Puts(<<"stars_bundles", "stars_cfg_opts", "stars_cfg">>)

(* Context.  Until the options of a bundle are copied, whether they are
   released is left to what its memory holds.  A policy that fails jumps past the label that frees policies,
   and the cleanup does not free the configuration. *)
ucg_planc_stars_context_free_config ==
    << Stray("stars_ctx_bundle1", "stars_ctx_bundle1_opts"),
       Opt("stars_ctx_bundle1_opts"), Opt("stars_ctx_bundle1"),
       Stray("stars_ctx_bundle2", "stars_ctx_bundle2_opts"),
       Opt("stars_ctx_bundle2_opts"), Opt("stars_ctx_bundle2"), Opt("stars_ctx_opts") >>
ucg_planc_stars_context_fill_config ==
    LET Copy(of, r) == When({of}, Get(r, ucg_planc_stars_context_free_config))
    IN << Get("stars_ctx_opts", <<>>),
          Copy("stars_bundle1", "stars_ctx_bundle1"), Copy("stars_bundle1", "stars_ctx_bundle1_opts"),
          Copy("stars_bundle2", "stars_ctx_bundle2"), Copy("stars_bundle2", "stars_ctx_bundle2_opts") >>
ucg_planc_stars_context_fill_policy == << Get("stars_policy1", <<>>), Get("stars_policy2", <<>>) >>
ucg_planc_stars_context_free_policy == << Opt("stars_policy1"), Opt("stars_policy2") >>

ucg_planc_stars_events_pool_init == << Get("events_pool1", <<>>), Get("events_pool2", <<>>) >>
ucg_planc_stars_events_pool_destroy == << Opt("events_pool1"), Opt("events_pool2") >>
ucg_planc_stars_eps_pool_destroy ==
    << When({"stars_ep_entry"}, Put("scp_ep")), Opt("stars_ep_entry"), Put("eps_pool") >>

ucg_planc_stars_context_init ==
    LET config == Puts(<<"stars_ctx_config", "stars_ctx">>)
        policy == Puts(<<"stars_policies">>) \o config
        scp    == Puts(<<"scp_context">>) \o policy
        worker == Puts(<<"scp_worker">>) \o scp
    IN << Get("stars_ctx", <<>>), Get("stars_ctx_config", Puts(<<"stars_ctx">>)),
          Get("stars_policies", config), Ask(config), Ask(policy),
          Get("scp_context", policy), Get("scp_worker", scp), Get("stars_op_mp", worker),
          Get("stars_msg_mp", Puts(<<"stars_op_mp">>) \o worker),
          Sure("eps_pool"), Try("stars_events_pool") >>
ucg_planc_stars_context_cleanup ==
    << Opt("stars_worker_addr"), Put("stars_op_mp"), Put("stars_msg_mp"), Put("stars_policies"),
       Put("stars_eps"), Put("stars_events_pool"), Put("scp_worker"), Put("scp_context"),
       Put("stars_ctx") >>

ucg_planc_stars_context_query == << Unless({"stars_worker_addr"}, Get("scp_address", <<>>)) >>

(* Group *)
ucg_planc_stars_group_create ==
    << Get("stars_grp", <<>>), Ask(Puts(<<"stars_grp">>)), Get("stars_stream", Puts(<<"stars_grp">>)) >>
ucg_planc_stars_group_destroy == Puts(<<"stars_stream", "stars_grp">>)

(***************************************************************************)
(* An operation: the ranks it depends on, their endpoints (cached by the   *)
(* context), the connection, its buffers and their keys.  When any of that *)
(* fails, only the operation itself is given back.                         *)
(***************************************************************************)
UCG_STARS_ALGO_PRE_DEFINE ==
    LET op == Puts(<<"stars_op_mem">>)
    IN << Ask(<<>>), Get("stars_op_mem", <<>>), Ask(op), Get("ofd_req_elem_pool", op),
          Get("stars_algo", op) >>
allgatherv_rolling_init == << Get("stars_plan", <<>>), Get("stars_exch", <<>>) >>
ucg_planc_stars_algo_prepare_plan ==
    << Get("stars_ofd_plan", <<>>), Get("put_rank_desc", <<>>), Get("stars_channel", <<>>) >>
ucg_planc_stars_algo_exch_buf_addr ==
    << Get("stars_rbuf", <<>>), Get("stars_sbuf", <<>>), Ask(<<>>), Get("rkeys", <<>>) >>

ucg_planc_stars_rank_dep_alloc ==
    << Get("get_ranks", <<>>), Get("put_ranks", << Opt("get_ranks") >>) >>
ucg_planc_stars_rank_dep_init ==
    << Unless({"stars_ep_entry"}, Get("scp_ep", <<>>)), Unless({"stars_ep_entry"}, Get("stars_ep_entry", <<>>)) >>
allgatherv_rolling_offload_plan ==
    LET err == << Opt("get_ranks"), Opt("put_ranks") >>
    IN << Get("stars_rank_deps", <<>>), Get("get_rank_dep", err), Get("put_rank_dep", err) >>

(* The address of the peer is looked at after what it lies in was freed. *)
ucg_planc_stars_channel_connect ==
    LET new == {"self_addr"}
    IN << Ask(<<>>), When(new, Get("peer_proc_info", <<>>)), When(new, Sure("peer_proc_addr")),
          Opt("peer_proc_info"), When(new, Get("scp_connect", << Opt("peer_proc_addr") >>)),
          Opt("peer_proc_addr") >>

ucg_planc_stars_rbuf_init ==
    LET memh == Puts(<<"lrmemh", "rbuf_desc">>)
    IN << Get("rbuf_desc", <<>>), Get("rmem", Puts(<<"rbuf_desc">>)), Ask(memh),
          Get("stars_events", memh) >>
ucg_planc_stars_rbuf_deinit == Puts(<<"rmem", "rbuf_desc">>)
ucg_planc_stars_algo_alloc_event_common == << Get("event_elem", <<>>), Get("events", <<>>) >>
ucg_planc_stars_events_release == Puts(<<"events", "event_elem">>)
ucg_planc_stars_sbuf_init == << Get("sbuf_desc", <<>>), Get("smem", Puts(<<"sbuf_desc">>)) >>
ucg_planc_stars_sbuf_deinit == Puts(<<"sbuf_desc", "smem">>)

ucg_planc_stars_buf_cleanup == Puts(<<"stars_events", "stars_sbuf", "stars_rbuf">>)
ucg_planc_stars_op_discard ==
    << Put("stars_bufs"), Opt("rkey_bundle"), Opt("put_rank_desc"), Opt("get_ranks"), Opt("put_ranks"),
       Put("ofd_req_elem_pool"), Put("stars_op_mem") >>

StarsParts ==
    [ stars_global       |-> Part(<<>>, <<>>),
      stars_read_bundle1 |-> Part(ucg_planc_stars_config_bundle_read("stars_bundle1"), <<>>),
      stars_read_bundle2 |-> Part(ucg_planc_stars_config_bundle_read("stars_bundle2"), <<>>),
      stars_bundles      |-> Part(ucg_planc_stars_fill_coll_config, ucg_planc_stars_config_bundle_release),
      stars_config       |-> Part(ucg_planc_stars_config_read, ucg_planc_stars_config_release),
      stars_ctx_config   |-> Part(ucg_planc_stars_context_fill_config, ucg_planc_stars_context_free_config),
      stars_policies     |-> Part(ucg_planc_stars_context_fill_policy, ucg_planc_stars_context_free_policy),
      stars_events_pool  |-> Part(ucg_planc_stars_events_pool_init, ucg_planc_stars_events_pool_destroy),
      stars_eps          |-> Part(<<>>, ucg_planc_stars_eps_pool_destroy),
      stars_context      |-> Part(ucg_planc_stars_context_init, ucg_planc_stars_context_cleanup),
      stars_query        |-> Part(ucg_planc_stars_context_query, <<>>),
      stars_group        |-> Part(ucg_planc_stars_group_create, ucg_planc_stars_group_destroy),
      stars_op           |-> Part(UCG_STARS_ALGO_PRE_DEFINE, ucg_planc_stars_op_discard),
      stars_algo         |-> Part(allgatherv_rolling_init, <<>>),
      stars_plan         |-> Part(ucg_planc_stars_algo_prepare_plan, <<>>),
      stars_exch         |-> Part(ucg_planc_stars_algo_exch_buf_addr, <<>>),
      stars_ofd_plan     |-> Part(allgatherv_rolling_offload_plan, <<>>),
      stars_rank_deps    |-> Part(ucg_planc_stars_rank_dep_alloc, <<>>),
      get_rank_dep       |-> Part(ucg_planc_stars_rank_dep_init, <<>>),
      put_rank_dep       |-> Part(ucg_planc_stars_rank_dep_init, <<>>),
      stars_channel      |-> Part(ucg_planc_stars_channel_connect, <<>>),
      stars_rbuf         |-> Part(ucg_planc_stars_rbuf_init, ucg_planc_stars_rbuf_deinit),
      stars_events       |-> Part(ucg_planc_stars_algo_alloc_event_common, ucg_planc_stars_events_release),
      stars_sbuf         |-> Part(ucg_planc_stars_sbuf_init, ucg_planc_stars_sbuf_deinit),
      stars_bufs         |-> Part(<<>>, ucg_planc_stars_buf_cleanup) ]
=============================================================================
