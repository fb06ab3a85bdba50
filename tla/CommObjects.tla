---------------------------- MODULE CommObjects ----------------------------
(***************************************************************************)
(* Constructors and destructors of the stars communication layer, as       *)
(* tables of Lifecycle: protocol context, memory domains, workers,         *)
(* interfaces, endpoints and registered memory.  There is one memory       *)
(* domain and one interface of each of the two transports, rc and sdma.    *)
(* "uct_md" is a memory domain UCX has already opened on the same device;  *)
(* rc then borrows its device and protection domain.                       *)
(***************************************************************************)
EXTENDS Steps

(* The driver library is counted, by each memory domain that loaded it. *)
StarsRefs == {"rc_stars_ref", "sdma_stars_ref"}
Borrowed  == {"uct_md"}

sct_stars_load(ref) ==
    LET first == StarsRefs \cup {"stars_lib"}
    IN << Unless({"stars_lib"}, Get("stars_lib", <<>>)),
          Unless(first \ {"stars_lib"}, Ask(Puts(<<"stars_lib">>))),
          Unless({"stars_devs"}, Get("stars_devs", Puts(<<"stars_lib">>))),
          Sure(ref) >>
(* The last balanced call only lowers the count. *)
sct_stars_unload(ref) ==
    << Unless(StarsRefs, Put("stars_devs")), Unless(StarsRefs, Put("stars_lib")), Opt(ref) >>

(* Memory domain of rc *)
sct_ib_md_open ==
    << Get("ib_device_list", <<>>), Ask(Puts(<<"ib_device_list">>)),
       Get("rc_ofd_md", Puts(<<"ib_device_list">>)), Put("ib_device_list") >>
sct_ib_md_close ==
    << Put("rc_ofd_md"), Put("ib_reg_methods"), Unless(Borrowed, Put("ib_pd")),
       Put("ib_device"), Unless(Borrowed, Put("ibv_context")), Put("rc_md_mem") >>

sct_rc_ofd_md_open ==
    LET err     == Puts(<<"rc_md_mem">>)
        context == << Unless(Borrowed, Put("ibv_context")) >> \o err
    IN << Get("rc_stars_load", <<>>), Ask(<<>>), Get("rc_md_mem", <<>>),
          Unless(Borrowed, Get("ibv_context", err)), Ask(context),
          Get("ib_md_common", context), Get("rdma_params_pool", context),
          Get("rc_event_params_pool", Puts(<<"rdma_params_pool">>) \o context) >>
sct_rc_ofd_md_cleanup == Puts(<<"rdma_params_pool", "rc_event_params_pool", "rc_stars_load">>)

sct_ib_md_open_common ==
    LET device == Puts(<<"ib_device">>)
        pd     == << Unless(Borrowed, Put("ib_pd")) >> \o device
    IN << Get("ib_device", <<>>), Ask(device), Unless(Borrowed, Get("ib_pd", device)),
          Ask(pd), Get("ib_reg_methods", pd) >>

(* The handler of asynchronous events is set for an own device only, and
   removed from any. *)
sct_ib_device_init ==
    << Unless(Borrowed, Ask(<<>>)), Unless(Borrowed, Get("ib_event_handler", <<>>)),
       Sure("ib_event_hash") >>
sct_ib_device_cleanup == Puts(<<"ib_event_hash", "ib_event_handler">>)

(* Memory domain of sdma *)
sct_sdma_ofd_md_open ==
    LET md    == Puts(<<"sdma_md_mem">>)
        pool  == Puts(<<"sdma_params_pool">>) \o md
        event == Puts(<<"sdma_event_params_pool">>) \o pool
    IN << Get("sdma_stars_load", <<>>), Get("sdma_md_mem", <<>>), Get("sdma_params_pool", md),
          Get("sdma_event_params_pool", pool), Get("notify_params_pool", event) >>
sct_sdma_ofd_md_close ==
    Puts(<<"sdma_params_pool", "sdma_event_params_pool", "notify_params_pool", "sdma_stars_load">>)

(* Registered memory *)
sct_ib_mem_reg(memh, mr)   == << Get(memh, <<>>), Get(mr, Puts(<<memh>>)) >>
sct_ib_mem_dereg(memh, mr) == Puts(<<mr, memh>>)
sct_sdma_ofd_mem_reg(key, pin)   == << Get(key, <<>>), Get(pin, Puts(<<key>>)) >>
sct_sdma_ofd_mem_dereg(pin)      == << Put(pin) >>

scp_mem_reg(array, rc, sdma) ==
    << Get(array, <<>>), When({"rc_md_mem"}, Get(rc, Puts(<<array>>))),
       When({"sdma_params_pool"}, Get(sdma, Puts(<<array>>))) >>
scp_mem_dereg(rc, sdma) ==
    << When({"rc_md_mem"}, Put(rc)), When({"sdma_params_pool"}, Put(sdma)) >>
scp_md_mkey_unpack == << Get("rkey_bundle", <<>>), Ask(Puts(<<"rkey_bundle">>)) >>

(* Protocol context *)
scp_config_read ==
    << Get("scp_cfg", <<>>), Get("scp_env_prefix", Puts(<<"scp_cfg">>)),
       Get("scp_cfg_opts", Puts(<<"scp_env_prefix", "scp_cfg">>)) >>
scp_free_config == << Put("scp_env_prefix") >>

scp_fill_tl_md(md) ==
    << Ask(<<>>), Get("md_config", <<>>), Get(md, Puts(<<"md_config">>)), Put("md_config"),
       Ask(Puts(<<md>>)) >>

scp_add_tl_resources(tls) ==
    << Get("tl_resc", <<>>), Ask(Puts(<<"tl_resc">>)), Try(tls), Put("tl_resc") >>

(* A domain that does not open is skipped, and one without enabled resources
   closed.  The error label closes the domain at hand once per earlier one. *)
scp_add_component_resources(open, md, has, add, tls, earlier) ==
    << Ask(<<>>), Try(open), When({has}, Get(add, << When(earlier, Put(md)) >>)),
       Unless({tls}, When({has}, Put(md))) >>

scp_fill_resources ==
    LET cmpts == Puts(<<"tl_cmpts", "sct_components">>)
        mds   == Puts(<<"tl_mds">>) \o cmpts
    IN << Claim("sct_components", <<>>), Get("tl_cmpts", Puts(<<"sct_components">>)),
          Ask(cmpts), Get("tl_mds", cmpts),
          Get("rc_component", mds), Get("sdma_component", mds), Sure("scp_mt_lock") >>
scp_free_resources ==
    << Opt("rc_tls"), Opt("sdma_tls"), When({"rc_md_mem"}, Put("rc_md")),
       When({"sdma_params_pool"}, Put("sdma_md")), Opt("tl_mds"), Opt("tl_cmpts") >>

scp_context_init ==
    << Get("scp_ctx", <<>>), Get("scp_config", <<>>), Get("scp_resources", Puts(<<"scp_ctx">>)) >>
scp_cleanup == Puts(<<"scp_resources", "scp_config", "scp_mt_lock", "scp_ctx">>)

(* Worker *)
scp_create_worker ==
    LET err == Puts(<<"ep_addr_mp", "scp_wrk", "ep_mp">>)
    IN << Get("scp_wrk", <<>>), Get("ep_mp", <<>>), Get("ep_addr_mp", Puts(<<"ep_mp">>)),
          Get("sct_worker", err), Get("worker_ifaces", err) >>
scp_worker_destroy ==
    Puts(<<"sct_worker", "ep_addr_mp", "ep_mp", "worker_ifaces", "scp_wrk">>)

scp_worker_add_resource_ifaces ==
    << Get("ifaces", <<>>), When({"rc_tls"}, Try("rc_wiface")),
       When({"sdma_tls"}, Try("sdma_wiface")), Get("temp_mds", <<>>), Put("temp_mds") >>
scp_worker_close_ifaces ==
    << When({"rc_wif"}, Put("rc_wiface")), When({"sdma_wif"}, Put("sdma_wiface")), Put("ifaces") >>

scp_worker_iface_open(wiface, iface) ==
    << Get(wiface, <<>>), Get("iface_config", Puts(<<wiface>>)),
       Get(iface, Puts(<<"iface_config", wiface>>)), Put("iface_config"),
       Ask(Puts(<<iface, wiface>>)) >>
scp_worker_iface_cleanup(wiface, iface) == Puts(<<iface, wiface>>)

scp_worker_delete_stars_stream == << Opt("rc_stream"), Opt("sdma_stream") >>
scp_worker_create_stars_stream ==
    << Get("stars_handle", <<>>),
       When({"rc_wif"}, Get("rc_stream", scp_worker_delete_stars_stream)),
       When({"sdma_wif"}, Get("sdma_stream", scp_worker_delete_stars_stream)) >>

(* Interface of rc: a class of three levels, each undone when the next fails *)
sct_ib_iface_init ==
    LET bits    == Puts(<<"path_bits">>)
        channel == Puts(<<"comp_channel">>) \o bits
    IN << Ask(<<>>), Get("path_bits", <<>>), Get("comp_channel", bits), Ask(channel),
          Get("new_tx_cq", channel), Get("new_rx_cq", Puts(<<"tx_cq">>) \o channel) >>
sct_ib_iface_cleanup == Puts(<<"rx_cq", "tx_cq", "comp_channel", "path_bits">>)
sct_ib_ofd_create_cq(cq) == << Get(cq, <<>>), Ask(<<>>) >>

sct_rc_iface_init == << Get("ib_iface", <<>>), Ask(Puts(<<"ib_iface">>)) >>
sct_rc_iface_cleanup == << Put("ib_iface") >>
sct_rc_ofd_iface_init == << Get("rc_if_mem", <<>>), Get("rc_iface", Puts(<<"rc_if_mem">>)) >>
sct_rc_ofd_iface_cleanup == Puts(<<"rc_gc", "rc_iface", "rc_if_mem">>)
(* Endpoints whose last event has not arrived are finished here. *)
sct_rc_iface_cleanup_eps ==
    << When({"ep_cleanup_ctx"}, Put("rc_qp")), When({"ep_cleanup_ctx"}, Put("rc_qp_event")),
       Opt("ep_cleanup_ctx") >>

sct_sdma_ofd_iface_init == << Get("sdma_if_mem", <<>>), Ask(Puts(<<"sdma_if_mem">>)) >>
sct_sdma_ofd_iface_cleanup == << Put("sdma_if_mem") >>

(* Endpoint of rc; "in_ep_list" is its place in the interface's list.  The
   queue pair outlives the endpoint. *)
sct_rc_ofd_ep_init ==
    LET err == Puts(<<"rc_qp", "rc_ep_mem">>)
    IN << Get("rc_ep_mem", <<>>), Get("rc_qp", Puts(<<"rc_ep_mem">>)), Sure("in_ep_list"),
          Ask(err), Get("rc_qp_event", err) >>
sct_rc_ofd_ep_cleanup == << Sure("ep_cleanup_ctx"), Put("in_ep_list"), Put("rc_ep_mem") >>
sct_sdma_ofd_ep_init == << Get("sdma_ep_mem", <<>>), Ask(Puts(<<"sdma_ep_mem">>)) >>

(* Endpoint of the protocol: the lock is given back on success only.  The
   second test of destory_base looks at the address it has just cleared. *)
scp_ep_create_base ==
    << Get("ep_mem", <<>>), Get("self_addr", Puts(<<"ep_mem">>)),
       Get("peer_addr", Puts(<<"self_addr", "ep_mem">>)) >>
scp_ep_destory_base == << Opt("self_addr"), Put("ep_mem") >>

scp_ep_create ==
    << Sure("async_lock"), Get("ep_base", <<>>), Ask(Puts(<<"ep_base">>)),
       When({"rc_wif"}, Try("rc_ep")), NeedAny({"rc_ep_mem", "sdma_wif"}, Puts(<<"ep_base">>)),
       Put("async_lock") >>
scp_ep_destroy ==
    << When({"rc_ep_mem"}, Put("rc_ep")), Opt("sdma_ep_mem"), Put("ep_base") >>

scp_connect_ep ==
    << Ask(<<>>), When({"sdma_wif"}, Get("sdma_ep", <<>>)), When({"rc_ep_mem"}, Ask(<<>>)),
       Put("peer_addr"), Put("self_addr") >>

(* Address of the worker, handed to the application. *)
scp_worker_get_address == << Get("address_devices", <<>>), Get("stars_worker_addr", Puts(<<"address_devices">>)),
                             Put("address_devices") >>

CommParts ==
    [ rc_stars_load   |-> Part(sct_stars_load("rc_stars_ref"), sct_stars_unload("rc_stars_ref")),
      sdma_stars_load |-> Part(sct_stars_load("sdma_stars_ref"), sct_stars_unload("sdma_stars_ref")),
      rc_md           |-> Part(sct_ib_md_open, sct_ib_md_close),
      rc_ofd_md       |-> Part(sct_rc_ofd_md_open, sct_rc_ofd_md_cleanup),
      ib_md_common    |-> Part(sct_ib_md_open_common, <<>>),
      ib_device       |-> Part(sct_ib_device_init, sct_ib_device_cleanup),
      sdma_md         |-> Part(sct_sdma_ofd_md_open, sct_sdma_ofd_md_close),
      rc_rmem         |-> Part(sct_ib_mem_reg("rc_rmemh", "rc_rmr"), sct_ib_mem_dereg("rc_rmemh", "rc_rmr")),
      rc_smem         |-> Part(sct_ib_mem_reg("rc_smemh", "rc_smr"), sct_ib_mem_dereg("rc_smemh", "rc_smr")),
      sdma_rmem       |-> Part(sct_sdma_ofd_mem_reg("sdma_rkey", "sdma_rpin"), sct_sdma_ofd_mem_dereg("sdma_rpin")),
      sdma_smem       |-> Part(sct_sdma_ofd_mem_reg("sdma_skey", "sdma_spin"), sct_sdma_ofd_mem_dereg("sdma_spin")),
      rmem            |-> Part(scp_mem_reg("lrmemh", "rc_rmem", "sdma_rmem"), scp_mem_dereg("rc_rmem", "sdma_rmem")),
      smem            |-> Part(scp_mem_reg("lsmemh", "rc_smem", "sdma_smem"), scp_mem_dereg("rc_smem", "sdma_smem")),
      rkeys           |-> Part(scp_md_mkey_unpack, <<>>),
      scp_config      |-> Part(scp_config_read, scp_free_config),
      rc_tl_md        |-> Part(scp_fill_tl_md("rc_md"), <<>>),
      sdma_tl_md      |-> Part(scp_fill_tl_md("sdma_md"), <<>>),
      rc_tl           |-> Part(scp_add_tl_resources("rc_tls"), <<>>),
      sdma_tl         |-> Part(scp_add_tl_resources("sdma_tls"), <<>>),
      rc_component    |-> Part(scp_add_component_resources("rc_tl_md", "rc_md", "rc_md_mem", "rc_tl",
                                                           "rc_tls", {"none"}), <<>>),
      sdma_component  |-> Part(scp_add_component_resources("sdma_tl_md", "sdma_md", "sdma_params_pool", "sdma_tl",
                                                           "sdma_tls", {"rc_md_mem"}), <<>>),
      scp_resources   |-> Part(scp_fill_resources, scp_free_resources),
      scp_context     |-> Part(scp_context_init, scp_cleanup),
      scp_worker      |-> Part(scp_create_worker, scp_worker_destroy),
      worker_ifaces   |-> Part(scp_worker_add_resource_ifaces, scp_worker_close_ifaces),
      rc_wiface       |-> Part(scp_worker_iface_open("rc_wif", "rc_ofd_iface"),
                               scp_worker_iface_cleanup("rc_wif", "rc_ofd_iface")),
      sdma_wiface     |-> Part(scp_worker_iface_open("sdma_wif", "sdma_iface"),
                               scp_worker_iface_cleanup("sdma_wif", "sdma_iface")),
      stars_stream    |-> Part(scp_worker_create_stars_stream, scp_worker_delete_stars_stream),
      new_tx_cq       |-> Part(sct_ib_ofd_create_cq("tx_cq"), <<>>),
      new_rx_cq       |-> Part(sct_ib_ofd_create_cq("rx_cq"), <<>>),
      ib_iface        |-> Part(sct_ib_iface_init, sct_ib_iface_cleanup),
      rc_iface        |-> Part(sct_rc_iface_init, sct_rc_iface_cleanup),
      rc_ofd_iface    |-> Part(sct_rc_ofd_iface_init, sct_rc_ofd_iface_cleanup),
      rc_gc           |-> Part(<<>>, sct_rc_iface_cleanup_eps),
      sdma_iface      |-> Part(sct_sdma_ofd_iface_init, sct_sdma_ofd_iface_cleanup),
      rc_ep           |-> Part(sct_rc_ofd_ep_init, sct_rc_ofd_ep_cleanup),
      sdma_ep         |-> Part(sct_sdma_ofd_ep_init, <<>>),
      ep_base         |-> Part(scp_ep_create_base, scp_ep_destory_base),
      scp_ep          |-> Part(scp_ep_create, scp_ep_destroy),
      scp_connect     |-> Part(scp_connect_ep, <<>>),
      scp_address     |-> Part(scp_worker_get_address, <<>>) ]
=============================================================================
