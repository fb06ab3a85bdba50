----------------------------- MODULE PlanChoice -----------------------------
(***************************************************************************)
(* How the members of a group come to run the same algorithm.  A request   *)
(* is initialised without communication: every member looks the size of    *)
(* its own arguments up in its own plans (ucg_plans_prepare) and tries the *)
(* prepare functions of the plans it finds, best score first, until one    *)
(* accepts.  Nothing makes the members agree but that they evaluate the    *)
(* same tables and checks on the same values.                              *)
(*                                                                         *)
(* The plan container is its specification in Plans (PreparesTheBest): the *)
(* plan with the highest score among those that cover the size and accept. *)
(* Allocation failures, after which one member may fall back alone, are    *)
(* left out.                                                               *)
(***************************************************************************)
EXTENDS UcxPolicies, SequencesExt

CONSTANTS
    Members,      \* the members that are looked at
    Root,         \* one of them: the root of rooted collectives
    Groups,       \* groups, with the number of processes in every socket
    Configs,      \* configurations, the same for all members
    Calls(_)      \* the calls of a group: collective, and arguments of each member

ASSUME PlanChoiceAssumption == Root \in Members

VARIABLES
    group,     \* size and topology of the group
    config,    \* [default, consistency, stars, user]
    call,      \* the arguments of every member; NoCall between calls
    choice     \* member -> the plan it runs; NoPlan before it has chosen

vars == <<group, config, call, choice>>

NoCall == <<>>
NoPlan == [comp |-> "none"]
NotFound == [comp |-> "not found"]

-----------------------------------------------------------------------------
(* Topology.  A group is [sockets, known]: sockets[n][s] is the number of  *)
(* processes of the group on socket s of node n, known says which ids the  *)
(* locations of the members have.                                          *)

OnNode(counts) == FoldLeft(LAMBDA a, b : a + b, 0, counts)

\* The common value of the counts that are not zero.
CommonCount(counts) ==
    LET used == {c \in counts : c # 0}
    IN  IF Cardinality(used) = 1 THEN CHOOSE c \in used : TRUE ELSE UNBALANCED

NodeCounts(sockets) == [n \in DOMAIN sockets |-> OnNode(sockets[n])]

\* ucg_topo_calc_ppn
Ppn(g) ==
    IF g.known = "nothing" THEN UNKNOWN ELSE CommonCount(Range(NodeCounts(g.sockets)))

\* ucg_topo_calc_pps
Pps(g) ==
    IF g.known # "sockets" THEN UNKNOWN ELSE CommonCount(UNION {Range(g.sockets[n]) : n \in DOMAIN g.sockets})

\* ucg_topo_init_detail: the nodes that were counted.
Topology(g) ==
    LET size == OnNode(NodeCounts(g.sockets))
    IN  [size |-> size, ppn |-> Ppn(g), pps |-> Pps(g), continuous |-> g.continuous,
         nnode |-> IF g.known = "nothing" THEN 0 ELSE Len(g.sockets)]

AveragePpn(t) == IF t.nnode = 0 THEN UNKNOWN ELSE t.size \div t.nnode

\* A group has nodes, and its processes are counted on each of them.
ASSUME GroupsAssumption ==
    \A g \in Groups :
        /\ Len(g.sockets) \in Nat \ {0}
        /\ NodeCounts(g.sockets) \in [DOMAIN g.sockets -> Nat]
        /\ OnNode(NodeCounts(g.sockets)) \in Nat

-----------------------------------------------------------------------------
(* The plans of a group for size s                                         *)

UcxScore == 89      \* UCG_PLAN_UCX_PLAN_SCORE_1ST
StarsScore == 20    \* UCG_PLANC_STARS_DEFAULT_SCORE
UserScore == 100    \* stands for UCG_PLAN_SCORE_MAX

\* ucg_planc_ucx_get_plan_policy
UcxTable(coll) ==
    LET n == NodeLevel(group.nnode)
        p == PpnLevel(AveragePpn(group))
    IN  CASE coll = "bcast" -> BcastTable(n, p, config.default)
          [] coll = "allreduce" -> AllreduceTable(n, p, config.default)
          [] coll = "allgatherv" -> AllgathervTable(n, p, config.default)
          [] coll = "barrier" -> BarrierTable(n, p)
          [] coll = "scatterv" -> ScattervTable
          [] coll = "gatherv" -> GathervTable
          [] coll = "reduce" -> ReduceTable
          [] OTHER -> <<>>

\* ucg_planc_stars_get_plan_policy
StarsTable(coll) ==
    CASE coll = "bcast" -> StarsBcastTable
      [] coll = "scatterv" -> StarsScattervTable
      [] coll = "allgatherv" -> StarsAllgathervTable
      [] coll = "barrier" -> StarsBarrierTable
      [] coll = "alltoallv" -> StarsAlltoallvTable
      [] OTHER -> <<>>

\* The algorithms that are registered (the attribute tables).
BcastIds == {1, 2, 3, 4, 5, 6, 8, 10, 11, 12, 13, 14}
AllreduceIds == 1 .. 10 \cup 12 .. 14
AllgathervIds == 1 .. 6
BarrierIds == 1 .. 9
ScattervIds == 1 .. 3

Registered(coll) ==
    CASE coll = "bcast" -> BcastIds
      [] coll = "allreduce" -> AllreduceIds
      [] coll = "allgatherv" -> AllgathervIds
      [] coll = "barrier" -> BarrierIds
      [] coll = "scatterv" -> ScattervIds
      [] coll \in {"gatherv", "reduce"} -> {1}
      [] OTHER -> {}

\* ucg_planc_ucx_set_plan_attr: a row with an unknown number is passed over.
Known(coll, rows) == {r \in rows : r.id \in Registered(coll)}

\* ucg_planc_ucx_add_default_plans
UcxPlans(coll, s) == Known(coll, RowsAt(UcxTable(coll), s, "ucx", UcxScore))

\* ucg_planc_ucx_add_user_plans: at most one, for all sizes.
UserPlans(coll) ==
    Known(coll, {[comp |-> "ucx", id |-> id, score |-> UserScore] : id \in config.user})

\* ucg_planc_stars_add_default_plans
StarsPlans(coll, s) ==
    IF config.stars THEN RowsAt(StarsTable(coll), s, "stars", StarsScore) ELSE {}

PlansFor(coll, s) == UcxPlans(coll, s) \cup UserPlans(coll) \cup StarsPlans(coll, s)

-----------------------------------------------------------------------------
(* Whether the prepare function of a plan accepts the arguments a           *)

Enough(a) == a.count >= group.size

PpnKnown == group.ppn # UNKNOWN
PpsKnown == group.pps # UNKNOWN
Balanced == group.ppn # UNBALANCED /\ group.pps # UNBALANCED

BcastAccepts(id, a) ==
    CASE id \in {1, 6, 10, 12, 13} -> TRUE
      [] id \in {2, 3, 4} -> PpnKnown
      [] id \in {8, 11, 14} -> Enough(a)
      [] id = 5 -> FALSE

\* The algorithms that reduce in another order on other members or calls.
Reorders(a) == a.commutative /\ ~config.consistency

\* ucg_planc_ucx_allreduce_na_rabenseifner_check
NaRabenseifnerAccepts(a) ==
    /\ Enough(a) /\ Reorders(a)
    /\ PpnKnown /\ PpsKnown /\ Balanced /\ group.ppn # 1
    /\ a.count % group.ppn = 0

\* ucg_planc_ucx_allreduce_sa_rabenseifner_check
SaRabenseifnerAccepts(a) ==
    /\ Enough(a) /\ Reorders(a)
    /\ PpnKnown /\ PpsKnown /\ Balanced /\ group.ppn # 1
    /\ group.pps # 1

AllreduceAccepts(id, a) ==
    CASE id = 1 -> TRUE
      [] id \in {2, 5, 7} -> Reorders(a) /\ PpnKnown
      [] id \in {3, 6, 8} -> Reorders(a) /\ PpnKnown /\ PpsKnown
      [] id \in {4, 12} -> Enough(a) /\ Reorders(a)
      [] id = 13 -> NaRabenseifnerAccepts(a)
      [] id = 14 -> SaRabenseifnerAccepts(a)
      [] id \in {9, 10} -> FALSE

\* ucg_planc_ucx_allgatherv_na_rolling_check
NaRollingAccepts ==
    /\ PpnKnown /\ group.ppn \notin {1, UNBALANCED}
    /\ group.size \div group.ppn # 1

AllgathervAccepts(id) ==
    CASE id = 1 -> group.size % 2 = 0
      [] id = 6 -> NaRollingAccepts
      [] id \in 2 .. 5 -> TRUE

BarrierAccepts(id) ==
    CASE id = 1 -> TRUE
      [] id \in {2, 4, 6} -> PpnKnown
      [] id \in {3, 5, 7} -> PpnKnown /\ PpsKnown
      [] id \in {8, 9} -> FALSE

\* ucg_planc_ucx_scatterv_na_kntree_check
ScattervNaKntreeAccepts ==
    /\ PpnKnown /\ group.ppn \notin {1, UNBALANCED, group.size}
    /\ group.continuous

\* "slower than OpenMPI in these scenarios, so roll back to OpenMPI"
GathervAccepts == group.size = 256

UcxAccepts(coll, id, a) ==
    CASE coll = "bcast" -> BcastAccepts(id, a)
      [] coll = "allreduce" -> AllreduceAccepts(id, a)
      [] coll = "allgatherv" -> AllgathervAccepts(id)
      [] coll = "barrier" -> BarrierAccepts(id)
      [] coll = "scatterv" -> id = 3 => ScattervNaKntreeAccepts
      [] coll = "gatherv" -> GathervAccepts
      [] coll = "reduce" -> a.commutative

\* The modified ring needs three members.
StarsAccepts(coll) == coll = "bcast" => group.size > 2

Accepts(coll, plan, a) ==
    IF plan.comp = "ucx" THEN UcxAccepts(coll, plan.id, a) ELSE StarsAccepts(coll)

-----------------------------------------------------------------------------
(* ucg_plans_prepare                                                       *)

\* Mutant: the size of an allgatherv is that of the member's own block.
MsgSize_OwnBlock(coll, a) ==
    CASE coll \in {"bcast", "allreduce", "reduce"} -> a.dt * a.count
      [] coll = "allgatherv" -> a.dt * a.own
      [] coll = "alltoallv" -> a.dt * a.own
      [] OTHER -> 0

\* ucg_request_msg_size: an allgatherv takes the average of all blocks (count),
\* alltoallv the average of what the member itself sends and receives (own).
MsgSize(coll, a) ==
    CASE coll \in {"bcast", "allreduce", "reduce"} -> a.dt * a.count
      [] coll = "allgatherv" -> a.dt * a.count
      [] coll = "alltoallv" -> a.dt * a.own
      [] OTHER -> 0

Collectives == {"bcast", "allreduce", "allgatherv", "barrier", "scatterv", "gatherv", "reduce", "alltoallv"}

Sized(a) == {a.dt, a.count, a.own} \subseteq Nat

\* What members of one call have in common; their own blocks may differ.
Matching(a, b) == a.dt = b.dt /\ a.count = b.count /\ a.commutative = b.commutative

\* A collective is called by all members, with arguments that match.
ASSUME CallsAssumption ==
    \A g \in Groups : \A c \in Calls(Topology(g)) :
        /\ c.coll \in Collectives
        /\ \A m, n \in Members : Sized(c.args[m]) /\ Matching(c.args[m], c.args[n])

Best(plans) == CHOOSE p \in plans : \A q \in plans : q.score <= p.score

\* Mutant: the fallbacks are not tried.
Select_NoFallback(coll, a) ==
    LET plans == PlansFor(coll, MsgSize(coll, a))
        able == {p \in plans : Accepts(coll, p, a)}
    IN  IF plans = {} \/ Best(plans) \notin able THEN NotFound ELSE Best(plans)

\* When the first choice for an alltoallv refuses, the search starts again with
\* size 0 (check_need_reselect).
Select(coll, a) ==
    LET plans == PlansFor(coll, MsgSize(coll, a))
        retry == coll = "alltoallv" /\ plans # {} /\ ~Accepts(coll, Best(plans), a)
        able == {p \in IF retry THEN PlansFor(coll, 0) ELSE plans : Accepts(coll, p, a)}
    IN  IF able = {} THEN NotFound ELSE Best(able)

-----------------------------------------------------------------------------
Init ==
    /\ group \in {Topology(g) : g \in Groups}
    /\ config \in Configs
    /\ call = NoCall
    /\ choice = [m \in Members |-> NoPlan]

\* The members make a collective call; the i-th call of each matches.
Begin(coll, args) ==
    /\ call = NoCall
    /\ call' = [coll |-> coll, args |-> args]
    /\ UNCHANGED <<group, config, choice>>

\* ucg_request_*_init of member m
Choose(m) ==
    /\ call # NoCall /\ choice[m] = NoPlan
    /\ choice' = [choice EXCEPT ![m] = Select(call.coll, call.args[m])]
    /\ UNCHANGED <<group, config, call>>

End ==
    /\ \A m \in Members : choice[m] # NoPlan
    /\ call' = NoCall
    /\ choice' = [m \in Members |-> NoPlan]
    /\ UNCHANGED <<group, config>>

Next ==
    \/ \E c \in Calls(group) : Begin(c.coll, c.args)
    \/ \E m \in Members : Choose(m)
    \/ End

Spec == Init /\ [][Next]_vars

-----------------------------------------------------------------------------
(* Properties *)

(* Members whose arguments match run the same algorithm, though each looks  *)
(* its own arguments up and falls back on its own (ucg_plans_prepare): if   *)
(* one of them takes another plan, or none, the others wait for messages    *)
(* that are never sent.                                                     *)
MembersAgree ==
    \A m, n \in Members : NoPlan \notin {choice[m], choice[n]} => choice[m] = choice[n]

(* What no plan of the library serves under the default policies: gathers   *)
(* on other than 256 members and non-commutative reduces, which are handed  *)
(* back to the caller on purpose; broadcasts below 64 bytes in groups whose *)
(* locations are unknown, for which bcast_4_4 has only the node-aware tree; *)
(* and alltoallv without the stars component.                               *)
Unserved(coll, a) ==
    \/ coll = "gatherv" /\ group.size # 256
    \/ coll = "reduce" /\ ~a.commutative
    \/ coll = "bcast" /\ group.nnode = 0 /\ a.dt * a.count < 64
    \/ coll = "alltoallv" /\ ~config.stars

(* Everything else is served, whatever the size and topology of the group,  *)
(* the size and type of the message and the reduction operator: each table  *)
(* ends every range in an algorithm that refuses nothing.                   *)
DefaultPolicyServes ==
    \A m \in Members :
        choice[m] = NotFound /\ config.default => Unserved(call.coll, call.args[m])
=============================================================================
