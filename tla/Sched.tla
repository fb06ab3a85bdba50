-------------------------------- MODULE Sched --------------------------------
(***************************************************************************)
(* How the schedule modules write stages, and the sub-ops of a meta op     *)
(* over the topology groups. Sources: planc_ucx_meta.c, core/ucg_plan.c.   *)
(***************************************************************************)
EXTENDS Integers, Sequences, FiniteSets, SequencesExt, Topo

\* count cells of a buffer from an offset: the address and count of a message.
Cells(area, offset, count) ==
  [i \in 1..(IF count > 0 THEN count ELSE 0) |-> <<area, offset + i - 1>>]

Send(to, cells) == [to |-> to, cells |-> cells]
Recv(from, cells) == [from |-> from, cells |-> cells]

\* A stage that only posts messages, and one that only computes.
Stage(send, recv) == [local |-> <<>>, send |-> send, recv |-> recv]
Local(steps) == [local |-> steps, send |-> <<>>, recv |-> <<>>]
Reduce(src, dst) == [op |-> "reduce", src |-> src, dst |-> dst]
Copy(src, dst) == [op |-> "copy", src |-> src, dst |-> dst]

\* A message, or a stage, for each entry of a sequence.
Each(s, F(_)) == [i \in DOMAIN s |-> F(s[i])]

\* testall returns at once in a stage with nothing to post.
NonEmpty(stages) ==
  SelectSeq(stages, LAMBDA s : s.local # <<>> \/ s.send # <<>> \/ s.recv # <<>>)

\* Local steps before the first stage of an op.
First(steps, stages) ==
  IF stages = <<>> THEN NonEmpty(<<Local(steps)>>)
  ELSE [stages EXCEPT ![1].local = steps \o @]

\* Tree degrees of a configuration, and those of the binomial variants.
Degrees(fanin_intra, fanin_inter, fanout_intra, fanout_inter) ==
  [fanin_intra |-> fanin_intra, fanin_inter |-> fanin_inter,
   fanout_intra |-> fanout_intra, fanout_inter |-> fanout_inter]
Binomial == Degrees(2, 2, 2, 2)

\* A sub-op on a topology group: a member of a disabled group gets an empty op.
SubOp(loc, type, p, stages) == IF TopoEnabled(loc, type, p) THEN stages ELSE <<>>
=============================================================================
