------------------------------- MODULE MetaOp -------------------------------
(***************************************************************************)
(* A meta op runs its sub-ops one after the other under one request id.    *)
(* Its progress function triggers the current sub-op once, progresses it,  *)
(* and moves on when it has completed. The sub-ops are the ops of the UCX  *)
(* plan component; here they are known by what their trigger and progress  *)
(* functions return. Source: core/ucg_plan.c.                              *)
(***************************************************************************)
EXTENDS Integers

CONSTANTS
  MaxOps,    \* bound on the sub-ops of a meta op
  MaxStarts  \* bound on how often the request is started

ASSUME BoundsAssumption == MaxOps \in Nat /\ MaxStarts \in Nat

VARIABLES
  n_ops,            \* sub-ops that were added to the meta op
  n_completed_ops,
  triggered,        \* the current sub-op has been triggered
  status,           \* status of the request
  id,               \* request id; the number of starts stands for it
  sub_id,           \* sub_id[i]: request id of sub-op i when it was triggered
  ended,            \* history: ended[i] is the id under which sub-op i completed
  failed            \* history: some sub-op returned an error under this id

vars == <<n_ops, n_completed_ops, triggered, status, id, sub_id, ended, failed>>

Statuses == {"OK", "INPROGRESS", "ERR"}
Ops == 0..(n_ops - 1)
NO_ID == 0

Init ==
  /\ n_ops \in 0..MaxOps
  /\ n_completed_ops = 0
  /\ triggered = FALSE
  /\ status = "OK"
  /\ id = NO_ID
  /\ sub_id = [i \in Ops |-> NO_ID]
  /\ ended = [i \in Ops |-> NO_ID]
  /\ failed = FALSE

\* Mutant: a sub-op is counted twice.
Completed_Twice(i) ==
  /\ n_completed_ops' = i + 2
  /\ triggered' = FALSE
  /\ status' = IF i + 1 = n_ops THEN "OK" ELSE "INPROGRESS"

\* Mutant: the sub-op is run again and again.
Completed_Stay(i) ==
  /\ n_completed_ops' = i
  /\ triggered' = FALSE
  /\ status' = IF i + 1 = n_ops THEN "OK" ELSE "INPROGRESS"

\* Mutant: the request is complete one sub-op early.
Completed_Early(i) ==
  /\ n_completed_ops' = i + 1
  /\ triggered' = FALSE
  /\ status' = IF i + 1 >= n_ops - 1 THEN "OK" ELSE "INPROGRESS"

\* The current sub-op i has completed.
Completed(i) ==
  /\ n_completed_ops' = i + 1
  /\ triggered' = FALSE
  /\ status' = IF i + 1 = n_ops THEN "OK" ELSE "INPROGRESS"

\* Mutant: the sub-ops overlap.
NotCompleted_Next(i, result) ==
  /\ n_completed_ops' = IF i + 1 < n_ops THEN i + 1 ELSE i
  /\ triggered' = FALSE
  /\ status' = result

\* The current sub-op i is still going, or its progress failed.
NotCompleted(i, result) ==
  /\ n_completed_ops' = i
  /\ triggered' = TRUE
  /\ status' = result

\* One call of the progress function under the request id rid, with i sub-ops
\* completed; t and result are what trigger and progress of the sub-op return.
\* What trigger returns is overwritten by what progress returns.
MetaProgress(i, rid, before, t, result) ==
  /\ triggered => t = "OK"
  /\ sub_id' = IF triggered THEN sub_id ELSE [sub_id EXCEPT ![i] = rid]
  /\ ended' = IF result = "OK" THEN [ended EXCEPT ![i] = sub_id'[i]] ELSE ended
  /\ failed' = (before \/ t = "ERR" \/ result = "ERR")
  /\ IF result = "OK" THEN Completed(i) ELSE NotCompleted(i, result)

\* ucg_request_start and ucg_plan_meta_op_trigger, for a meta op without
\* sub-ops and for one with some.
StartEmpty ==
  /\ status = "OK" /\ id < MaxStarts
  /\ n_ops = 0
  /\ id' = id + 1
  /\ UNCHANGED <<n_ops, n_completed_ops, triggered, status, sub_id, ended, failed>>

Start(t, result) ==
  /\ status = "OK" /\ id < MaxStarts
  /\ n_ops > 0
  /\ id' = id + 1
  /\ MetaProgress(0, id + 1, FALSE, t, result)
  /\ UNCHANGED n_ops

\* ucg_request_test or ucg_context_progress.
Progress(t, result) ==
  /\ status = "INPROGRESS"
  /\ MetaProgress(n_completed_ops, id, failed, t, result)
  /\ UNCHANGED <<n_ops, id>>

\* A sub-op whose trigger has failed can be progressed all the same: its flags
\* are set before a copy fails, and cleared before a message fails to be posted.
Next ==
  \/ StartEmpty
  \/ \E t \in {"OK", "ERR"}, result \in Statuses : Start(t, result) \/ Progress(t, result)

Spec == Init /\ [][Next]_vars

\* The request is progressed again and again, and a sub-op does not go on for
\* ever: the other members progress their requests, too.
FairSpec ==
  Spec /\ WF_vars(\E t \in {"OK", "ERR"}, result \in {"OK", "ERR"} : Progress(t, result))

-----------------------------------------------------------------------------
(* Properties *)

TypeOK ==
  /\ n_ops \in 0..MaxOps
  /\ n_completed_ops \in 0..n_ops
  /\ triggered \in BOOLEAN
  /\ status \in Statuses
  /\ id \in 0..MaxStarts
  /\ sub_id \in [Ops -> 0..MaxStarts]
  /\ ended \in [Ops -> 0..MaxStarts]
  /\ failed \in BOOLEAN

\* A request that is complete ran every sub-op to its end, triggered under the
\* id of this start: also when a request is started again, no sub-op is skipped
\* because it still looks triggered or completed.
CompleteRanAll == status = "OK" => \A i \in Ops : sub_id[i] = id /\ ended[i] = id

\* While the request is in progress the sub-ops before the current one have
\* ended under its id and those after it have not been triggered: the messages
\* of two sub-ops, which have the same tag, are never posted out of order.
OneAtATime ==
  status = "INPROGRESS" =>
    \A i \in Ops : /\ i < n_completed_ops => ended[i] = id
                   /\ i > n_completed_ops => sub_id[i] < id

\* A request in progress ends, and so a persistent request can be started
\* again or freed.
Ends == status = "INPROGRESS" ~> status # "INPROGRESS"

\* What ucg_request_test promises of UCG_OK: the request is completed
\* successfully, so no sub-op has reported an error.
OkMeansSuccess == status = "OK" => ~failed

\* Inductive strengthening: a request that is not in progress and has not
\* failed leaves no sub-op triggered, so that the next start begins afresh.
Fresh ==
  /\ status = "OK" => ~triggered
  /\ status = "INPROGRESS" => n_completed_ops < n_ops
  /\ \A i \in Ops : sub_id[i] <= id
  /\ (status # "OK" /\ triggered) => sub_id[n_completed_ops] = id
  /\ status # "OK" => \A i \in Ops : i < n_completed_ops => sub_id[i] = id
=============================================================================
