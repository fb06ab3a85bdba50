------------------------------- MODULE UcxP2P -------------------------------
(***************************************************************************)
(* The point-to-point layer of the UCX plan component on one process: the  *)
(* ops taken from the op pool post sends and receives to UCP, whose        *)
(* completions come back through callbacks run inside any progress of the  *)
(* shared worker and are counted in the op's p2p_state.                    *)
(*                                                                         *)
(* Sources: planc/ucx/planc_ucx_p2p.c, planc_ucx_p2p.h, planc_ucx_plan.h   *)
(* (op_init, op_reset, discard) and reduce/reduce_kntree.c, the one        *)
(* algorithm that keeps the UCP request in a slot of its own.              *)
(*                                                                         *)
(* UCP itself is external. ucp_tag_send_nbx and ucp_tag_recv_nbx           *)
(*   "null"     complete at once, without a callback;                      *)
(*   "err"      fail at once, without a callback;                          *)
(*   "pending"  return a request whose callback runs later;                *)
(*   "doneptr"  return a request that is already complete, and whose       *)
(*              callback already ran.                                      *)
(***************************************************************************)
EXTENDS Integers, FiniteSets

CONSTANTS
  Ops,           \* op objects of the context's op_mp
  Reqs,          \* UCP request objects of the worker
  Nil,           \* no op
  NbxOutcomes,   \* what the UCP posting functions may do
  DoneStatus,    \* status of a request that is complete when it is returned
  MaxPosts       \* bound on the messages one start of an op posts

ASSUME ReqsAssumption == IsFiniteSet(Reqs) /\ Nil \notin Ops
ASSUME OutcomesAssumption ==
  /\ NbxOutcomes \subseteq {"null", "err", "pending", "doneptr"}
  /\ DoneStatus \subseteq {"OK", "IO_ERROR"}
ASSUME PostsAssumption == MaxPosts \in Nat

VARIABLES
  inUse,     \* the op object is taken from the pool
  status,    \* op->super.super.status
  io,        \* op->p2p_state.status
  sends,     \* op->p2p_state.inflight_send_cnt
  recvs,     \* op->p2p_state.inflight_recv_cnt
  slots,     \* the requests op->reduce.requests[] points to
  ucp,       \* the UCP request: "free", "pending" or "done"
  result,    \* completion status of the UCP request
  freeInCb,  \* request->free_in_cb
  user,      \* the op whose p2p_state is its user_data, Nil once it is freed
  kind,      \* "send" or "recv"
  posted,    \* history: messages posted by the current start
  counted,   \* history: the start posted more than receives into slots
  lost,      \* history: some message of the current start failed
  stale      \* history: a start of the op object was given up with messages in flight

opVars == <<inUse, status, io, sends, recvs, slots>>
ucpVars == <<ucp, result, freeInCb, user, kind>>
histVars == <<posted, counted, lost, stale>>
vars == <<opVars, ucpVars, histVars>>

Kinds == {"send", "recv"}

TypeOK ==
  /\ inUse \in [Ops -> BOOLEAN]
  /\ status \in [Ops -> {"OK", "INPROGRESS", "ERR"}]
  /\ io \in [Ops -> {"OK", "IO_ERROR"}]
  /\ sends \in [Ops -> Int]
  /\ recvs \in [Ops -> Int]
  /\ slots \in [Ops -> SUBSET Reqs]
  /\ ucp \in [Reqs -> {"free", "pending", "done"}]
  /\ result \in [Reqs -> {"OK", "IO_ERROR"}]
  /\ freeInCb \in [Reqs -> BOOLEAN]
  /\ user \in [Reqs -> Ops \cup {Nil}]
  /\ kind \in [Reqs -> Kinds]
  /\ posted \in [Ops -> Nat]
  /\ counted \in [Ops -> BOOLEAN]
  /\ lost \in [Ops -> BOOLEAN]
  /\ stale \in [Ops -> BOOLEAN]

Init ==
  /\ inUse = [o \in Ops |-> FALSE]
  /\ status = [o \in Ops |-> "OK"]
  /\ io = [o \in Ops |-> "OK"]
  /\ sends = [o \in Ops |-> 0]
  /\ recvs = [o \in Ops |-> 0]
  /\ slots = [o \in Ops |-> {}]
  /\ ucp = [q \in Reqs |-> "free"]
  /\ result = [q \in Reqs |-> "OK"]
  /\ freeInCb = [q \in Reqs |-> FALSE]   \* ucg_planc_ucx_p2p_req_init
  /\ user = [q \in Reqs |-> Nil]
  /\ kind = [q \in Reqs |-> "send"]
  /\ posted = [o \in Ops |-> 0]
  /\ counted = [o \in Ops |-> FALSE]
  /\ lost = [o \in Ops |-> FALSE]
  /\ stale = [o \in Ops |-> FALSE]

-----------------------------------------------------------------------------
(* Helpers *)

Pending(o, k) == {q \in Reqs : ucp[q] = "pending" /\ user[q] = o /\ kind[q] = k}
Outstanding(o) == Pending(o, "send") \cup Pending(o, "recv")

\* Mutant: the UCS status is stored as it is.
CallbackIo_Raw(o, s) == IF s = "OK" THEN io[o] ELSE "UCS_ERR"

\* The status of p2p_state after one more callback with result s.
CallbackIo(o, s) == IF s = "OK" THEN io[o] ELSE "IO_ERROR"

\* ucg_planc_ucx_p2p_state_reset
StateReset(o) ==
  /\ io' = [io EXCEPT ![o] = "OK"]
  /\ sends' = [sends EXCEPT ![o] = 0]
  /\ recvs' = [recvs EXCEPT ![o] = 0]

\* The op is given up although, but for those in freed, UCP requests are still
\* its own.
GiveUp(o, freed) ==
  stale' = [stale EXCEPT ![o] = @ \/ Outstanding(o) # {} \/ slots[o] \ freed # {}]

\* op may post: its progress function runs and has not posted all it has to.
MayPost(o) == status[o] = "INPROGRESS" /\ posted[o] < MaxPosts

CountPost(o, k, useSlot) ==
  /\ posted' = [posted EXCEPT ![o] = @ + 1]
  /\ counted' = [counted EXCEPT ![o] = @ \/ k = "send" \/ ~useSlot]

-----------------------------------------------------------------------------
(* Life of an op *)

\* <coll>_op_new: ucg_mpool_get, the op's constructor, ucg_planc_ucx_op_init.
OpNew(o) ==
  /\ ~inUse[o]
  /\ inUse' = [inUse EXCEPT ![o] = TRUE]
  /\ status' = [status EXCEPT ![o] = "OK"]
  /\ StateReset(o)
  /\ UNCHANGED <<slots, ucpVars, histVars>>

\* The head of every trigger: ucg_planc_ucx_op_reset, and reduce_kntree's reset
\* of its slots. ucg_request_start refuses any other status.
OpReset(o) ==
  /\ inUse[o] /\ status[o] = "OK"
  /\ status' = [status EXCEPT ![o] = "INPROGRESS"]
  /\ StateReset(o)
  /\ slots' = [slots EXCEPT ![o] = {}]
  /\ posted' = [posted EXCEPT ![o] = 0]
  /\ counted' = [counted EXCEPT ![o] = FALSE]
  /\ lost' = [lost EXCEPT ![o] = FALSE]
  /\ UNCHANGED <<inUse, ucpVars, stale>>

\* ucg_request_cleanup discards an op that is not in progress.
Discard(o) ==
  /\ inUse[o] /\ status[o] # "INPROGRESS"
  /\ inUse' = [inUse EXCEPT ![o] = FALSE]
  /\ slots' = [slots EXCEPT ![o] = {}]
  /\ posted' = [posted EXCEPT ![o] = 0]
  /\ counted' = [counted EXCEPT ![o] = FALSE]
  /\ lost' = [lost EXCEPT ![o] = FALSE]
  /\ UNCHANGED <<status, io, sends, recvs, ucpVars, stale>>

-----------------------------------------------------------------------------
(* ucg_planc_ucx_p2p_isend and ucg_planc_ucx_p2p_irecv *)

\* The message is complete when nbx returns NULL; the slot is not written.
PostNull(o, k, useSlot) ==
  /\ MayPost(o) /\ "null" \in NbxOutcomes
  /\ CountPost(o, k, useSlot)
  /\ UNCHANGED <<opVars, ucpVars, lost, stale>>

\* nbx fails, or there is no endpoint, worker or data type: the progress
\* function returns the error and the op ends with it.
PostError(o, k, useSlot) ==
  /\ MayPost(o) /\ "err" \in NbxOutcomes
  /\ CountPost(o, k, useSlot)
  /\ status' = [status EXCEPT ![o] = "ERR"]
  /\ lost' = [lost EXCEPT ![o] = TRUE]
  /\ GiveUp(o, {})
  /\ UNCHANGED <<inUse, io, sends, recvs, slots, ucpVars>>

\* Mutant: the receive counter is not incremented.
PostPending_NoCount(o, k, useSlot, q) ==
  /\ MayPost(o) /\ "pending" \in NbxOutcomes
  /\ ucp[q] = "free"
  /\ CountPost(o, k, useSlot)
  /\ ucp' = [ucp EXCEPT ![q] = "pending"]
  /\ user' = [user EXCEPT ![q] = o]
  /\ kind' = [kind EXCEPT ![q] = k]
  /\ freeInCb' = [freeInCb EXCEPT ![q] = ~useSlot]
  /\ slots' = IF useSlot THEN [slots EXCEPT ![o] = @ \cup {q}] ELSE slots
  /\ sends' = IF k = "send" THEN [sends EXCEPT ![o] = @ + 1] ELSE sends
  /\ UNCHANGED <<recvs, inUse, status, io, result, lost, stale>>

\* Mutant: free_in_cb is left set although the request goes into a slot.
PostPending_KeepFreeInCb(o, k, useSlot, q) ==
  /\ MayPost(o) /\ "pending" \in NbxOutcomes
  /\ ucp[q] = "free"
  /\ CountPost(o, k, useSlot)
  /\ ucp' = [ucp EXCEPT ![q] = "pending"]
  /\ user' = [user EXCEPT ![q] = o]
  /\ kind' = [kind EXCEPT ![q] = k]
  /\ freeInCb' = [freeInCb EXCEPT ![q] = TRUE]
  /\ slots' = IF useSlot THEN [slots EXCEPT ![o] = @ \cup {q}] ELSE slots
  /\ sends' = IF k = "send" THEN [sends EXCEPT ![o] = @ + 1] ELSE sends
  /\ recvs' = IF k = "recv" THEN [recvs EXCEPT ![o] = @ + 1] ELSE recvs
  /\ UNCHANGED <<inUse, status, io, result, lost, stale>>

\* The request is in flight: it is counted, and owned either by the slot the
\* caller gave or by the callback.
PostPending(o, k, useSlot, q) ==
  /\ MayPost(o) /\ "pending" \in NbxOutcomes
  /\ ucp[q] = "free"
  /\ CountPost(o, k, useSlot)
  /\ ucp' = [ucp EXCEPT ![q] = "pending"]
  /\ user' = [user EXCEPT ![q] = o]
  /\ kind' = [kind EXCEPT ![q] = k]
  /\ freeInCb' = [freeInCb EXCEPT ![q] = ~useSlot]
  /\ slots' = IF useSlot THEN [slots EXCEPT ![o] = @ \cup {q}] ELSE slots
  /\ sends' = IF k = "send" THEN [sends EXCEPT ![o] = @ + 1] ELSE sends
  /\ recvs' = IF k = "recv" THEN [recvs EXCEPT ![o] = @ + 1] ELSE recvs
  /\ UNCHANGED <<inUse, status, io, result, lost, stale>>

\* Mutant: the counter is not incremented for a request that is done already.
PostDonePtr_NoCount(o, k, useSlot, q, s) ==
  /\ MayPost(o) /\ "doneptr" \in NbxOutcomes
  /\ ucp[q] = "free"
  /\ CountPost(o, k, useSlot)
  /\ io' = [io EXCEPT ![o] = CallbackIo(o, s)]
  /\ sends' = IF k = "send" THEN [sends EXCEPT ![o] = @ - 1] ELSE sends
  /\ recvs' = IF k = "recv" THEN [recvs EXCEPT ![o] = @ - 1] ELSE recvs
  /\ lost' = [lost EXCEPT ![o] = @ \/ s # "OK"]
  /\ UNCHANGED <<inUse, status, slots, ucpVars, stale>>

\* The callback decremented the counter before the caller incremented it, with
\* free_in_cb still 0; the caller frees the request and leaves the slot NULL.
PostDonePtr(o, k, useSlot, q, s) ==
  /\ MayPost(o) /\ "doneptr" \in NbxOutcomes
  /\ ucp[q] = "free"
  /\ CountPost(o, k, useSlot)
  /\ io' = [io EXCEPT ![o] = CallbackIo(o, s)]
  /\ lost' = [lost EXCEPT ![o] = @ \/ s # "OK"]
  /\ UNCHANGED <<inUse, status, sends, recvs, slots, ucpVars, stale>>

-----------------------------------------------------------------------------
(* Completions *)

\* Mutant: the failure of a message is not recorded.
Done_NoStatus(q, s) ==
  /\ ucp[q] = "pending"
  /\ sends' = IF kind[q] = "send" THEN [sends EXCEPT ![user[q]] = @ - 1] ELSE sends
  /\ recvs' = IF kind[q] = "recv" THEN [recvs EXCEPT ![user[q]] = @ - 1] ELSE recvs
  /\ result' = [result EXCEPT ![q] = IF freeInCb[q] THEN "OK" ELSE s]
  /\ ucp' = [ucp EXCEPT ![q] = IF freeInCb[q] THEN "free" ELSE "done"]
  /\ user' = [user EXCEPT ![q] = IF freeInCb[q] THEN Nil ELSE @]
  /\ freeInCb' = [freeInCb EXCEPT ![q] = FALSE]
  /\ lost' = [lost EXCEPT ![user[q]] = @ \/ s # "OK"]
  /\ UNCHANGED <<io, inUse, status, slots, kind, posted, counted, stale>>

\* isend_done, irecv_done: run by whoever progresses the worker, they update
\* the p2p_state the request was posted with, whatever became of that op.
Done(q, s) ==
  /\ ucp[q] = "pending"
  /\ io' = [io EXCEPT ![user[q]] = CallbackIo(user[q], s)]
  /\ sends' = IF kind[q] = "send" THEN [sends EXCEPT ![user[q]] = @ - 1] ELSE sends
  /\ recvs' = IF kind[q] = "recv" THEN [recvs EXCEPT ![user[q]] = @ - 1] ELSE recvs
  /\ result' = [result EXCEPT ![q] = IF freeInCb[q] THEN "OK" ELSE s]
  /\ ucp' = [ucp EXCEPT ![q] = IF freeInCb[q] THEN "free" ELSE "done"]
  /\ user' = [user EXCEPT ![q] = IF freeInCb[q] THEN Nil ELSE @]
  /\ freeInCb' = [freeInCb EXCEPT ![q] = FALSE]
  /\ lost' = [lost EXCEPT ![user[q]] = @ \/ s # "OK"]
  /\ UNCHANGED <<inUse, status, slots, kind, posted, counted, stale>>

\* ucg_planc_ucx_p2p_test on a slot whose request is complete. An error ends
\* the op although the other slots may still be in flight.
Test(o, q) ==
  /\ status[o] = "INPROGRESS" /\ q \in slots[o]
  /\ ucp[q] = "done"
  /\ ucp' = [ucp EXCEPT ![q] = "free"]
  /\ user' = [user EXCEPT ![q] = Nil]
  /\ result' = [result EXCEPT ![q] = "OK"]
  /\ slots' = [slots EXCEPT ![o] = @ \ {q}]
  /\ status' = [status EXCEPT ![o] = IF result[q] = "OK" THEN @ ELSE "ERR"]
  /\ IF result[q] = "OK" THEN UNCHANGED stale ELSE GiveUp(o, {q})
  /\ UNCHANGED <<inUse, io, sends, recvs, freeInCb, kind, posted, counted, lost>>

\* Mutant: only the send counter is tested.
AllDone_SendsOnly(o) == sends[o] = 0

\* The condition under which ucg_planc_ucx_p2p_testall returns state->status.
AllDone(o) == sends[o] = 0 /\ recvs[o] = 0

\* ucg_planc_ucx_p2p_testall as the last step of a progress function.
Testall(o) ==
  /\ status[o] = "INPROGRESS" /\ posted[o] = MaxPosts /\ slots[o] = {}
  /\ AllDone(o)
  /\ status' = [status EXCEPT ![o] = IF io[o] = "OK" THEN "OK" ELSE "ERR"]
  /\ UNCHANGED <<inUse, io, sends, recvs, slots, ucpVars, histVars>>

\* The root of reduce_kntree has no parent: its progress returns UCG_OK once
\* every slot has been tested, without ucg_planc_ucx_p2p_testall.
RootDone(o) ==
  /\ status[o] = "INPROGRESS" /\ posted[o] = MaxPosts
  /\ slots[o] = {} /\ ~counted[o]
  /\ status' = [status EXCEPT ![o] = "OK"]
  /\ UNCHANGED <<inUse, io, sends, recvs, slots, ucpVars, histVars>>

-----------------------------------------------------------------------------
Next ==
  \/ \E o \in Ops :
       \/ OpNew(o) \/ OpReset(o) \/ Discard(o)
       \/ Testall(o) \/ RootDone(o)
       \/ \E q \in Reqs : Test(o, q)
       \/ \E k \in Kinds, useSlot \in BOOLEAN :
            \/ PostNull(o, k, useSlot) \/ PostError(o, k, useSlot)
            \/ \E q \in Reqs :
                 \/ PostPending(o, k, useSlot, q)
                 \/ \E s \in DoneStatus : PostDonePtr(o, k, useSlot, q, s)
  \/ \E q \in Reqs, s \in {"OK", "IO_ERROR"} : Done(q, s)

Spec == Init /\ [][Next]_vars

\* The worker is progressed again and again and UCP finishes every message; a
\* progress function posts what it has to and tests what it posted.
Fairness ==
  /\ \A q \in Reqs : WF_vars(\E s \in {"OK", "IO_ERROR"} : Done(q, s))
  /\ \A o \in Ops :
       /\ WF_vars(\E q \in Reqs : Test(o, q)) /\ WF_vars(Testall(o))
       /\ WF_vars(\E k \in Kinds, useSlot \in BOOLEAN : PostNull(o, k, useSlot))

FairSpec == Spec /\ Fairness

-----------------------------------------------------------------------------
(* Properties *)

\* The two counters of p2p_state are the numbers of sends and receives UCP
\* still holds for the op, as long as no start of the op object was given up
\* with messages in flight: callbacks that run before the counter is
\* incremented, immediate completions and reuse of the object do not skew them.
CountersAreOutstanding ==
  \A o \in Ops :
    ~stale[o] =>
      /\ sends[o] = Cardinality(Pending(o, "send"))
      /\ recvs[o] = Cardinality(Pending(o, "recv"))

\* testall is sound: an op whose start ended has nothing left in UCP,
\* unless it was given up, that could still write to its buffers or its p2p_state.
CompletedIsQuiet ==
  \A o \in Ops : ~stale[o] /\ status[o] # "INPROGRESS" => Outstanding(o) = {}

\* Exactly one party frees a UCP request: the callback (free_in_cb), or the op
\* through its slot; a slot never refers to a request that was freed, and a
\* completed request is kept only as long as a slot refers to it.
SingleOwner ==
  /\ \A o \in Ops : \A q \in slots[o] :
       ucp[q] # "free" /\ ~freeInCb[q] /\ user[q] = o
  /\ \A q \in Reqs :
       /\ ucp[q] # "free" /\ ~freeInCb[q] /\ ~stale[user[q]] => q \in slots[user[q]]
       /\ ucp[q] # "pending" => ~freeInCb[q]

\* An error of any message of the start, reported by UCP at any time, makes
\* testall and so the op fail.
ErrorsReachTheOp ==
  \A o \in Ops : ~stale[o] /\ status[o] = "INPROGRESS" /\ lost[o] => io[o] = "IO_ERROR"

\* An op in progress ends once UCP has finished its messages, whichever of them
\* fail, unless an earlier start of the op object was given up with messages in
\* flight.
OpEnds ==
  \A o \in Ops : status[o] = "INPROGRESS" ~> status[o] # "INPROGRESS" \/ stale[o]

\* ucg.h on ucg_request_test: a failed request "can only be cleanup through
\* ucg_request_cleanup"; a callback must then not hit the next user of the op.
NoCallbackIntoReusedOp ==
  \A o \in Ops : inUse[o] /\ status[o] = "INPROGRESS" => sends[o] >= 0 /\ recvs[o] >= 0
=============================================================================
