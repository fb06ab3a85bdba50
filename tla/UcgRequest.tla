------------------------------ MODULE UcgRequest ------------------------------
(***************************************************************************)
(* The life cycle of collective requests on one process: creation, start,  *)
(* test, progress of the context, completion callback and cleanup, as      *)
(* several user threads drive them under the recursive context lock.       *)
(*                                                                         *)
(* Sources: core/ucg_request.c, core/ucg_group.h (request ids),            *)
(* core/ucg_context.c (ucg_context_progress), util/ucg_lock.h.             *)
(*                                                                         *)
(* A step is what a thread does between two points at which another thread *)
(* or the user's callback can act: the body of a call runs under the       *)
(* context lock, so it is one step up to the completion callback and one   *)
(* step after it.                                                          *)
(***************************************************************************)
EXTENDS Integers, Sequences

CONSTANTS
  Threads,            \* user threads calling the API
  Requests,           \* the op objects of the plan component's memory pool
  HasCb,              \* requests created with UCG_REQUEST_INFO_FIELD_CB
  CbFrees,            \* requests whose own callback calls ucg_request_cleanup
  Nil,                \* no thread, or the list head when used as a cursor
  BASE_REQ_ID,        \* UCG_GROUP_BASE_REQ_ID
  END_REQ_ID,         \* UCG_GROUP_END_REQ_ID
  TriggerOutcomes,    \* <<value returned by op->trigger, op->super.status>>
  MaxStarts           \* bound on the calls of ucg_request_start

ASSUME CallbackAssumption == CbFrees \subseteq HasCb /\ HasCb \subseteq Requests
ASSUME NilAssumption == Nil \notin Threads /\ Nil \notin Requests
ASSUME ReqIdAssumption ==
  /\ BASE_REQ_ID \in Int /\ END_REQ_ID \in Int
  /\ BASE_REQ_ID + 1 < END_REQ_ID
ASSUME OutcomeAssumption ==
  TriggerOutcomes \subseteq
    {<<"OK", "INPROGRESS">>, <<"OK", "OK">>, <<"ERR", "ERR">>, <<"ERR", "INPROGRESS">>}
ASSUME BoundAssumption == MaxStarts \in Nat

VARIABLES
  live,           \* live[r]: the object is a request the user holds
  status,         \* request->status
  id,             \* request->id
  plist,          \* context->plist, the requests in progress
  unique_req_id,  \* group->unique_req_id
  owner, depth,   \* context->mt_lock: holder and recursion depth
  pc,             \* where each thread is
  req, nxt,       \* the request a thread works on; tmp_req of the progress loop
  inloop,         \* the request is tested from ucg_context_progress
  starts,         \* history: number of request ids handed out
  startSeq,       \* history: value of starts when the request was last started
  due,            \* history: the request's last start still owes a callback
  failed          \* history: the last start of the request returned an error

reqVars == <<live, status, id, plist, unique_req_id>>
lockVars == <<owner, depth>>
callVars == <<pc, req, nxt, inloop>>
histVars == <<starts, startSeq, due, failed>>
vars == <<reqVars, lockVars, callVars, histVars>>

Status == {"OK", "INPROGRESS", "ERR"}
PCs == {"idle", "loop", "cb", "exit", "ret"}

TypeOK ==
  /\ live \in [Requests -> BOOLEAN]
  /\ status \in [Requests -> Status]
  /\ id \in [Requests -> Int]
  /\ plist \in Seq(Requests)
  /\ unique_req_id \in Int
  /\ owner \in Threads \cup {Nil}
  /\ depth \in 0..2
  /\ pc \in [Threads -> PCs]
  /\ req \in [Threads -> Requests \cup {Nil}]
  /\ nxt \in [Threads -> Requests \cup {Nil}]
  /\ inloop \in [Threads -> BOOLEAN]
  /\ starts \in Nat
  /\ startSeq \in [Requests -> Nat]
  /\ due \in [Requests -> BOOLEAN]
  /\ failed \in [Requests -> BOOLEAN]

Init ==
  /\ live = [r \in Requests |-> FALSE]
  /\ status = [r \in Requests |-> "OK"]
  /\ id = [r \in Requests |-> BASE_REQ_ID]
  /\ plist = <<>>
  /\ unique_req_id = BASE_REQ_ID
  /\ owner = Nil /\ depth = 0
  /\ pc = [t \in Threads |-> "idle"]
  /\ req = [t \in Threads |-> Nil]
  /\ nxt = [t \in Threads |-> Nil]
  /\ inloop = [t \in Threads |-> FALSE]
  /\ starts = 0
  /\ startSeq = [r \in Requests |-> 0]
  /\ due = [r \in Requests |-> FALSE]
  /\ failed = [r \in Requests |-> FALSE]

-----------------------------------------------------------------------------
(* Helpers *)

InList(r) == \E i \in 1..Len(plist) : plist[i] = r

\* ucs_list_del: r is unlinked wherever it is.
ListDel(s, r) ==
  LET i == CHOOSE i \in 1..Len(s) : s[i] = r
  IN  [j \in 1..(Len(s) - 1) |-> IF j < i THEN s[j] ELSE s[j + 1]]

\* The list entry after r, Nil being the head of the circular list.
ListNext(s, r) ==
  IF r = Nil
  THEN IF s = <<>> THEN Nil ELSE s[1]
  ELSE LET i == CHOOSE i \in 1..Len(s) : s[i] = r
       IN  IF i = Len(s) THEN Nil ELSE s[i + 1]

\* Mutant: the counter wraps one id early.
AllocReqId_WrapEarly ==
  IF unique_req_id + 2 = END_REQ_ID THEN BASE_REQ_ID + 1 ELSE unique_req_id + 1

\* Mutant: the counter wraps to the reserved id.
AllocReqId_WrapToBase ==
  IF unique_req_id + 1 = END_REQ_ID THEN BASE_REQ_ID ELSE unique_req_id + 1

\* ucg_group_alloc_req_id: the next id, wrapping around below END_REQ_ID.
AllocReqId ==
  IF unique_req_id + 1 = END_REQ_ID THEN BASE_REQ_ID + 1 ELSE unique_req_id + 1

\* A user makes one call at a time on a request, and none on a request that
\* its own callback may free while it is in flight.
Calling(r) == \E t \in Threads : pc[t] # "idle" /\ req[t] = r /\ ~inloop[t]
UserMayCall(t, r) ==
  /\ pc[t] = "idle" /\ owner = Nil
  /\ live[r] /\ ~Calling(r)

\* Mutant: the callback is forgotten.
CompletePC_NoCallback(r) == "exit"

\* What a call does once ucg_request_complete has reset the id: it runs the
\* callback if there is one and unlocks through request->group afterwards.
\* CompletePC is the point the calling thread reaches.
CompletePC(r) == IF r \in HasCb THEN "cb" ELSE "exit"

-----------------------------------------------------------------------------
(* User calls *)

\* ucg_request_<coll>_init, ucg_request_init: an op of the pool becomes a
\* request (a failed prepare leaves no request and changes nothing).
RequestInit(t, r) ==
  /\ pc[t] = "idle" /\ owner = Nil
  /\ ~live[r]
  /\ live' = [live EXCEPT ![r] = TRUE]
  /\ status' = [status EXCEPT ![r] = "OK"]
  /\ id' = [id EXCEPT ![r] = BASE_REQ_ID]
  /\ due' = [due EXCEPT ![r] = FALSE]
  /\ failed' = [failed EXCEPT ![r] = FALSE]
  /\ UNCHANGED <<plist, unique_req_id, lockVars, callVars, starts, startSeq>>

\* ucg_request_start: the id is drawn before the trigger, whatever becomes of it.
Trigger(r, outcome) ==
  /\ status' = [status EXCEPT ![r] = outcome[2]]
  /\ unique_req_id' = AllocReqId
  /\ starts' = starts + 1
  /\ startSeq' = [startSeq EXCEPT ![r] = starts + 1]

StartInProgress(t, r) ==
  /\ UserMayCall(t, r) /\ status[r] = "OK" /\ starts < MaxStarts
  /\ <<"OK", "INPROGRESS">> \in TriggerOutcomes
  /\ Trigger(r, <<"OK", "INPROGRESS">>)
  /\ id' = [id EXCEPT ![r] = AllocReqId]
  /\ plist' = Append(plist, r)
  /\ due' = [due EXCEPT ![r] = r \in HasCb]
  /\ UNCHANGED <<live, lockVars, callVars, failed>>

StartComplete(t, r) ==
  /\ UserMayCall(t, r) /\ status[r] = "OK" /\ starts < MaxStarts
  /\ <<"OK", "OK">> \in TriggerOutcomes
  /\ Trigger(r, <<"OK", "OK">>)
  /\ id' = [id EXCEPT ![r] = BASE_REQ_ID]
  /\ due' = [due EXCEPT ![r] = r \in HasCb]
  /\ owner' = t /\ depth' = 1
  /\ pc' = [pc EXCEPT ![t] = CompletePC(r)]
  /\ req' = [req EXCEPT ![t] = r]
  /\ UNCHANGED <<live, plist, nxt, inloop, failed>>

StartFail(t, r) ==
  /\ UserMayCall(t, r) /\ status[r] = "OK" /\ starts < MaxStarts
  /\ \E outcome \in TriggerOutcomes :
       outcome[1] = "ERR" /\ Trigger(r, outcome)
  /\ id' = [id EXCEPT ![r] = AllocReqId]
  /\ failed' = [failed EXCEPT ![r] = TRUE]
  /\ UNCHANGED <<live, plist, lockVars, callVars, due>>

\* ucg_request_test on a request that is not in progress: the lock is dropped
\* and request->status is read afterwards.
TestDone(t, r) ==
  /\ UserMayCall(t, r) /\ ~failed[r] /\ r \notin CbFrees
  /\ status[r] # "INPROGRESS"
  /\ pc' = [pc EXCEPT ![t] = "ret"]
  /\ req' = [req EXCEPT ![t] = r]
  /\ UNCHANGED <<reqVars, lockVars, nxt, inloop, histVars>>

TestReturn(t) ==
  /\ pc[t] = "ret"
  /\ pc' = [pc EXCEPT ![t] = "idle"]
  /\ req' = [req EXCEPT ![t] = Nil]
  /\ UNCHANGED <<reqVars, lockVars, nxt, inloop, histVars>>

\* Mutant: the completed request stays linked.
Complete_NoListDel(r, s) ==
  /\ status' = [status EXCEPT ![r] = s]
  /\ id' = [id EXCEPT ![r] = BASE_REQ_ID]
  /\ UNCHANGED plist

\* The part of ucg_request_test after op->progress reported the end of the op
\* (while it reports UCG_INPROGRESS nothing changes).
Complete(r, s) ==
  /\ status' = [status EXCEPT ![r] = s]
  /\ plist' = ListDel(plist, r)
  /\ id' = [id EXCEPT ![r] = BASE_REQ_ID]

TestComplete(t, r) ==
  /\ UserMayCall(t, r) /\ ~failed[r] /\ r \notin CbFrees
  /\ status[r] = "INPROGRESS"
  /\ \E s \in {"OK", "ERR"} : Complete(r, s)
  /\ owner' = t /\ depth' = 1
  /\ pc' = [pc EXCEPT ![t] = CompletePC(r)]
  /\ req' = [req EXCEPT ![t] = r]
  /\ UNCHANGED <<live, unique_req_id, nxt, inloop, histVars>>

\* Mutant: cleanup does not take the context lock.
Cleanup_NoLock(t, r) ==
  /\ pc[t] = "idle" /\ live[r] /\ ~Calling(r)
  /\ r \in CbFrees => startSeq[r] = 0 \/ failed[r]
  /\ status[r] # "INPROGRESS"
  /\ live' = [live EXCEPT ![r] = FALSE]
  /\ startSeq' = [startSeq EXCEPT ![r] = 0]
  /\ UNCHANGED <<status, id, plist, unique_req_id, lockVars, callVars, starts, due, failed>>

\* ucg_request_cleanup discards the op unless it is in progress.
Cleanup(t, r) ==
  /\ UserMayCall(t, r)
  /\ r \in CbFrees => startSeq[r] = 0 \/ failed[r]
  /\ status[r] # "INPROGRESS"
  /\ live' = [live EXCEPT ![r] = FALSE]
  /\ startSeq' = [startSeq EXCEPT ![r] = 0]
  /\ UNCHANGED <<status, id, plist, unique_req_id, lockVars, callVars, starts, due, failed>>

-----------------------------------------------------------------------------
(* ucg_context_progress *)

\* Mutant: tmp_req is not advanced past the first request.
ProgressBegin_TmpIsElem(t) ==
  /\ pc[t] = "idle" /\ owner = Nil
  /\ plist # <<>>
  /\ owner' = t /\ depth' = 1
  /\ pc' = [pc EXCEPT ![t] = "loop"]
  /\ inloop' = [inloop EXCEPT ![t] = TRUE]
  /\ req' = [req EXCEPT ![t] = plist[1]]
  /\ nxt' = [nxt EXCEPT ![t] = plist[1]]
  /\ UNCHANGED <<reqVars, histVars>>

\* Mutant: the loop starts at the second request.
ProgressBegin_SkipHead(t) ==
  /\ pc[t] = "idle" /\ owner = Nil
  /\ plist # <<>>
  /\ owner' = t /\ depth' = 1
  /\ pc' = [pc EXCEPT ![t] = "loop"]
  /\ inloop' = [inloop EXCEPT ![t] = TRUE]
  /\ req' = [req EXCEPT ![t] = ListNext(plist, plist[1])]
  /\ nxt' = [nxt EXCEPT ![t] = ListNext(plist, ListNext(plist, plist[1]))]
  /\ UNCHANGED <<reqVars, histVars>>

\* The list is not empty: the loop starts at its first entry.
ProgressBegin(t) ==
  /\ pc[t] = "idle" /\ owner = Nil
  /\ plist # <<>>
  /\ owner' = t /\ depth' = 1
  /\ pc' = [pc EXCEPT ![t] = "loop"]
  /\ inloop' = [inloop EXCEPT ![t] = TRUE]
  /\ req' = [req EXCEPT ![t] = plist[1]]
  /\ nxt' = [nxt EXCEPT ![t] = ListNext(plist, plist[1])]
  /\ UNCHANGED <<reqVars, histVars>>

\* elem = tmp_elem, tmp_elem = tmp_elem->next
Advance(t) ==
  /\ req' = [req EXCEPT ![t] = nxt[t]]
  /\ nxt' = [nxt EXCEPT ![t] = ListNext(plist, nxt[t])]

\* The request is still in progress after its test.
LoopPending(t) ==
  /\ pc[t] = "loop" /\ req[t] # Nil
  /\ Advance(t)
  /\ UNCHANGED <<reqVars, lockVars, pc, inloop, histVars>>

\* The request ended in its test, which runs at recursion depth 2.
LoopComplete(t) ==
  /\ pc[t] = "loop" /\ req[t] # Nil
  /\ status[req[t]] = "INPROGRESS"
  /\ \E s \in {"OK", "ERR"} : Complete(req[t], s)
  /\ depth' = depth + 1
  /\ pc' = [pc EXCEPT ![t] = CompletePC(req[t])]
  /\ UNCHANGED <<live, unique_req_id, owner, req, nxt, inloop, histVars>>

\* Mutant: the lock is not released at the end of the loop.
LoopEnd_NoUnlock(t) ==
  /\ pc[t] = "loop" /\ req[t] = Nil
  /\ pc' = [pc EXCEPT ![t] = "idle"]
  /\ inloop' = [inloop EXCEPT ![t] = FALSE]
  /\ nxt' = [nxt EXCEPT ![t] = Nil]
  /\ UNCHANGED <<reqVars, lockVars, req, histVars>>

\* All entries visited: the plan components are progressed, then unlock.
LoopEnd(t) ==
  /\ pc[t] = "loop" /\ req[t] = Nil
  /\ owner' = Nil /\ depth' = 0
  /\ pc' = [pc EXCEPT ![t] = "idle"]
  /\ inloop' = [inloop EXCEPT ![t] = FALSE]
  /\ nxt' = [nxt EXCEPT ![t] = Nil]
  /\ UNCHANGED <<reqVars, req, histVars>>

-----------------------------------------------------------------------------
(* The completion callback, run under the lock *)

\* The callback may call ucg_request_cleanup: on its own request if r is in
\* CbFrees, or on any other request the user is done with.
CbCleanup(t, r) ==
  /\ pc[t] = "cb"
  /\ live[r] /\ status[r] # "INPROGRESS"
  /\ IF r = req[t] THEN r \in CbFrees
     ELSE ~Calling(r) /\ (r \in CbFrees => startSeq[r] = 0 \/ failed[r])
  /\ live' = [live EXCEPT ![r] = FALSE]
  /\ startSeq' = [startSeq EXCEPT ![r] = 0]
  /\ UNCHANGED <<status, id, plist, unique_req_id, lockVars, callVars, starts, due, failed>>

CbReturn(t) ==
  /\ pc[t] = "cb"
  /\ req[t] \in CbFrees => ~live[req[t]]
  /\ pc' = [pc EXCEPT ![t] = "exit"]
  /\ due' = [due EXCEPT ![req[t]] = FALSE]
  /\ UNCHANGED <<reqVars, lockVars, req, nxt, inloop, starts, startSeq, failed>>

\* Mutant: the lock is released twice.
Exit_DoubleUnlock(t) ==
  /\ pc[t] = "exit"
  /\ depth' = depth - 2
  /\ owner' = Nil
  /\ pc' = [pc EXCEPT ![t] = "idle"]
  /\ req' = [req EXCEPT ![t] = Nil]
  /\ UNCHANGED <<reqVars, nxt, inloop, histVars>>

\* ucg_context_unlock(request->group->context) and the return to the caller.
Exit(t) ==
  /\ pc[t] = "exit"
  /\ depth' = depth - 1
  /\ IF inloop[t]
     THEN /\ pc' = [pc EXCEPT ![t] = "loop"]
          /\ Advance(t)
          /\ UNCHANGED owner
     ELSE /\ pc' = [pc EXCEPT ![t] = "idle"]
          /\ owner' = Nil
          /\ req' = [req EXCEPT ![t] = Nil]
          /\ UNCHANGED nxt
  /\ UNCHANGED <<reqVars, inloop, histVars>>

-----------------------------------------------------------------------------
Next ==
  \E t \in Threads :
    \/ \E r \in Requests :
         \/ RequestInit(t, r)
         \/ StartInProgress(t, r) \/ StartComplete(t, r) \/ StartFail(t, r)
         \/ TestDone(t, r) \/ TestComplete(t, r)
         \/ Cleanup(t, r) \/ CbCleanup(t, r)
    \/ TestReturn(t)
    \/ ProgressBegin(t) \/ LoopPending(t) \/ LoopComplete(t) \/ LoopEnd(t)
    \/ CbReturn(t) \/ Exit(t)

Spec == Init /\ [][Next]_vars

\* The application calls ucg_progress again and again, every call that took the
\* lock is carried on, callbacks return, and the op of a request ends if it is
\* tested again and again.
Fairness ==
  /\ SF_vars(\E t \in Threads : ProgressBegin(t))
  /\ \A t \in Threads :
       /\ WF_vars(LoopPending(t)) /\ WF_vars(LoopEnd(t))
       /\ WF_vars(CbReturn(t)) /\ WF_vars(Exit(t)) /\ WF_vars(TestReturn(t))
       /\ \A r \in CbFrees : WF_vars(req[t] = r /\ CbCleanup(t, r))
  /\ \A r \in Requests : SF_vars(\E t \in Threads : req[t] = r /\ LoopComplete(t))

FairSpec == Spec /\ Fairness

-----------------------------------------------------------------------------
(* Properties *)

\* The context lock: a thread between the lock and the unlock of an API call
\* owns it, at depth 2 exactly while ucg_context_progress is inside
\* ucg_request_test, and nobody owns it otherwise.
LockDiscipline ==
  /\ \A t \in Threads :
       pc[t] \in {"loop", "cb", "exit"} =>
         owner = t /\ depth = (IF inloop[t] /\ pc[t] # "loop" THEN 2 ELSE 1)
  /\ \A t \in Threads : owner = t => pc[t] \in {"loop", "cb", "exit"}
  /\ owner = Nil => depth = 0

\* context->plist holds exactly the requests the user started successfully and
\* that are still in progress, each once; none of them has been discarded.
PlistIsInProgress ==
  /\ \A r \in Requests :
       InList(r) <=> live[r] /\ status[r] = "INPROGRESS" /\ ~failed[r]
  /\ \A i, j \in 1..Len(plist) : plist[i] = plist[j] => i = j

\* list_for_each_safe stays safe although completion callbacks run inside the
\* loop of ucg_context_progress: the saved cursor is still linked, and so is
\* the request about to be tested.
CursorLinked ==
  \A t \in Threads :
    /\ nxt[t] # Nil => InList(nxt[t])
    /\ pc[t] = "loop" /\ req[t] # Nil => InList(req[t])

\* The callback runs once for each start that did not fail: it is owed exactly
\* while the request is in the list or the callback is on the stack of a thread.
CallbackExactlyOnce ==
  \A r \in HasCb :
    due[r] <=> InList(r) \/ \E t \in Threads : pc[t] = "cb" /\ req[t] = r

\* No callback and no other thread frees a request that a call of another
\* request's user still reads after its unlock or callback.
NoForeignDiscard ==
  \A t \in Threads :
    pc[t] \in {"exit", "ret"} /\ req[t] \notin CbFrees => live[req[t]]

\* The id counter is a function of the number of starts alone, failed starts
\* included: members of a group that start the same sequence of collectives
\* draw the same ids ("different members must obtain the same request ID").
ReqIdFollowsStarts ==
  unique_req_id = IF starts = 0 THEN BASE_REQ_ID
                  ELSE BASE_REQ_ID + 1 + ((starts - 1) % (END_REQ_ID - BASE_REQ_ID - 1))

\* Two requests in flight share an id, hence a message tag, only if a whole
\* cycle of ids was handed out between their starts.
ReqIdsDistinctInWindow ==
  \A r, s \in Requests :
    /\ r # s /\ InList(r) /\ InList(s)
    /\ startSeq[s] - startSeq[r] \in 0..(END_REQ_ID - BASE_REQ_ID - 2)
    => id[r] # id[s]

\* A request in the list is completed (and removed) as long as the context is
\* progressed.
StartedCompletes == \A r \in Requests : InList(r) ~> ~InList(r)

\* ucg.h on the completion callback: "Only ucg_request_cleanup is allowed to be
\* called in the callback", so the caller must not read the request after it.
NoUseAfterDiscard ==
  \A t \in Threads : pc[t] \in {"exit", "ret"} => live[req[t]]
=============================================================================
