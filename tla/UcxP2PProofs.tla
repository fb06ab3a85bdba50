---------------------------- MODULE UcxP2PProofs ----------------------------
(***************************************************************************)
(* Proofs about UcxP2P, for any number of op objects and of UCP requests,  *)
(* any number of messages in a start and whatever UCP answers.             *)
(*                                                                         *)
(* The properties of an op hold until a start of its object is given up    *)
(* with messages in flight (stale).  None of them is inductive alone: the  *)
(* counters may be reset because nothing is in flight then, nothing is in  *)
(* flight because testall has read the counters or every slot was tested,  *)
(* and the slots hold all requests that no callback frees.                 *)
(***************************************************************************)
EXTENDS UcxP2P, FiniteSetTheorems, TLAPS

\* A UCP request has a user exactly as long as it is not free.
UserOfBusy == \A q \in Reqs : user[q] = Nil <=> ucp[q] = "free"

\* Only an op that is in use runs.
RunningIsInUse == \A o \in Ops : status[o] = "INPROGRESS" => inUse[o]

\* An op that does not run has no request in a slot, done or not.
NothingInSlots ==
  \A o \in Ops : ~stale[o] /\ status[o] # "INPROGRESS" => slots[o] = {}

\* A start that posted receives into slots only has no request that its
\* callback frees: what RootDone may rely on, since it reads no counter.
UncountedInSlots ==
  \A q \in Reqs : freeInCb[q] /\ ~stale[user[q]] => counted[user[q]]

IInv ==
  /\ TypeOK /\ CountersAreOutstanding /\ CompletedIsQuiet /\ SingleOwner
  /\ ErrorsReachTheOp
  /\ UserOfBusy /\ RunningIsInUse /\ NothingInSlots /\ UncountedInSlots

-----------------------------------------------------------------------------
(* The requests an op waits for *)

\* The requests of an op are finitely many, and none is counted as zero.
LEMMA PendingFinite ==
  ASSUME NEW o, NEW k
  PROVE  /\ IsFiniteSet(Pending(o, k))
         /\ Cardinality(Pending(o, k)) \in Nat
         /\ Cardinality(Pending(o, k)) = 0 <=> Pending(o, k) = {}
<1>1. Pending(o, k) \in SUBSET Reqs
  BY DEF Pending
<1>2. IsFiniteSet(Pending(o, k))
  BY <1>1, ReqsAssumption, FS_Subset
<1> QED
  BY <1>2, FS_CardinalityType, FS_EmptySet

\* What an op waits for, by kind.
LEMMA OutstandingEmpty ==
  ASSUME NEW o, \A q \in Reqs : kind[q] \in Kinds
  PROVE  Outstanding(o) = {} <=> \A q \in Reqs : ~(ucp[q] = "pending" /\ user[q] = o)
  BY DEF Outstanding, Pending, Kinds

LEMMA InitIInv == Init => IInv
<1> SUFFICES ASSUME Init PROVE IInv
  OBVIOUS
<1> USE DEF Init
<1>1. TypeOK
  BY DEF TypeOK, Kinds
<1>2. \A o, k : Pending(o, k) = {}
  BY DEF Pending
<1>3. CountersAreOutstanding
  BY <1>2, FS_EmptySet DEF CountersAreOutstanding
<1>4. CompletedIsQuiet /\ SingleOwner /\ ErrorsReachTheOp
  BY <1>2 DEF CompletedIsQuiet, Outstanding, SingleOwner, ErrorsReachTheOp
<1>5. UserOfBusy /\ RunningIsInUse /\ NothingInSlots /\ UncountedInSlots
  BY DEF UserOfBusy, RunningIsInUse, NothingInSlots, UncountedInSlots
<1> QED
  BY <1>1, <1>3, <1>4, <1>5 DEF IInv

-----------------------------------------------------------------------------
(* Steps that only touch ops *)

\* A step that leaves UCP's requests alone leaves what ops wait for alone.
LEMMA SamePending ==
  ASSUME UNCHANGED <<ucp, user, kind>>
  PROVE  \A o, k : Pending(o, k)' = Pending(o, k) /\ Outstanding(o)' = Outstanding(o)
BY DEF Pending, Outstanding

LEMMA OpNewIInv ==
  ASSUME IInv, NEW o \in Ops, OpNew(o)
  PROVE  IInv'
<1> USE DEF IInv, OpNew, StateReset
<1>1. TypeOK'
  BY DEF TypeOK, ucpVars, histVars
<1>2. \A p, k : Pending(p, k)' = Pending(p, k) /\ Outstanding(p)' = Outstanding(p)
  BY SamePending DEF ucpVars
<1>3. status[o] # "INPROGRESS"
  BY DEF RunningIsInUse
<1>4. CountersAreOutstanding'
  <2>1. ~stale[o] => \A k \in Kinds : Cardinality(Pending(o, k)) = 0
    BY <1>3, PendingFinite DEF CompletedIsQuiet, Outstanding, Kinds
  <2> QED
    BY <1>2, <2>1 DEF CountersAreOutstanding, TypeOK, histVars, Kinds
<1>5. CompletedIsQuiet' /\ ErrorsReachTheOp'
  BY <1>2, <1>3 DEF CompletedIsQuiet, ErrorsReachTheOp, TypeOK, histVars
<1>6. SingleOwner' /\ UserOfBusy' /\ UncountedInSlots'
  BY DEF SingleOwner, UserOfBusy, UncountedInSlots, ucpVars, histVars
<1>7. RunningIsInUse' /\ NothingInSlots'
  BY <1>3 DEF RunningIsInUse, NothingInSlots, TypeOK, histVars
<1> QED
  BY <1>1, <1>4, <1>5, <1>6, <1>7

\* A new start may reset the counters and the slots: nothing is in flight.
LEMMA OpResetIInv ==
  ASSUME IInv, NEW o \in Ops, OpReset(o)
  PROVE  IInv'
<1> USE DEF IInv, OpReset, StateReset
<1>1. TypeOK'
  BY DEF TypeOK, ucpVars
<1>2. \A p, k : Pending(p, k)' = Pending(p, k) /\ Outstanding(p)' = Outstanding(p)
  BY SamePending DEF ucpVars
<1>3. ~stale[o] => Outstanding(o) = {} /\ slots[o] = {}
  BY DEF CompletedIsQuiet, NothingInSlots
<1>4. CountersAreOutstanding'
  <2>1. ~stale[o] => \A k \in Kinds : Cardinality(Pending(o, k)) = 0
    BY <1>3, PendingFinite DEF Outstanding, Kinds
  <2> QED
    BY <1>2, <2>1 DEF CountersAreOutstanding, TypeOK, Kinds
<1>5. CompletedIsQuiet' /\ ErrorsReachTheOp'
  BY <1>2 DEF CompletedIsQuiet, ErrorsReachTheOp, TypeOK
<1>6. SingleOwner'
  BY <1>3 DEF SingleOwner, TypeOK, ucpVars
<1>7. UncountedInSlots'
  <2>1. ASSUME NEW q \in Reqs, freeInCb[q], ~stale[user[q]] PROVE user[q] # o
    <3>1. ucp[q] = "pending"
      BY <2>1 DEF SingleOwner
    <3> QED
      BY <1>3, <2>1, <3>1, OutstandingEmpty DEF TypeOK
  <2> QED
    BY <2>1 DEF UncountedInSlots, TypeOK, ucpVars
<1>8. UserOfBusy' /\ RunningIsInUse' /\ NothingInSlots'
  BY DEF UserOfBusy, RunningIsInUse, NothingInSlots, TypeOK, ucpVars
<1> QED
  BY <1>1, <1>4, <1>5, <1>6, <1>7, <1>8

LEMMA DiscardIInv ==
  ASSUME IInv, NEW o \in Ops, Discard(o)
  PROVE  IInv'
<1> USE DEF IInv, Discard
<1>1. TypeOK'
  BY DEF TypeOK, ucpVars
<1>2. \A p, k : Pending(p, k)' = Pending(p, k) /\ Outstanding(p)' = Outstanding(p)
  BY SamePending DEF ucpVars
<1>3. ~stale[o] => Outstanding(o) = {} /\ slots[o] = {}
  BY DEF CompletedIsQuiet, NothingInSlots
<1>4. CountersAreOutstanding' /\ CompletedIsQuiet' /\ ErrorsReachTheOp'
  BY <1>2 DEF CountersAreOutstanding, CompletedIsQuiet, ErrorsReachTheOp, TypeOK
<1>5. SingleOwner'
  BY <1>3 DEF SingleOwner, TypeOK, ucpVars
<1>6. UncountedInSlots'
  <2>1. ASSUME NEW q \in Reqs, freeInCb[q], ~stale[user[q]] PROVE user[q] # o
    <3>1. ucp[q] = "pending"
      BY <2>1 DEF SingleOwner
    <3> QED
      BY <1>3, <2>1, <3>1, OutstandingEmpty DEF TypeOK
  <2> QED
    BY <2>1 DEF UncountedInSlots, TypeOK, ucpVars
<1>7. UserOfBusy' /\ RunningIsInUse' /\ NothingInSlots'
  BY DEF UserOfBusy, RunningIsInUse, NothingInSlots, TypeOK, ucpVars
<1> QED
  BY <1>1, <1>4, <1>5, <1>6, <1>7

\* testall returns when both counters are zero, which means quiet.
LEMMA TestallIInv ==
  ASSUME IInv, NEW o \in Ops, Testall(o)
  PROVE  IInv'
<1> USE DEF IInv, Testall
<1>1. TypeOK'
  BY DEF TypeOK, ucpVars, histVars
<1>2. \A p, k : Pending(p, k)' = Pending(p, k) /\ Outstanding(p)' = Outstanding(p)
  BY SamePending DEF ucpVars
<1>3. ~stale[o] => Outstanding(o) = {}
  BY PendingFinite DEF AllDone, CountersAreOutstanding, Outstanding
<1>4. CountersAreOutstanding' /\ CompletedIsQuiet' /\ ErrorsReachTheOp'
  BY <1>2, <1>3 DEF CountersAreOutstanding, CompletedIsQuiet, ErrorsReachTheOp, TypeOK, histVars
<1>5. SingleOwner' /\ UserOfBusy' /\ UncountedInSlots'
  BY DEF SingleOwner, UserOfBusy, UncountedInSlots, ucpVars, histVars
<1>6. RunningIsInUse' /\ NothingInSlots'
  BY DEF RunningIsInUse, NothingInSlots, TypeOK, histVars
<1> QED
  BY <1>1, <1>4, <1>5, <1>6

\* The root of a reduction reads no counter: what it posted is all in slots, and
\* they are empty.
LEMMA RootDoneIInv ==
  ASSUME IInv, NEW o \in Ops, RootDone(o)
  PROVE  IInv'
<1> USE DEF IInv, RootDone
<1>1. TypeOK'
  BY DEF TypeOK, ucpVars, histVars
<1>2. \A p, k : Pending(p, k)' = Pending(p, k) /\ Outstanding(p)' = Outstanding(p)
  BY SamePending DEF ucpVars
<1>3. ~stale[o] => Outstanding(o) = {}
  <2>1. SUFFICES ASSUME ~stale[o], NEW q \in Reqs, ucp[q] = "pending", user[q] = o PROVE FALSE
    BY OutstandingEmpty DEF TypeOK
  <2>2. ~freeInCb[q]
    BY <2>1 DEF UncountedInSlots, TypeOK
  <2> QED
    BY <2>1, <2>2 DEF SingleOwner
<1>4. CountersAreOutstanding' /\ CompletedIsQuiet' /\ ErrorsReachTheOp'
  BY <1>2, <1>3 DEF CountersAreOutstanding, CompletedIsQuiet, ErrorsReachTheOp, TypeOK, histVars
<1>5. SingleOwner' /\ UserOfBusy' /\ UncountedInSlots'
  BY DEF SingleOwner, UserOfBusy, UncountedInSlots, ucpVars, histVars
<1>6. RunningIsInUse' /\ NothingInSlots'
  BY DEF RunningIsInUse, NothingInSlots, TypeOK, histVars
<1> QED
  BY <1>1, <1>4, <1>5, <1>6

-----------------------------------------------------------------------------
(* Posting *)

LEMMA PostNullIInv ==
  ASSUME IInv, NEW o \in Ops, NEW k \in Kinds, NEW useSlot \in BOOLEAN, PostNull(o, k, useSlot)
  PROVE  IInv'
<1> USE DEF IInv, PostNull, CountPost, MayPost
<1>1. TypeOK'
  BY DEF TypeOK, opVars, ucpVars
<1>2. \A p, l : Pending(p, l)' = Pending(p, l) /\ Outstanding(p)' = Outstanding(p)
  BY SamePending DEF ucpVars
<1>3. CountersAreOutstanding' /\ CompletedIsQuiet' /\ ErrorsReachTheOp'
  BY <1>2 DEF CountersAreOutstanding, CompletedIsQuiet, ErrorsReachTheOp, opVars
<1>4. SingleOwner' /\ UserOfBusy' /\ RunningIsInUse' /\ NothingInSlots'
  BY DEF SingleOwner, UserOfBusy, RunningIsInUse, NothingInSlots, opVars, ucpVars
<1>5. UncountedInSlots'
  BY DEF UncountedInSlots, TypeOK, ucpVars
<1> QED
  BY <1>1, <1>3, <1>4, <1>5

\* The op ends with the error; it is given up if anything is in flight.
LEMMA PostErrorIInv ==
  ASSUME IInv, NEW o \in Ops, NEW k \in Kinds, NEW useSlot \in BOOLEAN, PostError(o, k, useSlot)
  PROVE  IInv'
<1> USE DEF IInv, PostError, CountPost, MayPost, GiveUp
<1>1. TypeOK'
  BY DEF TypeOK, ucpVars
<1>2. \A p, l : Pending(p, l)' = Pending(p, l) /\ Outstanding(p)' = Outstanding(p)
  BY SamePending DEF ucpVars
<1>3. CountersAreOutstanding' /\ CompletedIsQuiet' /\ ErrorsReachTheOp'
  BY <1>2 DEF CountersAreOutstanding, CompletedIsQuiet, ErrorsReachTheOp, TypeOK
<1>4. SingleOwner' /\ UserOfBusy' /\ RunningIsInUse' /\ NothingInSlots'
  BY DEF SingleOwner, UserOfBusy, RunningIsInUse, NothingInSlots, TypeOK, ucpVars
<1>5. UncountedInSlots'
  BY DEF UncountedInSlots, TypeOK, ucpVars
<1> QED
  BY <1>1, <1>3, <1>4, <1>5

\* The request is counted when it is in flight, and has one owner.
LEMMA PostPendingIInv ==
  ASSUME IInv, NEW o \in Ops, NEW k \in Kinds, NEW useSlot \in BOOLEAN, NEW q \in Reqs,
         PostPending(o, k, useSlot, q)
  PROVE  IInv'
<1> USE DEF IInv, PostPending, CountPost, MayPost
<1>1. TypeOK'
  BY DEF TypeOK
<1>2. \A p \in Ops, l \in Kinds :
        Pending(p, l)' = IF p = o /\ l = k THEN Pending(p, l) \cup {q} ELSE Pending(p, l)
  BY DEF Pending, TypeOK
<1>3. \A p \in Ops, l \in Kinds : q \notin Pending(p, l)
  BY DEF Pending
<1>4. \A p \in Ops, l \in Kinds :
        Cardinality(Pending(p, l)') = IF p = o /\ l = k THEN Cardinality(Pending(p, l)) + 1
                                      ELSE Cardinality(Pending(p, l))
  <2> TAKE p \in Ops, l \in Kinds
  <2>1. IsFiniteSet(Pending(p, l))
    BY ONLY PendingFinite
  <2>2. Cardinality(Pending(p, l) \cup {q}) = Cardinality(Pending(p, l)) + 1
    BY ONLY <1>3, <2>1, FS_AddElement
  <2> QED
    BY ONLY <1>2, <2>2
<1>5. CountersAreOutstanding'
  BY <1>4 DEF CountersAreOutstanding, TypeOK, Kinds
<1>6. CompletedIsQuiet' /\ ErrorsReachTheOp'
  BY <1>2 DEF CompletedIsQuiet, ErrorsReachTheOp, Outstanding, TypeOK, Kinds
<1>7. SingleOwner'
  <2>1. \A p \in Ops : slots'[p] = IF useSlot /\ p = o THEN slots[p] \cup {q} ELSE slots[p]
    BY DEF TypeOK
  <2>2. ASSUME NEW p \in Ops, NEW r \in slots'[p]
        PROVE  ucp'[r] # "free" /\ ~freeInCb'[r] /\ user'[r] = p
    <3>1. CASE r \in slots[p]
      BY <3>1 DEF SingleOwner, TypeOK
    <3>2. CASE r = q /\ useSlot /\ p = o
      BY <3>2 DEF TypeOK
    <3> QED
      BY <2>1, <2>2, <3>1, <3>2
  <2>3. ASSUME NEW r \in Reqs
        PROVE  /\ ucp'[r] # "free" /\ ~freeInCb'[r] /\ ~stale[user'[r]] => r \in slots'[user'[r]]
               /\ ucp'[r] # "pending" => ~freeInCb'[r]
    <3>1. CASE r = q
      BY <2>1, <3>1 DEF TypeOK
    <3>2. CASE r # q
      <4>1. ucp[r] # "free" => user[r] \in Ops
        BY DEF UserOfBusy, TypeOK
      <4> QED
        BY <2>1, <3>2, <4>1 DEF SingleOwner, TypeOK
    <3> QED
      BY <3>1, <3>2
  <2> QED
    BY <2>2, <2>3 DEF SingleOwner
<1>8. UserOfBusy' /\ RunningIsInUse' /\ NothingInSlots'
  BY ReqsAssumption DEF UserOfBusy, RunningIsInUse, NothingInSlots, TypeOK
<1>9. UncountedInSlots'
  BY DEF UncountedInSlots, TypeOK
<1> QED
  BY <1>1, <1>5, <1>6, <1>7, <1>8, <1>9

\* The callback has come and gone; neither counter nor slot is left changed.
LEMMA PostDonePtrIInv ==
  ASSUME IInv, NEW o \in Ops, NEW k \in Kinds, NEW useSlot \in BOOLEAN, NEW q \in Reqs,
         NEW s \in {"OK", "IO_ERROR"}, PostDonePtr(o, k, useSlot, q, s)
  PROVE  IInv'
<1> USE DEF IInv, PostDonePtr, CountPost, MayPost, CallbackIo
<1>1. TypeOK'
  BY DEF TypeOK, ucpVars
<1>2. \A p, l : Pending(p, l)' = Pending(p, l) /\ Outstanding(p)' = Outstanding(p)
  BY SamePending DEF ucpVars
<1>3. CountersAreOutstanding' /\ CompletedIsQuiet' /\ ErrorsReachTheOp'
  BY <1>2 DEF CountersAreOutstanding, CompletedIsQuiet, ErrorsReachTheOp, TypeOK
<1>4. SingleOwner' /\ UserOfBusy' /\ RunningIsInUse' /\ NothingInSlots'
  BY DEF SingleOwner, UserOfBusy, RunningIsInUse, NothingInSlots, ucpVars
<1>5. UncountedInSlots'
  BY DEF UncountedInSlots, TypeOK, ucpVars
<1> QED
  BY <1>1, <1>3, <1>4, <1>5

-----------------------------------------------------------------------------
(* Completions *)

\* A callback takes one request off the counter it was counted in, whatever has
\* become of the op since.
LEMMA DoneIInv ==
  ASSUME IInv, NEW q \in Reqs, NEW s \in {"OK", "IO_ERROR"}, Done(q, s)
  PROVE  IInv'
<1> USE DEF IInv, Done, CallbackIo
<1>1. PICK o \in Ops : o = user[q]
  BY DEF UserOfBusy, TypeOK
<1>2. TypeOK'
  BY <1>1 DEF TypeOK, Kinds
<1>3. \A p \in Ops, l \in Kinds :
        Pending(p, l)' = IF p = o /\ l = kind[q] THEN Pending(p, l) \ {q} ELSE Pending(p, l)
  BY <1>1, ReqsAssumption DEF Pending, TypeOK
<1>4. q \in Pending(o, kind[q])
  BY <1>1 DEF Pending
<1>5. \A p \in Ops, l \in Kinds :
        Cardinality(Pending(p, l)') = IF p = o /\ l = kind[q] THEN Cardinality(Pending(p, l)) - 1
                                      ELSE Cardinality(Pending(p, l))
  BY <1>3, <1>4, PendingFinite, FS_RemoveElement
<1>6. CountersAreOutstanding'
  BY <1>1, <1>5 DEF CountersAreOutstanding, TypeOK, Kinds
<1>7. CompletedIsQuiet' /\ ErrorsReachTheOp'
  BY <1>1, <1>3 DEF CompletedIsQuiet, ErrorsReachTheOp, Outstanding, TypeOK, Kinds
<1>8. SingleOwner'
  BY <1>1 DEF SingleOwner, TypeOK
<1>9. UserOfBusy' /\ RunningIsInUse' /\ NothingInSlots' /\ UncountedInSlots'
  BY <1>1, ReqsAssumption
     DEF UserOfBusy, RunningIsInUse, NothingInSlots, UncountedInSlots, TypeOK
<1> QED
  BY <1>2, <1>6, <1>7, <1>8, <1>9

\* The op frees a request through its slot; an error gives the op up.
LEMMA TestIInv ==
  ASSUME IInv, NEW o \in Ops, NEW q \in Reqs, Test(o, q)
  PROVE  IInv'
<1> USE DEF IInv, Test, GiveUp
<1>1. TypeOK'
  BY DEF TypeOK
<1>2. user[q] = o /\ ~freeInCb[q]
  BY DEF SingleOwner
<1>3. \A p \in Ops : \A l : Pending(p, l)' = Pending(p, l) /\ Outstanding(p)' = Outstanding(p)
  BY <1>2, ReqsAssumption DEF Pending, Outstanding, TypeOK
<1>4. CountersAreOutstanding' /\ CompletedIsQuiet' /\ ErrorsReachTheOp'
  BY ZenonT(30), <1>3 DEF CountersAreOutstanding, CompletedIsQuiet, ErrorsReachTheOp, TypeOK
<1>5. SingleOwner'
  <2>1. \A p \in Ops : slots'[p] = IF p = o THEN slots[p] \ {q} ELSE slots[p]
    BY DEF TypeOK
  <2>2. ASSUME NEW p \in Ops, NEW r \in slots'[p]
        PROVE  ucp'[r] # "free" /\ ~freeInCb'[r] /\ user'[r] = p
    <3>1. r \in slots[p] /\ r # q
      BY SMTT(30), <1>2, <2>1, <2>2 DEF SingleOwner
    <3> QED
      BY <3>1 DEF SingleOwner, TypeOK
  <2>3. ASSUME NEW r \in Reqs
        PROVE  /\ ucp'[r] # "free" /\ ~freeInCb'[r] /\ ~stale'[user'[r]] => r \in slots'[user'[r]]
               /\ ucp'[r] # "pending" => ~freeInCb'[r]
    <3>1. CASE r = q
      BY <1>2, <3>1 DEF TypeOK
    <3>2. CASE r # q
      <4>1. ucp[r] # "free" => user[r] \in Ops
        BY DEF UserOfBusy, TypeOK
      <4>2. \A p \in Ops : ~stale'[p] => ~stale[p]
        BY DEF TypeOK
      <4> QED
        BY <2>1, <3>2, <4>1, <4>2 DEF SingleOwner, TypeOK
    <3> QED
      BY <3>1, <3>2
  <2> QED
    BY <2>2, <2>3 DEF SingleOwner
<1>6. UserOfBusy'
  BY <1>2, ReqsAssumption DEF UserOfBusy, TypeOK
<1>7. RunningIsInUse'
  BY DEF RunningIsInUse, TypeOK
<1>8. NothingInSlots'
  BY DEF NothingInSlots, TypeOK
<1>9. UncountedInSlots'
  <2>1. ASSUME NEW r \in Reqs, freeInCb[r] PROVE r # q /\ ucp[r] # "free"
    BY <1>2, <2>1 DEF SingleOwner
  <2>2. \A p \in Ops : ~stale'[p] => ~stale[p]
    BY DEF TypeOK
  <2> QED
    BY <2>1, <2>2 DEF UncountedInSlots, UserOfBusy, TypeOK
<1> QED
  BY <1>1, <1>4, <1>5, <1>6, <1>7, <1>8, <1>9

-----------------------------------------------------------------------------
(* The specification *)

LEMMA NextIInv ==
  ASSUME IInv, [Next]_vars
  PROVE  IInv'
<1>1. ASSUME NEW o \in Ops, NEW k \in Kinds, NEW useSlot \in BOOLEAN, NEW q \in Reqs,
             PostPending(o, k, useSlot, q) \/ \E s \in DoneStatus : PostDonePtr(o, k, useSlot, q, s)
      PROVE  IInv'
  BY <1>1, PostPendingIInv, PostDonePtrIInv, OutcomesAssumption
<1>2. CASE UNCHANGED vars
  <2>1. \A o, k : Pending(o, k)' = Pending(o, k) /\ Outstanding(o)' = Outstanding(o)
    BY <1>2, SamePending DEF vars, ucpVars
  <2> QED
    BY <1>2, <2>1
       DEF IInv, TypeOK, CountersAreOutstanding, CompletedIsQuiet, SingleOwner, ErrorsReachTheOp,
           UserOfBusy, RunningIsInUse, NothingInSlots, UncountedInSlots,
           vars, opVars, ucpVars, histVars
<1> QED
  BY <1>1, <1>2, OpNewIInv, OpResetIInv, DiscardIInv, TestallIInv, RootDoneIInv, TestIInv,
     PostNullIInv, PostErrorIInv, DoneIInv DEF Next

\* The inductive invariant holds in every reachable state, for every pool of op
\* objects and UCP requests.
THEOREM Invariance == Spec => []IInv
<1>1. Init => IInv
  BY InitIInv
<1>2. IInv /\ [Next]_vars => IInv'
  BY NextIInv
<1> QED
  BY <1>1, <1>2, PTL DEF Spec

\* Op objects, their p2p_state and UCP's requests stay well typed.
THEOREM TypeCorrect == Spec => []TypeOK
<1>1. IInv => TypeOK
  BY DEF IInv
<1> QED
  BY <1>1, Invariance, PTL

\* inflight_send_cnt and inflight_recv_cnt are what UCP still holds for the op.
THEOREM CountersCorrect == Spec => []CountersAreOutstanding
<1>1. IInv => CountersAreOutstanding
  BY DEF IInv
<1> QED
  BY <1>1, Invariance, PTL

\* ucg_planc_ucx_p2p_testall and the slots of reduce_kntree end an op only when
\* UCP holds nothing of it any more.
THEOREM CompletedCorrect == Spec => []CompletedIsQuiet
<1>1. IInv => CompletedIsQuiet
  BY DEF IInv
<1> QED
  BY <1>1, Invariance, PTL

\* free_in_cb divides the requests between the callback and the slots: none is
\* freed twice, used after it was freed, or left behind.
THEOREM SingleOwnerCorrect == Spec => []SingleOwner
<1>1. IInv => SingleOwner
  BY DEF IInv
<1> QED
  BY <1>1, Invariance, PTL

\* A message that failed leaves its error in p2p_state until testall reads it.
THEOREM ErrorsCorrect == Spec => []ErrorsReachTheOp
<1>1. IInv => ErrorsReachTheOp
  BY DEF IInv
<1> QED
  BY <1>1, Invariance, PTL
=============================================================================
