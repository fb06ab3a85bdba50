---------------------------- MODULE MetaOpProofs ----------------------------
(***************************************************************************)
(* The sub-ops of a meta op run one at a time and all of them, for every   *)
(* number of sub-ops and of starts and whatever the sub-ops return.        *)
(***************************************************************************)
EXTENDS MetaOp, TLAPS

\* CompleteRanAll and OneAtATime support each other; Fresh says in addition
\* what the flag triggered means, without which a second start could skip its
\* first sub-op.
IInv == TypeOK /\ CompleteRanAll /\ OneAtATime /\ Fresh

\* A new request is complete and has run nothing: all ids are the initial one.
LEMMA InitIInv == Init => IInv
<1> SUFFICES ASSUME Init PROVE IInv
  OBVIOUS
<1>1. n_ops \in 0..MaxOps /\ n_completed_ops \in 0..n_ops
  BY BoundsAssumption DEF Init
<1>2. /\ triggered = FALSE /\ failed = FALSE /\ status = "OK" /\ id = 0
      /\ \A i \in Ops : sub_id[i] = 0 /\ ended[i] = 0
  BY DEF Init, NO_ID
<1>3. sub_id \in [Ops -> 0..MaxStarts] /\ ended \in [Ops -> 0..MaxStarts]
  BY BoundsAssumption DEF Init, NO_ID
<1>4. TypeOK
  <2>1. id \in 0..MaxStarts /\ status \in Statuses
    BY <1>2, BoundsAssumption DEF Statuses
  <2>2. triggered \in BOOLEAN /\ failed \in BOOLEAN
    BY ONLY <1>2
  <2> QED
    BY ONLY <1>1, <1>3, <2>1, <2>2, Zenon DEF TypeOK
<1>5. CompleteRanAll /\ OneAtATime /\ Fresh
  BY <1>2 DEF CompleteRanAll, OneAtATime, Fresh
<1> QED
  BY <1>4, <1>5 DEF IInv

\* One call of the progress function under the id rid, after i sub-ops that
\* ended under it, with nothing triggered beyond the current sub-op.
LEMMA ProgressIInv ==
  ASSUME TypeOK,
         NEW i \in Ops, NEW rid \in 0..MaxStarts, NEW before \in BOOLEAN,
         NEW t \in {"OK", "ERR"}, NEW result \in Statuses,
         MetaProgress(i, rid, before, t, result),
         n_ops' = n_ops, id' = rid,
         \A j \in Ops : j < i => sub_id[j] = rid /\ ended[j] = rid,
         \A j \in Ops : j > i => sub_id[j] < rid,
         sub_id[i] <= rid,
         triggered => sub_id[i] = rid
  PROVE  IInv'
<1>1. n_ops \in Nat /\ i \in 0..(n_ops - 1) /\ n_ops \in 0..MaxOps
  BY BoundsAssumption DEF TypeOK, Ops
<1>2. Ops' = Ops
  BY DEF Ops
<1>3. sub_id' \in [Ops -> 0..MaxStarts] /\ ended' \in [Ops -> 0..MaxStarts]
  BY DEF MetaProgress, TypeOK
<1>4. sub_id'[i] = rid
  BY DEF MetaProgress, TypeOK
<1>5. \A j \in Ops : j # i => sub_id'[j] = sub_id[j] /\ ended'[j] = ended[j]
  BY DEF MetaProgress, TypeOK
<1>6. failed' \in BOOLEAN
  BY DEF MetaProgress, TypeOK
<1>7. CASE result = "OK"
  <2>1. Completed(i) /\ ended'[i] = rid
    BY <1>4, <1>7 DEF MetaProgress, TypeOK
  <2>2. TypeOK'
    <3>1. triggered' \in BOOLEAN
      BY <2>1, Zenon DEF Completed
    <3>2. status' \in Statuses
      BY <2>1 DEF Completed, Statuses
    <3>3. n_completed_ops' \in 0..n_ops
      BY <1>1, <2>1 DEF Completed
    <3> QED
      BY ONLY <1>1, <1>2, <1>3, <1>6, <3>1, <3>2, <3>3, n_ops' = n_ops, id' = rid, rid \in 0..MaxStarts,
         Zenon DEF TypeOK
  <2>3. \A j \in Ops : j < i + 1 => sub_id'[j] = rid /\ ended'[j] = rid
    BY <1>1, <1>4, <1>5, <2>1 DEF Ops
  <2>4. \A j \in Ops : j >= i + 1 => sub_id'[j] < rid
    BY <1>1, <1>5 DEF Ops
  <2>5. CompleteRanAll'
    BY <1>1, <1>2, <2>1, <2>3 DEF Completed, CompleteRanAll, Ops
  <2>6. OneAtATime'
    BY <1>1, <1>2, <2>1, <2>3, <2>4 DEF Completed, OneAtATime, Ops
  <2>7. Fresh'
    BY <1>1, <1>2, <1>3, <2>1, <2>3, <2>4 DEF Completed, Fresh, Ops
  <2> QED
    BY <2>2, <2>5, <2>6, <2>7 DEF IInv
<1>8. CASE result # "OK"
  <2>1. NotCompleted(i, result)
    BY <1>8 DEF MetaProgress
  <2>2. TypeOK'
    <3>1. triggered' \in BOOLEAN
      BY <2>1, Zenon DEF NotCompleted
    <3>2. status' \in Statuses
      BY <2>1 DEF NotCompleted, Statuses
    <3>3. n_completed_ops' \in 0..n_ops
      BY <1>1, <2>1 DEF NotCompleted
    <3> QED
      BY ONLY <1>1, <1>2, <1>3, <1>6, <3>1, <3>2, <3>3, n_ops' = n_ops, id' = rid, rid \in 0..MaxStarts,
         Zenon DEF TypeOK
  <2>3. CompleteRanAll'
    BY <1>8, <2>1 DEF NotCompleted, CompleteRanAll
  <2>4. OneAtATime'
    BY <1>1, <1>2, <1>5, <2>1 DEF NotCompleted, OneAtATime, Ops
  <2>5. Fresh'
    <3>1. ASSUME NEW j \in Ops PROVE sub_id'[j] <= rid
      <4>1. rid \in Int /\ sub_id[j] \in Int /\ (j < i \/ j = i \/ j > i)
        BY <1>1 DEF TypeOK, Ops
      <4> QED
        BY <1>4, <1>5, <4>1
    <3>2. \A j \in Ops : j < i => sub_id'[j] = rid
      BY <1>1, <1>5 DEF Ops
    <3>3. n_completed_ops' = i /\ status' # "OK" /\ i < n_ops'
      BY <1>1, <1>8, <2>1 DEF NotCompleted
    <3> QED
      BY ONLY <1>2, <1>4, <3>1, <3>2, <3>3, id' = rid DEF Fresh
  <2> QED
    BY <2>2, <2>3, <2>4, <2>5 DEF IInv
<1> QED
  BY <1>7, <1>8

\* Every step keeps the invariant.
LEMMA NextIInv == IInv /\ [Next]_vars => IInv'
<1> SUFFICES ASSUME IInv, [Next]_vars
             PROVE  IInv'
  OBVIOUS
<1> USE DEF IInv
<1>1. CASE StartEmpty
  BY <1>1, BoundsAssumption
     DEF StartEmpty, TypeOK, CompleteRanAll, OneAtATime, Fresh, Ops, Statuses
<1>2. ASSUME NEW t \in {"OK", "ERR"}, NEW result \in Statuses, Start(t, result)
      PROVE  IInv'
  <2>1. 0 \in Ops /\ id + 1 \in 0..MaxStarts /\ FALSE \in BOOLEAN
    BY <1>2, BoundsAssumption DEF Start, TypeOK, Ops
  <2>2. MetaProgress(0, id + 1, FALSE, t, result) /\ n_ops' = n_ops /\ id' = id + 1
    BY <1>2 DEF Start
  <2>3. ~triggered /\ \A j \in Ops : sub_id[j] < id + 1
    BY <1>2 DEF Start, Fresh, TypeOK
  <2>4. \A j \in Ops : ~(j < 0)
    BY DEF Ops
  <2>5. sub_id[0] <= id + 1
    BY <2>1, <2>3 DEF TypeOK
  <2> QED
    BY ONLY <1>2, <2>1, <2>2, <2>3, <2>4, <2>5, TypeOK, ProgressIInv
<1>3. ASSUME NEW t \in {"OK", "ERR"}, NEW result \in Statuses, Progress(t, result)
      PROVE  IInv'
  <2>1. n_completed_ops \in Ops /\ id \in 0..MaxStarts /\ failed \in BOOLEAN
    BY <1>3 DEF Progress, TypeOK, Fresh, Ops
  <2>2. /\ MetaProgress(n_completed_ops, id, failed, t, result)
        /\ n_ops' = n_ops /\ id' = id
    BY <1>3 DEF Progress
  <2>3. /\ \A j \in Ops : j < n_completed_ops => sub_id[j] = id /\ ended[j] = id
        /\ \A j \in Ops : j > n_completed_ops => sub_id[j] < id
    BY <1>3 DEF Progress, OneAtATime, Fresh
  <2>4. /\ sub_id[n_completed_ops] <= id
        /\ triggered => sub_id[n_completed_ops] = id
    BY <1>3, <2>1 DEF Progress, Fresh
  <2> QED
    BY ONLY <1>3, <2>1, <2>2, <2>3, <2>4, TypeOK, ProgressIInv
<1>4. CASE UNCHANGED vars
  BY <1>4 DEF vars, TypeOK, CompleteRanAll, OneAtATime, Fresh, Ops
<1> QED
  BY <1>1, <1>2, <1>3, <1>4 DEF Next

\* The inductive invariant holds in every state of every behaviour.
THEOREM Invariance == Spec => []IInv
<1>1. Init => IInv
  BY InitIInv
<1>2. IInv /\ [Next]_vars => IInv'
  BY NextIInv
<1> QED
  BY <1>1, <1>2, PTL DEF Spec

\* Type correctness of ucg_plan_meta_op: in particular n_completed_ops never
\* leaves the array of sub-ops.
THEOREM TypeCorrect == Spec => []TypeOK
<1>1. IInv => TypeOK
  BY DEF IInv
<1> QED
  BY <1>1, Invariance, PTL

\* A meta op that reports UCG_OK has run every sub-op under the id of its start.
THEOREM CompleteCorrect == Spec => []CompleteRanAll
<1>1. IInv => CompleteRanAll
  BY DEF IInv
<1> QED
  BY <1>1, Invariance, PTL

\* The sub-ops, which share one tag, never overlap and keep their order.
THEOREM OrderCorrect == Spec => []OneAtATime
<1>1. IInv => OneAtATime
  BY DEF IInv
<1> QED
  BY <1>1, Invariance, PTL
=============================================================================
