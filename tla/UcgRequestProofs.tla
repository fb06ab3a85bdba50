--------------------------- MODULE UcgRequestProofs ---------------------------
(***************************************************************************)
(* Proofs about UcgRequest, for any number of threads and requests, any    *)
(* range of request ids and any outcomes of the triggers.                  *)
(*                                                                         *)
(* The invariants support each other: the progress loop is safe because    *)
(* its cursor is linked, the cursor stays linked because only the owner of *)
(* the lock changes the list and a callback cannot, and the list holds the *)
(* requests in progress because cleanup refuses those.  IInv adds what     *)
(* threads remember between two steps (Frame).                             *)
(***************************************************************************)
EXTENDS UcgRequest, TLAPS

\* What a thread's local state says about the list and the request it works on.
Frame ==
  \A t \in Threads :
    /\ pc[t] \in {"idle", "ret"} => ~inloop[t] /\ nxt[t] = Nil
    /\ ~inloop[t] => nxt[t] = Nil /\ pc[t] # "loop"
    /\ pc[t] = "loop" /\ req[t] # Nil => nxt[t] = ListNext(plist, req[t])
    /\ pc[t] \in {"cb", "exit", "ret"} => req[t] \in Requests
    /\ pc[t] \in {"cb", "exit"} => ~InList(req[t])
    /\ pc[t] = "cb" => req[t] \in HasCb
    /\ pc[t] \in {"cb", "exit", "ret"} /\ req[t] \notin CbFrees => live[req[t]]

\* A request whose start failed cannot be started again.
FailedNotOk == \A r \in Requests : failed[r] => status[r] # "OK"

IInv ==
  /\ TypeOK /\ LockDiscipline /\ PlistIsInProgress /\ CursorLinked
  /\ CallbackExactlyOnce /\ Frame /\ FailedNotOk

-----------------------------------------------------------------------------
(* The progress list *)

\* Membership and absence of duplicates, for any sequence.
In(s, r) == \E i \in 1..Len(s) : s[i] = r
NoDup(s) == \A i, j \in 1..Len(s) : s[i] = s[j] => i = j

\* list_del removes exactly r and keeps the entries distinct.
LEMMA ListDelFacts ==
  ASSUME NEW s \in Seq(Requests), NEW r \in Requests, In(s, r), NoDup(s)
  PROVE  /\ ListDel(s, r) \in Seq(Requests)
         /\ NoDup(ListDel(s, r))
         /\ \A q \in Requests : In(ListDel(s, r), q) <=> In(s, q) /\ q # r
<1> DEFINE i == CHOOSE k \in 1..Len(s) : s[k] = r
           d == ListDel(s, r)
<1>1. i \in 1..Len(s) /\ s[i] = r
  BY DEF In
<1>2. d = [j \in 1..(Len(s) - 1) |-> IF j < i THEN s[j] ELSE s[j + 1]]
  BY DEF ListDel
<1> HIDE DEF i, d
<1>3. Len(s) - 1 \in Nat
  BY <1>1
<1>4. d \in Seq(Requests) /\ Len(d) = Len(s) - 1
  BY <1>1, <1>2, <1>3
<1>5. NoDup(d)
  BY <1>1, <1>2, <1>3, <1>4 DEF NoDup
<1>6. ASSUME NEW q \in Requests, In(d, q) PROVE In(s, q) /\ q # r
  BY <1>1, <1>2, <1>3, <1>4, <1>6 DEF NoDup, In
<1>7. ASSUME NEW q \in Requests, In(s, q), q # r PROVE In(d, q)
  <2>1. PICK k \in 1..Len(s) : s[k] = q
    BY <1>7 DEF In
  <2>2. CASE k < i
    <3>1. k \in 1..Len(d)
      BY <2>1, <2>2, <1>1, <1>4
    <3>2. d[k] = s[k]
      BY <3>1, <2>2, <1>2, <1>4
    <3> QED BY <3>1, <3>2, <2>1 DEF In
  <2>3. CASE k > i
    <3>1. k - 1 \in 1..Len(d) /\ ~(k - 1 < i)
      BY <2>3, <1>1, <1>4
    <3>2. d[k - 1] = s[k]
      BY <3>1, <1>2, <1>4, <2>1
    <3> QED BY <3>1, <3>2, <2>1 DEF In
  <2> QED BY <2>1, <2>2, <2>3, <1>1, <1>7
<1> QED BY <1>4, <1>5, <1>6, <1>7 DEF d

\* The entry after r is linked or is the head, and it is not r itself.
LEMMA ListNextFacts ==
  ASSUME NEW s \in Seq(Requests), NEW r \in Requests \cup {Nil},
         r # Nil => In(s, r), NoDup(s)
  PROVE  /\ ListNext(s, r) \in Requests \cup {Nil}
         /\ ListNext(s, r) # Nil => In(s, ListNext(s, r))
         /\ r # Nil => ListNext(s, r) # r
<1>1. CASE r = Nil
  BY <1>1, NilAssumption DEF ListNext, In
<1>2. CASE r # Nil
  <2> DEFINE i == CHOOSE k \in 1..Len(s) : s[k] = r
  <2>1. i \in 1..Len(s) /\ s[i] = r
    BY <1>2 DEF In
  <2>2. ListNext(s, r) = IF i = Len(s) THEN Nil ELSE s[i + 1]
    BY <1>2 DEF ListNext
  <2> HIDE DEF i
  <2>3. CASE i = Len(s)
    BY <2>2, <2>3, <1>2
  <2>4. CASE i # Len(s)
    <3>1. i + 1 \in 1..Len(s) /\ s[i + 1] \in Requests /\ s[i + 1] # r
      BY <2>1, <2>4 DEF NoDup
    <3> QED BY <3>1, <2>2, <2>4, NilAssumption DEF In
  <2> QED BY <2>3, <2>4
<1> QED BY <1>1, <1>2

\* add_tail links r at the end.
LEMMA AppendFacts ==
  ASSUME NEW s \in Seq(Requests), NEW r \in Requests, ~In(s, r), NoDup(s)
  PROVE  /\ Append(s, r) \in Seq(Requests)
         /\ NoDup(Append(s, r))
         /\ \A q \in Requests : In(Append(s, r), q) <=> In(s, q) \/ q = r
<1> DEFINE a == Append(s, r)
<1>1. a \in Seq(Requests) /\ Len(a) = Len(s) + 1 /\ a[Len(s) + 1] = r
      /\ \A k \in 1..Len(s) : a[k] = s[k]
  OBVIOUS
<1> HIDE DEF a
<1>2. NoDup(a)
  BY <1>1 DEF NoDup, In
<1>3. \A q \in Requests : In(a, q) <=> In(s, q) \/ q = r
  BY <1>1 DEF In
<1> QED BY <1>1, <1>2, <1>3 DEF a

-----------------------------------------------------------------------------
(* The inductive invariant *)

LEMMA InitIInv == Init => IInv
<1> SUFFICES ASSUME Init PROVE IInv
  OBVIOUS
<1> USE NilAssumption, ReqIdAssumption DEF Init
<1>1. TypeOK
  BY DEF TypeOK, Status, PCs
<1>2. LockDiscipline /\ FailedNotOk
  BY DEF LockDiscipline, FailedNotOk
<1>3. \A r : ~InList(r)
  BY DEF InList
<1>4. PlistIsInProgress /\ CursorLinked /\ CallbackExactlyOnce /\ Frame
  BY <1>3, CallbackAssumption DEF PlistIsInProgress, CursorLinked, CallbackExactlyOnce, Frame
<1> QED BY <1>1, <1>2, <1>4 DEF IInv

\* The invariants speak of the list through membership and distinctness only.
LEMMA ListReading ==
  /\ \A r : InList(r) <=> In(plist, r)
  /\ \A r : InList(r)' <=> In(plist', r)
  /\ (\A i, j \in 1..Len(plist) : plist[i] = plist[j] => i = j) <=> NoDup(plist)
BY DEF InList, In, NoDup

LEMMA RequestInitStep ==
  ASSUME IInv, NEW t \in Threads, NEW r \in Requests, RequestInit(t, r)
  PROVE  IInv'
<1> USE NilAssumption, CallbackAssumption, ReqIdAssumption
        DEF IInv, RequestInit, lockVars, callVars
<1>0. plist' = plist /\ \A q : InList(q)' <=> InList(q)
  BY DEF InList, reqVars
<1>1. TypeOK'
  BY DEF TypeOK, Status, PCs
<1>2. LockDiscipline'
  BY DEF TypeOK, LockDiscipline
<1>3. PlistIsInProgress'
  BY <1>0 DEF TypeOK, PlistIsInProgress
<1>4. CursorLinked'
  BY <1>0 DEF TypeOK, CursorLinked
<1>5. CallbackExactlyOnce'
  BY <1>0 DEF TypeOK, CallbackExactlyOnce, LockDiscipline, PlistIsInProgress, Frame
<1>6. Frame'
  BY <1>0 DEF TypeOK, Frame, LockDiscipline
<1>7. FailedNotOk'
  BY DEF TypeOK, FailedNotOk
<1> QED BY <1>1, <1>2, <1>3, <1>4, <1>5, <1>6, <1>7

LEMMA StartCompleteStep ==
  ASSUME IInv, NEW t \in Threads, NEW r \in Requests, StartComplete(t, r)
  PROVE  IInv'
<1> USE NilAssumption, CallbackAssumption, ReqIdAssumption
        DEF IInv, StartComplete, lockVars, callVars, Trigger, AllocReqId, UserMayCall, Calling, CompletePC, histVars, reqVars
<1>0. plist' = plist /\ \A q : InList(q)' <=> InList(q)
  BY DEF InList, reqVars
<1>1. TypeOK'
  BY DEF TypeOK, Status, PCs
<1>2. LockDiscipline'
  BY DEF TypeOK, LockDiscipline, Frame
<1>3. PlistIsInProgress'
  BY <1>0 DEF TypeOK, PlistIsInProgress, FailedNotOk
<1>4. CursorLinked'
  BY <1>0 DEF TypeOK, CursorLinked
<1>5. CallbackExactlyOnce'
  BY <1>0 DEF TypeOK, CallbackExactlyOnce, LockDiscipline, PlistIsInProgress, Frame
<1>6. Frame'
  BY <1>0 DEF TypeOK, Frame, LockDiscipline, PlistIsInProgress
<1>7. FailedNotOk'
  BY DEF TypeOK, FailedNotOk
<1> QED BY <1>1, <1>2, <1>3, <1>4, <1>5, <1>6, <1>7

LEMMA StartFailStep ==
  ASSUME IInv, NEW t \in Threads, NEW r \in Requests, StartFail(t, r)
  PROVE  IInv'
<1> USE NilAssumption, CallbackAssumption, ReqIdAssumption
        DEF IInv, StartFail, lockVars, callVars, Trigger, AllocReqId, UserMayCall, Calling
<1> USE OutcomeAssumption
<1>0. plist' = plist /\ \A q : InList(q)' <=> InList(q)
  BY DEF InList
<1>1. TypeOK'
  BY SMTT(30) DEF TypeOK, Status, PCs
<1>2. LockDiscipline'
  BY DEF TypeOK, LockDiscipline
<1>3. PlistIsInProgress'
  BY <1>0 DEF TypeOK, PlistIsInProgress
<1>4. CursorLinked'
  BY <1>0 DEF TypeOK, CursorLinked
<1>5. CallbackExactlyOnce'
  BY <1>0 DEF TypeOK, CallbackExactlyOnce, LockDiscipline, PlistIsInProgress, Frame
<1>6. Frame'
  BY <1>0 DEF TypeOK, Frame, LockDiscipline
<1>7. FailedNotOk'
  BY DEF TypeOK, FailedNotOk
<1> QED BY <1>1, <1>2, <1>3, <1>4, <1>5, <1>6, <1>7

LEMMA TestDoneStep ==
  ASSUME IInv, NEW t \in Threads, NEW r \in Requests, TestDone(t, r)
  PROVE  IInv'
<1> USE NilAssumption, CallbackAssumption, ReqIdAssumption
        DEF IInv, TestDone, lockVars, callVars, UserMayCall, Calling, histVars, reqVars
<1>0. plist' = plist /\ \A q : InList(q)' <=> InList(q)
  BY DEF InList, reqVars
<1>1. TypeOK'
  BY DEF TypeOK, Status, PCs
<1>2. LockDiscipline'
  BY DEF TypeOK, LockDiscipline
<1>3. PlistIsInProgress'
  BY <1>0 DEF TypeOK, PlistIsInProgress
<1>4. CursorLinked'
  BY <1>0 DEF TypeOK, CursorLinked
<1>5. CallbackExactlyOnce'
  BY <1>0 DEF TypeOK, CallbackExactlyOnce, LockDiscipline, PlistIsInProgress, Frame
<1>6. Frame'
  BY <1>0 DEF TypeOK, Frame, LockDiscipline
<1>7. FailedNotOk'
  BY DEF TypeOK, FailedNotOk
<1> QED BY <1>1, <1>2, <1>3, <1>4, <1>5, <1>6, <1>7

LEMMA CleanupStep ==
  ASSUME IInv, NEW t \in Threads, NEW r \in Requests, Cleanup(t, r)
  PROVE  IInv'
<1> USE NilAssumption, CallbackAssumption, ReqIdAssumption
        DEF IInv, Cleanup, lockVars, callVars, UserMayCall, Calling
<1>0. plist' = plist /\ \A q : InList(q)' <=> InList(q)
  BY DEF InList, reqVars
<1>1. TypeOK'
  BY DEF TypeOK, Status, PCs
<1>2. LockDiscipline'
  BY DEF TypeOK, LockDiscipline
<1>3. PlistIsInProgress'
  BY <1>0 DEF TypeOK, PlistIsInProgress
<1>4. CursorLinked'
  BY <1>0 DEF TypeOK, CursorLinked
<1>5. CallbackExactlyOnce'
  BY <1>0 DEF TypeOK, CallbackExactlyOnce, LockDiscipline, PlistIsInProgress, Frame
<1>6. Frame'
  BY <1>0 DEF TypeOK, Frame, LockDiscipline
<1>7. FailedNotOk'
  BY DEF TypeOK, FailedNotOk
<1> QED BY <1>1, <1>2, <1>3, <1>4, <1>5, <1>6, <1>7

LEMMA CbCleanupStep ==
  ASSUME IInv, NEW t \in Threads, NEW r \in Requests, CbCleanup(t, r)
  PROVE  IInv'
<1> USE NilAssumption, CallbackAssumption, ReqIdAssumption
        DEF IInv, CbCleanup, lockVars, callVars, Calling
<1>0. plist' = plist /\ \A q : InList(q)' <=> InList(q)
  BY DEF InList, reqVars
<1>1. TypeOK'
  BY DEF TypeOK, Status, PCs
<1>2. LockDiscipline'
  BY DEF TypeOK, LockDiscipline
<1>3. PlistIsInProgress'
  BY <1>0 DEF TypeOK, PlistIsInProgress
<1>4. CursorLinked'
  BY <1>0 DEF TypeOK, CursorLinked
<1>5. CallbackExactlyOnce'
  BY <1>0 DEF TypeOK, CallbackExactlyOnce, LockDiscipline, PlistIsInProgress, Frame
<1>6. Frame'
  BY <1>0 DEF TypeOK, Frame, LockDiscipline
<1>7. FailedNotOk'
  BY DEF TypeOK, FailedNotOk
<1> QED BY <1>1, <1>2, <1>3, <1>4, <1>5, <1>6, <1>7

LEMMA TestReturnStep ==
  ASSUME IInv, NEW t \in Threads, TestReturn(t)
  PROVE  IInv'
<1> USE NilAssumption, CallbackAssumption, ReqIdAssumption
        DEF IInv, TestReturn, lockVars, callVars, histVars, reqVars
<1>0. plist' = plist /\ \A q : InList(q)' <=> InList(q)
  BY DEF InList, reqVars
<1>1. TypeOK'
  BY DEF TypeOK, Status, PCs
<1>2. LockDiscipline'
  BY DEF TypeOK, LockDiscipline
<1>3. PlistIsInProgress'
  BY <1>0 DEF TypeOK, PlistIsInProgress
<1>4. CursorLinked'
  BY <1>0 DEF TypeOK, CursorLinked
<1>5. CallbackExactlyOnce'
  BY <1>0 DEF TypeOK, CallbackExactlyOnce, LockDiscipline, PlistIsInProgress, Frame
<1>6. Frame'
  BY <1>0 DEF TypeOK, Frame, LockDiscipline
<1>7. FailedNotOk'
  BY DEF TypeOK, FailedNotOk
<1> QED BY <1>1, <1>2, <1>3, <1>4, <1>5, <1>6, <1>7

LEMMA LoopEndStep ==
  ASSUME IInv, NEW t \in Threads, LoopEnd(t)
  PROVE  IInv'
<1> USE NilAssumption, CallbackAssumption, ReqIdAssumption
        DEF IInv, LoopEnd, lockVars, callVars, histVars, reqVars
<1>0. plist' = plist /\ \A q : InList(q)' <=> InList(q)
  BY DEF InList, reqVars
<1>1. TypeOK'
  BY DEF TypeOK, Status, PCs
<1>2. LockDiscipline'
  BY DEF TypeOK, LockDiscipline
<1>3. PlistIsInProgress'
  BY <1>0 DEF TypeOK, PlistIsInProgress
<1>4. CursorLinked'
  BY <1>0 DEF TypeOK, CursorLinked
<1>5. CallbackExactlyOnce'
  BY <1>0 DEF TypeOK, CallbackExactlyOnce, LockDiscipline, PlistIsInProgress, Frame
<1>6. Frame'
  BY <1>0 DEF TypeOK, Frame, LockDiscipline
<1>7. FailedNotOk'
  BY DEF TypeOK, FailedNotOk
<1> QED BY <1>1, <1>2, <1>3, <1>4, <1>5, <1>6, <1>7

LEMMA CbReturnStep ==
  ASSUME IInv, NEW t \in Threads, CbReturn(t)
  PROVE  IInv'
<1> USE NilAssumption, CallbackAssumption, ReqIdAssumption
        DEF IInv, CbReturn, lockVars, callVars, reqVars
<1>0. plist' = plist /\ \A q : InList(q)' <=> InList(q)
  BY DEF InList, reqVars
<1>1. TypeOK'
  BY DEF TypeOK, Status, PCs
<1>2. LockDiscipline'
  BY DEF TypeOK, LockDiscipline
<1>3. PlistIsInProgress'
  BY <1>0 DEF TypeOK, PlistIsInProgress
<1>4. CursorLinked'
  BY <1>0 DEF TypeOK, CursorLinked
<1>5. CallbackExactlyOnce'
  BY <1>0 DEF TypeOK, CallbackExactlyOnce, LockDiscipline, PlistIsInProgress, Frame
<1>6. Frame'
  BY <1>0 DEF TypeOK, Frame, LockDiscipline
<1>7. FailedNotOk'
  BY DEF TypeOK, FailedNotOk
<1> QED BY <1>1, <1>2, <1>3, <1>4, <1>5, <1>6, <1>7

LEMMA StartInProgressStep ==
  ASSUME IInv, NEW t \in Threads, NEW r \in Requests, StartInProgress(t, r)
  PROVE  IInv'
<1> USE NilAssumption, CallbackAssumption, ReqIdAssumption
        DEF IInv, StartInProgress, lockVars, callVars, Trigger, AllocReqId, UserMayCall, Calling
<1>a. plist \in Seq(Requests) /\ NoDup(plist) /\ ~In(plist, r)
  BY DEF TypeOK, PlistIsInProgress, NoDup, InList, In
<1>0. /\ plist' \in Seq(Requests) /\ NoDup(plist')
      /\ \A q \in Requests : InList(q)' <=> InList(q) \/ q = r
  BY <1>a, AppendFacts DEF InList, In
<1>1. TypeOK'
  BY <1>0 DEF TypeOK, Status, PCs
<1>2. LockDiscipline'
  BY DEF TypeOK, LockDiscipline
<1>3. PlistIsInProgress'
  BY SMTT(30), <1>0 DEF TypeOK, PlistIsInProgress, NoDup, FailedNotOk
<1>4. CursorLinked'
  BY <1>0 DEF TypeOK, CursorLinked
<1>5. CallbackExactlyOnce'
  BY <1>0 DEF TypeOK, CallbackExactlyOnce, LockDiscipline, PlistIsInProgress, Frame
<1>6. Frame'
  BY <1>0 DEF TypeOK, Frame, LockDiscipline
<1>7. FailedNotOk'
  BY DEF TypeOK, FailedNotOk
<1> QED BY <1>1, <1>2, <1>3, <1>4, <1>5, <1>6, <1>7

LEMMA TestCompleteStep ==
  ASSUME IInv, NEW t \in Threads, NEW r \in Requests, TestComplete(t, r)
  PROVE  IInv'
<1> USE NilAssumption, CallbackAssumption, ReqIdAssumption
        DEF IInv, TestComplete, lockVars, callVars, Complete, UserMayCall, Calling, CompletePC, histVars
<1>a. plist \in Seq(Requests) /\ NoDup(plist) /\ In(plist, r)
  BY DEF TypeOK, PlistIsInProgress, NoDup, InList, In
<1>b. plist' = ListDel(plist, r)
  OBVIOUS
<1>c. /\ ListDel(plist, r) \in Seq(Requests) /\ NoDup(ListDel(plist, r))
      /\ \A q \in Requests : In(ListDel(plist, r), q) <=> In(plist, q) /\ q # r
  BY <1>a, ListDelFacts
<1>0. /\ plist' \in Seq(Requests) /\ NoDup(plist')
      /\ \A q \in Requests : InList(q)' <=> InList(q) /\ q # r
  BY ONLY <1>b, <1>c, ListReading
<1>1. TypeOK'
  BY <1>0 DEF TypeOK, Status, PCs
<1>2. LockDiscipline'
  BY DEF TypeOK, LockDiscipline, Frame
<1>3. PlistIsInProgress'
  BY <1>0 DEF TypeOK, PlistIsInProgress, NoDup, FailedNotOk
<1>4. CursorLinked'
  <2>1. \A u \in Threads : nxt[u] = Nil /\ pc[u] # "loop"
    BY DEF LockDiscipline, Frame, TypeOK, PCs
  <2> QED BY <2>1 DEF TypeOK, CursorLinked
<1>5. CallbackExactlyOnce'
  BY <1>0 DEF TypeOK, CallbackExactlyOnce, LockDiscipline, PlistIsInProgress, Frame
<1>6. Frame'
  BY <1>0 DEF TypeOK, Frame, LockDiscipline, PlistIsInProgress
<1>7. FailedNotOk'
  BY DEF TypeOK, FailedNotOk
<1> QED BY <1>1, <1>2, <1>3, <1>4, <1>5, <1>6, <1>7

LEMMA LoopCompleteStep ==
  ASSUME IInv, NEW t \in Threads, LoopComplete(t)
  PROVE  IInv'
<1> USE NilAssumption, CallbackAssumption DEF IInv
<1> DEFINE r == req[t]
           e == CompletePC(r)
<1>1. /\ plist \in Seq(Requests) /\ NoDup(plist)
      /\ r \in Requests /\ In(plist, r) /\ InList(r)
      /\ pc[t] = "loop" /\ owner = t /\ depth = 1 /\ inloop[t]
      /\ ~failed[r]
  <2>1. plist \in Seq(Requests) /\ NoDup(plist)
    BY DEF TypeOK, PlistIsInProgress, NoDup
  <2>2. pc[t] = "loop" /\ r # Nil
    BY DEF LoopComplete
  <2>3. r \in Requests /\ InList(r)
    BY <2>2 DEF TypeOK, CursorLinked
  <2>4. In(plist, r)
    BY <2>3, ListReading
  <2>5. owner = t /\ depth = 1 /\ inloop[t]
    BY <2>2 DEF LockDiscipline, Frame, TypeOK
  <2>6. ~failed[r]
    BY <2>3 DEF PlistIsInProgress
  <2> QED BY <2>1, <2>2, <2>3, <2>4, <2>5, <2>6
<1>2. nxt[t] # r
  BY <1>1, ListNextFacts DEF Frame, LoopComplete
<1>3. e \in {"cb", "exit"} /\ (e = "cb" <=> r \in HasCb)
  BY DEF CompletePC
<1>4. PICK s \in {"OK", "ERR"} : Complete(r, s)
  BY DEF LoopComplete
<1>5. /\ plist' = ListDel(plist, r)
      /\ status' = [status EXCEPT ![r] = s] /\ id' = [id EXCEPT ![r] = BASE_REQ_ID]
      /\ depth' = 2 /\ owner' = owner
      /\ pc' = [pc EXCEPT ![t] = e]
      /\ UNCHANGED <<live, unique_req_id, req, nxt, inloop, starts, startSeq, due, failed>>
  <2>1. /\ plist' = ListDel(plist, r)
        /\ status' = [status EXCEPT ![r] = s] /\ id' = [id EXCEPT ![r] = BASE_REQ_ID]
    BY <1>4 DEF Complete
  <2>2. /\ depth' = depth + 1 /\ owner' = owner /\ pc' = [pc EXCEPT ![t] = e]
        /\ UNCHANGED <<live, unique_req_id, req, nxt, inloop, starts, startSeq, due, failed>>
    BY DEF LoopComplete, histVars
  <2> QED BY <1>1, <2>1, <2>2
<1>6. /\ ListDel(plist, r) \in Seq(Requests) /\ NoDup(ListDel(plist, r))
      /\ \A q \in Requests : In(ListDel(plist, r), q) <=> In(plist, q) /\ q # r
  BY <1>1, ListDelFacts
<1>7. /\ plist' \in Seq(Requests) /\ NoDup(plist')
      /\ \A q \in Requests : InList(q)' <=> InList(q) /\ q # r
  BY ONLY <1>5, <1>6, ListReading
<1> HIDE DEF r, e
<1>8. TypeOK'
  BY <1>1, <1>3, <1>5, <1>7, ReqIdAssumption DEF TypeOK, Status, PCs
<1>9. LockDiscipline'
  BY <1>1, <1>3, <1>5 DEF TypeOK, LockDiscipline
<1>10. PlistIsInProgress'
  BY <1>1, <1>5, <1>7 DEF TypeOK, PlistIsInProgress, NoDup
<1>11. \A u \in Threads : u # t => nxt[u] = Nil /\ pc[u] \notin {"loop", "cb", "exit"}
  BY <1>1 DEF LockDiscipline, Frame, TypeOK, PCs
<1>12. nxt[t] # Nil => nxt[t] \in Requests /\ InList(nxt[t])
  BY DEF CursorLinked, TypeOK
<1>13. CursorLinked'
  BY <1>1, <1>2, <1>3, <1>5, <1>7, <1>11, <1>12 DEF TypeOK, CursorLinked
<1>14. CallbackExactlyOnce'
  BY <1>1, <1>3, <1>5, <1>7, <1>11 DEF TypeOK, CallbackExactlyOnce, r
<1>15. Frame'
  <2> SUFFICES ASSUME NEW u \in Threads PROVE Frame!(u)'
    BY DEF Frame
  <2>1. CASE u = t
    BY <2>1, <1>1, <1>3, <1>5, <1>7 DEF TypeOK, PlistIsInProgress, r
  <2>2. CASE u # t
    BY <2>2, <1>1, <1>5, <1>7, <1>11 DEF TypeOK, Frame
  <2> QED BY <2>1, <2>2
<1>16. FailedNotOk'
  BY <1>1, <1>5 DEF TypeOK, FailedNotOk
<1> QED BY <1>8, <1>9, <1>10, <1>13, <1>14, <1>15, <1>16

LEMMA ProgressBeginStep ==
  ASSUME IInv, NEW t \in Threads, ProgressBegin(t)
  PROVE  IInv'
<1> USE NilAssumption, CallbackAssumption, ReqIdAssumption
        DEF IInv, ProgressBegin, lockVars, callVars, histVars, reqVars
<1>0. plist' = plist /\ \A q : InList(q)' <=> InList(q)
  BY DEF InList, reqVars
<1>a. plist \in Seq(Requests) /\ NoDup(plist)
  BY DEF TypeOK, PlistIsInProgress, NoDup
<1>b. plist[1] \in Requests /\ In(plist, plist[1])
  BY <1>a DEF In
<1>c. /\ ListNext(plist, plist[1]) \in Requests \cup {Nil}
      /\ ListNext(plist, plist[1]) # Nil => In(plist, ListNext(plist, plist[1]))
  BY <1>a, <1>b, ListNextFacts
<1>1. TypeOK'
  BY <1>b, <1>c DEF TypeOK, PCs
<1>2. LockDiscipline'
  BY DEF TypeOK, LockDiscipline
<1>3. PlistIsInProgress'
  BY <1>0 DEF TypeOK, PlistIsInProgress
<1>4. CursorLinked'
  BY ZenonT(30), <1>0, <1>b, <1>c DEF TypeOK, CursorLinked, InList, In
<1>5. CallbackExactlyOnce'
  BY <1>0 DEF TypeOK, CallbackExactlyOnce, LockDiscipline, PlistIsInProgress, Frame
<1>6. Frame'
  BY <1>0, <1>b DEF TypeOK, Frame, LockDiscipline
<1>7. FailedNotOk'
  BY DEF TypeOK, FailedNotOk
<1> QED BY <1>1, <1>2, <1>3, <1>4, <1>5, <1>6, <1>7

LEMMA LoopPendingStep ==
  ASSUME IInv, NEW t \in Threads, LoopPending(t)
  PROVE  IInv'
<1> USE NilAssumption, CallbackAssumption, ReqIdAssumption
        DEF IInv, LoopPending, lockVars, callVars, Advance, histVars, reqVars
<1>0. plist' = plist /\ \A q : InList(q)' <=> InList(q)
  BY DEF InList, reqVars
<1>a. plist \in Seq(Requests) /\ NoDup(plist)
  BY DEF TypeOK, PlistIsInProgress, NoDup
<1>c. /\ ListNext(plist, nxt[t]) \in Requests \cup {Nil}
      /\ ListNext(plist, nxt[t]) # Nil => In(plist, ListNext(plist, nxt[t]))
  BY <1>a, ListNextFacts DEF TypeOK, CursorLinked, InList, In
<1>1. TypeOK'
  BY <1>c DEF TypeOK
<1>2. LockDiscipline'
  BY DEF TypeOK, LockDiscipline
<1>3. PlistIsInProgress'
  BY <1>0 DEF TypeOK, PlistIsInProgress
<1>4. CursorLinked'
  BY ZenonT(30), <1>0, <1>c DEF TypeOK, CursorLinked, InList, In
<1>5. CallbackExactlyOnce'
  BY <1>0 DEF TypeOK, CallbackExactlyOnce, LockDiscipline, PlistIsInProgress, Frame
<1>6. Frame'
  BY <1>0 DEF TypeOK, Frame, LockDiscipline
<1>7. FailedNotOk'
  BY DEF TypeOK, FailedNotOk
<1> QED BY <1>1, <1>2, <1>3, <1>4, <1>5, <1>6, <1>7

LEMMA ExitStep ==
  ASSUME IInv, NEW t \in Threads, Exit(t)
  PROVE  IInv'
<1> USE NilAssumption DEF IInv
<1>1. plist' = plist /\ \A q : InList(q)' <=> InList(q)
  BY DEF Exit, InList, reqVars
<1>2. plist \in Seq(Requests) /\ NoDup(plist)
  BY DEF TypeOK, PlistIsInProgress, NoDup
<1>3. /\ pc[t] = "exit" /\ owner = t /\ depth = (IF inloop[t] THEN 2 ELSE 1)
      /\ UNCHANGED <<live, status, id, plist, unique_req_id, inloop, starts, startSeq, due, failed>>
      /\ depth' = depth - 1
  BY DEF Exit, LockDiscipline, reqVars, histVars
<1>4. \A u \in Threads : u # t => ~inloop[u] /\ nxt[u] = Nil /\ pc[u] \in {"idle", "ret"}
  BY <1>3 DEF LockDiscipline, Frame, TypeOK, PCs
<1>5. PlistIsInProgress' /\ FailedNotOk'
  BY <1>1, <1>3 DEF PlistIsInProgress, FailedNotOk
<1>6. CASE inloop[t]
  <2> DEFINE n == ListNext(plist, nxt[t])
  <2>1. n \in Requests \cup {Nil} /\ (n # Nil => InList(n))
    BY <1>2, ListNextFacts DEF TypeOK, CursorLinked, InList, In
  <2>2. /\ pc' = [pc EXCEPT ![t] = "loop"] /\ owner' = owner /\ depth' = 1
        /\ req' = [req EXCEPT ![t] = nxt[t]] /\ nxt' = [nxt EXCEPT ![t] = n]
    BY <1>3, <1>6 DEF Exit, Advance
  <2>3. nxt[t] # Nil => InList(nxt[t])
    BY DEF CursorLinked
  <2> HIDE DEF n
  <2>4. TypeOK' /\ LockDiscipline'
    BY <1>3, <1>4, <1>6, <2>1, <2>2 DEF TypeOK, LockDiscipline, PCs
  <2>5. CursorLinked'
    BY <1>1, <1>4, <2>1, <2>2, <2>3 DEF TypeOK, CursorLinked
  <2>6. CallbackExactlyOnce'
    BY <1>1, <1>3, <1>4, <2>2 DEF TypeOK, CallbackExactlyOnce
  <2>7. Frame'
    BY <1>1, <1>3, <1>4, <1>6, <2>2 DEF TypeOK, Frame, n
  <2> QED BY <1>5, <2>4, <2>5, <2>6, <2>7
<1>7. CASE ~inloop[t]
  <2>1. /\ pc' = [pc EXCEPT ![t] = "idle"] /\ owner' = Nil /\ depth' = 0
        /\ req' = [req EXCEPT ![t] = Nil] /\ nxt' = nxt
    BY <1>3, <1>7 DEF Exit
  <2>2. TypeOK' /\ LockDiscipline'
    BY <1>3, <1>4, <1>7, <2>1 DEF TypeOK, LockDiscipline, PCs
  <2>3. CursorLinked'
    BY <1>1, <1>4, <2>1 DEF TypeOK, CursorLinked
  <2>4. CallbackExactlyOnce'
    BY <1>1, <1>3, <1>4, <2>1 DEF TypeOK, CallbackExactlyOnce
  <2>5. Frame'
    BY <1>1, <1>3, <1>4, <1>7, <2>1 DEF TypeOK, Frame
  <2> QED BY <1>5, <2>2, <2>3, <2>4, <2>5
<1> QED BY <1>6, <1>7

LEMMA StutterStep == IInv /\ UNCHANGED vars => IInv'
BY DEF IInv, vars, reqVars, lockVars, callVars, histVars, TypeOK, LockDiscipline,
       PlistIsInProgress, CursorLinked, CallbackExactlyOnce, Frame, FailedNotOk, InList

\* IInv is an invariant: every call, callback and loop step preserves it.
THEOREM Invariance == Spec => []IInv
<1>1. IInv /\ [Next]_vars => IInv'
  BY StutterStep, RequestInitStep, StartInProgressStep, StartCompleteStep, StartFailStep,
     TestDoneStep, TestCompleteStep, TestReturnStep, CleanupStep, CbCleanupStep,
     ProgressBeginStep, LoopPendingStep, LoopCompleteStep, LoopEndStep, CbReturnStep, ExitStep
     DEF Next
<1> QED BY InitIInv, <1>1, PTL DEF Spec

-----------------------------------------------------------------------------
(* What the code promises *)

\* Every variable keeps its type; the lock is never nested deeper than the
\* progress loop around ucg_request_test.
THEOREM TypeCorrect == Spec => []TypeOK
BY Invariance, PTL DEF IInv

\* The recursive context lock is held exactly between lock and unlock.
THEOREM LockCorrect == Spec => []LockDiscipline
BY Invariance, PTL DEF IInv

\* The progress list holds exactly the requests in progress, each once.
THEOREM PlistCorrect == Spec => []PlistIsInProgress
BY Invariance, PTL DEF IInv

\* The cursors of ucg_context_progress are linked whatever callbacks do.
THEOREM CursorCorrect == Spec => []CursorLinked
BY Invariance, PTL DEF IInv

\* The completion callback runs exactly once per successful start.
THEOREM CallbackCorrect == Spec => []CallbackExactlyOnce
BY Invariance, PTL DEF IInv

\* No request is read by a call after somebody else discarded it.
THEOREM ForeignDiscardCorrect == Spec => []NoForeignDiscard
<1>1. IInv => NoForeignDiscard
  BY DEF IInv, Frame, NoForeignDiscard
<1> QED BY Invariance, <1>1, PTL

-----------------------------------------------------------------------------
(* Request ids *)

\* Adding one to a number adds one to its remainder, or wraps it to zero.
LEMMA ModSucc ==
  ASSUME NEW n \in Nat \ {0}, NEW a \in Nat
  PROVE  (a + 1) % n = IF a % n = n - 1 THEN 0 ELSE (a % n) + 1
<1> DEFINE q == a \div n
           m == a % n
<1>1. a = n * q + m /\ m \in 0..(n-1) /\ q \in Nat
  OBVIOUS
<1> HIDE DEF q, m
<1>2. CASE m = n - 1
  <2>1. a + 1 = n * (q + 1) + 0
    BY <1>1, <1>2
  <2>2. (n * (q + 1) + 0) % n = 0
    BY <1>1
  <2> QED BY <2>1, <2>2, <1>2 DEF m
<1>3. CASE m # n - 1
  <2>1. a + 1 = n * q + (m + 1) /\ m + 1 \in 0..(n-1)
    BY <1>1, <1>3
  <2>2. (n * q + (m+1)) % n = m + 1
    BY <2>1, <1>1
  <2> QED BY <2>1, <2>2, <1>3 DEF m
<1> QED BY <1>2, <1>3 DEF m

\* Numbers less than n apart have different remainders.
LEMMA ModWindow ==
  ASSUME NEW n \in Nat \ {0}, NEW a \in Nat, NEW b \in Nat, b - a \in 1..(n - 1)
  PROVE  a % n # b % n
<1> SUFFICES ASSUME a % n = b % n PROVE FALSE
  OBVIOUS
<1> DEFINE p == a \div n
           q == b \div n
           m == a % n
<1>1. a = n * p + m /\ b = n * q + m /\ p \in Nat /\ q \in Nat /\ m \in 0..(n - 1)
  OBVIOUS
<1> HIDE DEF p, q, m
<1>2. b - a = n * (q - p)
  BY <1>1
<1>3. q - p \in Int /\ (q - p <= 0 \/ q - p >= 1)
  BY <1>1
<1>4. q - p <= 0 => n * (q - p) <= 0
  BY <1>3
<1>5. q - p >= 1 => n * (q - p) >= n
  BY <1>3
<1> QED BY <1>2, <1>3, <1>4, <1>5

\* The id handed out by the k-th start.
Cycle == END_REQ_ID - BASE_REQ_ID - 1
ReqIdOf(k) == IF k = 0 THEN BASE_REQ_ID ELSE BASE_REQ_ID + 1 + ((k - 1) % Cycle)

\* Every listed request carries the id of its own start, and no two listed
\* requests belong to the same start.
IdInv ==
  /\ unique_req_id = ReqIdOf(starts)
  /\ \A r \in Requests : InList(r) => startSeq[r] \in 1..starts /\ id[r] = ReqIdOf(startSeq[r])
  /\ \A r, s \in Requests : InList(r) /\ InList(s) /\ r # s => startSeq[r] # startSeq[s]

\* ucg_group_alloc_req_id computes the id of the next start.
LEMMA AllocIsNext ==
  ASSUME NEW k \in Nat, unique_req_id = ReqIdOf(k)
  PROVE  AllocReqId = ReqIdOf(k + 1)
<1>1. Cycle \in Nat \ {0} /\ BASE_REQ_ID \in Int /\ END_REQ_ID = BASE_REQ_ID + 1 + Cycle
  BY ReqIdAssumption DEF Cycle
<1>2. CASE k = 0
  <2>1. 0 % Cycle = 0
    BY <1>1
  <2> QED BY <1>1, <1>2, <2>1 DEF AllocReqId, ReqIdOf
<1>3. CASE k # 0
  <2> DEFINE m == (k - 1) % Cycle
  <2>1. k - 1 \in Nat /\ m \in 0..(Cycle - 1)
    BY <1>1, <1>3
  <2>2. ((k - 1) + 1) % Cycle = IF m = Cycle - 1 THEN 0 ELSE m + 1
    BY <1>1, <2>1, ModSucc
  <2>3. k % Cycle = IF m = Cycle - 1 THEN 0 ELSE m + 1
    BY <2>2
  <2>4. ReqIdOf(k) = BASE_REQ_ID + 1 + m /\ ReqIdOf(k + 1) = BASE_REQ_ID + 1 + (k % Cycle)
    BY <1>3 DEF ReqIdOf
  <2> HIDE DEF m
  <2> QED BY <1>1, <2>1, <2>3, <2>4 DEF AllocReqId
<1> QED BY <1>2, <1>3

\* A step either starts a request, in one of the three ways, or draws no id
\* and changes no listed request.
LEMMA IdStep ==
  ASSUME IInv, IdInv, [Next]_vars
  PROVE  IdInv'
<1> USE DEF IInv
<1>1. starts \in Nat /\ plist \in Seq(Requests)
      /\ startSeq \in [Requests -> Nat] /\ id \in [Requests -> Int]
  BY DEF TypeOK
<1>2. ASSUME NEW t \in Threads, NEW r \in Requests, StartInProgress(t, r)
      PROVE  IdInv'
  <2>1. ~In(plist, r) /\ NoDup(plist)
    BY <1>2 DEF StartInProgress, PlistIsInProgress, InList, In, NoDup
  <2>2. /\ unique_req_id' = AllocReqId /\ starts' = starts + 1
        /\ startSeq' = [startSeq EXCEPT ![r] = starts + 1]
        /\ id' = [id EXCEPT ![r] = AllocReqId]
        /\ plist' = Append(plist, r)
    BY <1>2 DEF StartInProgress, Trigger
  <2>3. \A q \in Requests : InList(q)' <=> InList(q) \/ q = r
    BY <1>1, <2>1, <2>2, AppendFacts DEF InList, In
  <2>4. AllocReqId = ReqIdOf(starts + 1)
    BY <1>1, AllocIsNext DEF IdInv
  <2>5. unique_req_id' = ReqIdOf(starts')
    BY <2>2, <2>4
  <2>6. ASSUME NEW q \in Requests, InList(q)'
        PROVE  startSeq'[q] \in 1..starts' /\ id'[q] = ReqIdOf(startSeq'[q])
    BY <1>1, <2>2, <2>3, <2>4, <2>6 DEF IdInv
  <2>7. ASSUME NEW p \in Requests, NEW q \in Requests, InList(p)', InList(q)', p # q
        PROVE  startSeq'[p] # startSeq'[q]
    BY <1>1, <2>2, <2>3, <2>7 DEF IdInv
  <2> QED BY <2>5, <2>6, <2>7 DEF IdInv, ReqIdOf
<1>3. ASSUME NEW t \in Threads, NEW r \in Requests, StartComplete(t, r) \/ StartFail(t, r)
      PROVE  IdInv'
  <2>1. /\ unique_req_id' = AllocReqId /\ starts' = starts + 1
        /\ startSeq' = [startSeq EXCEPT ![r] = starts + 1]
        /\ \A q \in Requests : q # r => id'[q] = id[q]
        /\ plist' = plist
    BY <1>1, <1>3 DEF StartComplete, StartFail, Trigger
  <2>2. ~InList(r)
    BY <1>3 DEF StartComplete, StartFail, PlistIsInProgress
  <2>3. \A q \in Requests : InList(q)' <=> InList(q)
    BY <2>1 DEF InList
  <2>4. unique_req_id' = ReqIdOf(starts')
    BY <1>1, <2>1, AllocIsNext DEF IdInv
  <2>5. ASSUME NEW q \in Requests, InList(q)'
        PROVE  startSeq'[q] \in 1..starts' /\ id'[q] = ReqIdOf(startSeq'[q])
    BY <1>1, <2>1, <2>2, <2>3, <2>5 DEF IdInv
  <2>6. ASSUME NEW p \in Requests, NEW q \in Requests, InList(p)', InList(q)', p # q
        PROVE  startSeq'[p] # startSeq'[q]
    BY <1>1, <2>1, <2>2, <2>3, <2>6 DEF IdInv
  <2> QED BY <2>4, <2>5, <2>6 DEF IdInv, ReqIdOf
<1>4. ASSUME /\ unique_req_id' = unique_req_id /\ starts' = starts
             /\ \A q \in Requests :
                  InList(q)' => InList(q) /\ startSeq'[q] = startSeq[q] /\ id'[q] = id[q]
      PROVE  IdInv'
  BY <1>4 DEF IdInv, ReqIdOf
<1>5. ASSUME NEW t \in Threads, NEW r \in Requests,
             RequestInit(t, r) \/ Cleanup(t, r) \/ CbCleanup(t, r)
      PROVE  IdInv'
  <2>1. ~InList(r)
    BY <1>5 DEF RequestInit, Cleanup, CbCleanup, PlistIsInProgress
  <2>2. /\ unique_req_id' = unique_req_id /\ starts' = starts /\ plist' = plist
        /\ \A q \in Requests : q # r => startSeq'[q] = startSeq[q] /\ id'[q] = id[q]
    BY <1>1, <1>5 DEF RequestInit, Cleanup, CbCleanup
  <2> QED BY <1>4, <2>1, <2>2 DEF InList
<1>6. ASSUME NEW r \in Requests, NEW s, In(plist, r), Complete(r, s),
             UNCHANGED <<unique_req_id, starts, startSeq>>
      PROVE  IdInv'
  <2>1. plist' = ListDel(plist, r) /\ id' = [id EXCEPT ![r] = BASE_REQ_ID]
    BY <1>6 DEF Complete
  <2>2. \A q \in Requests : InList(q)' <=> InList(q) /\ q # r
    <3>1. NoDup(plist)
      BY DEF PlistIsInProgress, NoDup
    <3>2. \A q \in Requests : In(ListDel(plist, r), q) <=> In(plist, q) /\ q # r
      BY <1>1, <1>6, <3>1, ListDelFacts
    <3> QED BY ONLY <2>1, <3>2, ListReading
  <2> QED BY <1>1, <1>4, <1>6, <2>1, <2>2
<1>7. ASSUME NEW t \in Threads, NEW r \in Requests, TestComplete(t, r)
      PROVE  IdInv'
  <2>1. In(plist, r)
    BY <1>7 DEF TestComplete, UserMayCall, PlistIsInProgress, InList, In
  <2> QED BY <1>6, <1>7, <2>1 DEF TestComplete, histVars
<1>8. ASSUME NEW t \in Threads, LoopComplete(t)
      PROVE  IdInv'
  <2>1. req[t] \in Requests /\ In(plist, req[t])
    BY <1>8 DEF LoopComplete, CursorLinked, TypeOK, InList, In
  <2> QED BY <1>6, <1>8, <2>1 DEF LoopComplete, histVars
<1>9. ASSUME UNCHANGED <<plist, unique_req_id, starts, startSeq, id>>
      PROVE  IdInv'
  BY <1>4, <1>9 DEF InList
<1>10. ASSUME NEW t \in Threads, NEW r \in Requests, TestDone(t, r)
       PROVE  IdInv'
  BY <1>9, <1>10 DEF TestDone, reqVars, histVars
<1>11. ASSUME NEW t \in Threads,
              \/ TestReturn(t) \/ ProgressBegin(t) \/ LoopPending(t) \/ LoopEnd(t)
              \/ CbReturn(t) \/ Exit(t)
       PROVE  IdInv'
  <2>1. UNCHANGED <<plist, unique_req_id, starts, startSeq, id>>
    BY <1>11 DEF TestReturn, ProgressBegin, LoopPending, LoopEnd, CbReturn, Exit, reqVars, histVars
  <2> QED BY <1>9, <2>1
<1>12. CASE UNCHANGED vars
  BY <1>9, <1>12 DEF vars, reqVars, histVars
<1> QED BY <1>2, <1>3, <1>5, <1>7, <1>8, <1>10, <1>11, <1>12 DEF Next

LEMMA IdInvariance == Spec => []IdInv
<1>1. Init => IdInv
  BY DEF Init, IdInv, ReqIdOf, InList
<1> QED BY <1>1, IdStep, Invariance, PTL DEF Spec

\* The id counter depends on the number of starts only, so members of a group
\* that start the same collectives in the same order draw the same ids.
THEOREM ReqIdCorrect == Spec => []ReqIdFollowsStarts
<1>1. IdInv => ReqIdFollowsStarts
  BY DEF IdInv, ReqIdFollowsStarts, ReqIdOf, Cycle
<1> QED BY <1>1, IdInvariance, PTL

\* Ids of requests in flight collide only across a whole cycle of the counter.
THEOREM ReqIdDistinct == Spec => []ReqIdsDistinctInWindow
<1>1. ASSUME IInv, IdInv PROVE ReqIdsDistinctInWindow
  <2> SUFFICES ASSUME NEW r \in Requests, NEW s \in Requests,
                      r # s, InList(r), InList(s),
                      startSeq[s] - startSeq[r] \in 0..(END_REQ_ID - BASE_REQ_ID - 2)
               PROVE  id[r] # id[s]
    BY DEF ReqIdsDistinctInWindow
  <2>1. /\ startSeq[r] \in Nat \ {0} /\ startSeq[s] \in Nat \ {0}
        /\ startSeq[r] # startSeq[s]
        /\ id[r] = ReqIdOf(startSeq[r]) /\ id[s] = ReqIdOf(startSeq[s])
    BY <1>1 DEF IInv, TypeOK, IdInv
  <2>2. Cycle \in Nat \ {0} /\ BASE_REQ_ID \in Int
    BY ReqIdAssumption DEF Cycle
  <2>3. (startSeq[s] - 1) - (startSeq[r] - 1) \in 1..(Cycle - 1)
    BY <2>1, <2>2, ReqIdAssumption DEF Cycle
  <2> DEFINE a == (startSeq[r] - 1) % Cycle
             b == (startSeq[s] - 1) % Cycle
  <2>4. a # b
    <3>1. startSeq[r] - 1 \in Nat /\ startSeq[s] - 1 \in Nat
      BY <2>1
    <3> QED BY <3>1, <2>2, <2>3, ModWindow
  <2>5. a \in Int /\ b \in Int
    BY <2>1, <2>2
  <2>6. id[r] = BASE_REQ_ID + 1 + a /\ id[s] = BASE_REQ_ID + 1 + b
    BY <2>1 DEF ReqIdOf
  <2> HIDE DEF a, b
  <2> QED BY <2>2, <2>4, <2>5, <2>6
<1> QED BY <1>1, Invariance, IdInvariance, PTL
=============================================================================
