----------------------------- MODULE CollEngine -----------------------------
(***************************************************************************)
(* The members of a group run consecutive collectives over the UCX plan    *)
(* component. An algorithm is a sequence of stages for each member; the    *)
(* progress function posts the messages of a stage, waits until testall    *)
(* reports them done, advances its iterator and goes on in the same call.  *)
(* Messages are matched by sender and tag, the tag being the request id    *)
(* drawn when the collective was started; all sub-ops of a meta op share   *)
(* one id and run one after the other.                                     *)
(*                                                                         *)
(* The schedules are in the modules that list stages (UcxBarrier,          *)
(* UcxBcast, UcxAllreduce, UcxAllgatherv, UcxScatterv). A collective is a  *)
(* record                                                                  *)
(* [name, times, eager, stages, init, goal, ordered]: every member starts  *)
(* it `times' times (a bound), `eager' is the set of send modes to try,    *)
(* and stages[p] is the sequence of p's stages [local, send, recv]:        *)
(*   local  copies and reductions done before the messages are posted,     *)
(*          each [op, src, dst] with sequences of cells                    *)
(*   send   sequence of [to, cells]                                        *)
(*   recv   sequence of [from, cells]                                      *)
(* init[p] is p's memory when it starts (cell -> value) and goal[p] the    *)
(* value some of its cells must have at the end. A value is the sequence   *)
(* of the ranks that contributed to it, in the order of the operands.      *)
(***************************************************************************)
EXTENDS Integers, Sequences, FiniteSets, SequencesExt, TLC

CONSTANTS
  Collectives, \* the collectives to run, one in each behaviour
  Window,      \* a member keeps at most this span of collectives unfinished
  IdCycle      \* number of request ids before they wrap around

\* Two collectives a member has not finished have different ids.
ASSUME BoundsAssumption ==
  Window \in Nat \ {0} /\ IdCycle \in Nat \ {0} /\ Window <= IdCycle

IsSeq(s) == s \in Seq(ToSet(s))

\* What a record has to be to be a collective; whether the messages of its
\* members fit together is another matter (Paired).
WellFormed(C) ==
  /\ C.times \in Nat /\ C.eager \subseteq BOOLEAN
  /\ \A p \in DOMAIN C.stages :
       /\ IsSeq(C.stages[p])
       /\ \A k \in DOMAIN C.stages[p] :
            LET send == C.stages[p][k].send
                recv == C.stages[p][k].recv
            IN  /\ IsSeq(send) /\ IsSeq(recv)
                /\ \A i \in DOMAIN send : send[i].to \in DOMAIN C.stages /\ IsSeq(send[i].cells)
                /\ \A i \in DOMAIN recv : recv[i].from \in DOMAIN C.stages /\ IsSeq(recv[i].cells)

ASSUME CollectivesAssumption == \A C \in Collectives : WellFormed(C)

VARIABLES
  coll,        \* the collective this group runs, again and again
  eager,       \* sends complete when posted, or only when they are matched
  started,     \* started[p]: collectives p has started
  at,          \* at[p][c]: stage of p's c-th collective that is posted
  expected,    \* expected[p]: posted receives, in the order of posting
  net,         \* net[p]: messages of p not yet matched, in the order of posting
  mem,         \* mem[p][c]: the memory of p's c-th collective
  mismatch     \* history: some receive was matched with a wrong message

vars == <<at, started, expected, net, mem, mismatch, eager, coll>>

Stages == coll.stages
Procs == DOMAIN Stages
Index == 1..coll.times

Done(p, c) == c <= started[p] /\ at[p][c] > Len(Stages[p])
Running(p) == {c \in 1..started[p] : ~Done(p, c)}
AllIdle == \A p \in Procs : started[p] = 0
AllDone == \A p \in Procs : started[p] = coll.times /\ Running(p) = {}

\* Mutant: request ids are not distinct within the window.
Tag_Constant(c) == 1

\* op->tag = request id of the c-th start
Tag(c) == 1 + ((c - 1) % IdCycle)

Init ==
  /\ coll \in Collectives
  /\ eager \in coll.eager
  /\ started = [p \in Procs |-> 0]
  /\ at = [p \in Procs |-> [c \in Index |-> 0]]
  /\ expected = [p \in Procs |-> <<>>]
  /\ net = [p \in Procs |-> <<>>]
  /\ mem = [p \in Procs |-> [c \in Index |-> coll.init[p]]]
  /\ mismatch = FALSE

-----------------------------------------------------------------------------
\* dst[i] receives value v[i]; the other cells of the memory stay.
Write(m, dst, v) ==
  LET new == {dst[i] : i \in DOMAIN v}
  IN  [x \in DOMAIN m \cup new |-> IF x \in new THEN v[CHOOSE i \in DOMAIN v : dst[i] = x]
                                  ELSE m[x]]

\* ucg_dt_memcpy, or ucg_op_reduce, which leaves src op dst in dst.
DoLocal(m, step) ==
  [x \in DOMAIN m \cup ToSet(step.dst) |->
     IF x \in ToSet(step.dst)
     THEN LET i == CHOOSE i \in DOMAIN step.dst : step.dst[i] = x
          IN  IF step.op = "copy" THEN m[step.src[i]] ELSE m[step.src[i]] \o m[x]
     ELSE m[x]]

Read(m, cells) == [i \in DOMAIN cells |-> m[cells[i]]]

AfterLocal(m, steps) == FoldLeft(DoLocal, m, steps)

\* What stage k hands to UCP. peer is the receiver of a message and the sender a
\* receive is posted for; pos names the message or the receive among all of
\* the member in this collective; UCP does not see it.
Sent(p, c, k, m) ==
  [i \in DOMAIN Stages[p][k].send |->
     LET s == Stages[p][k].send[i]
     IN  [peer |-> s.to, tag |-> Tag(c), coll |-> c, pos |-> <<k, i>>, cells |-> s.cells,
          data |-> IF eager THEN Read(m, s.cells) ELSE <<>>]]
Awaited(p, c, k) ==
  [i \in DOMAIN Stages[p][k].recv |->
     LET r == Stages[p][k].recv[i]
     IN  [peer |-> r.from, tag |-> Tag(c), coll |-> c, pos |-> <<k, i>>, cells |-> r.cells]]

\* The local steps of stage k, then isend and irecv for all its messages.
PostStage(p, c, k) ==
  /\ at' = [at EXCEPT ![p][c] = k]
  /\ IF k > Len(Stages[p])
     THEN UNCHANGED <<mem, net, expected>>
     ELSE LET m == AfterLocal(mem[p][c], Stages[p][k].local)
          IN  /\ mem' = [mem EXCEPT ![p][c] = m]
              /\ expected' = [expected EXCEPT ![p] = @ \o Awaited(p, c, k)]
              /\ net' = [net EXCEPT ![p] = @ \o Sent(p, c, k, m)]

\* The trigger of the op: the first stage is posted at once.
Start(p) ==
  /\ started[p] < coll.times
  /\ \A c \in Running(p) : started[p] + 1 - c < Window
  /\ started' = [started EXCEPT ![p] = @ + 1]
  /\ PostStage(p, started[p] + 1, 1)
  /\ UNCHANGED <<coll, eager, mismatch>>

SendsDone(p, c) ==
  eager \/ \A j \in DOMAIN net[p] : net[p][j].coll # c
RecvsDone(p, c) == \A i \in DOMAIN expected[p] : expected[p][i].coll # c

\* Mutants: the stage ends although its sends, its receives are not complete.
StageDone_RecvsOnly(p, c) == RecvsDone(p, c)
StageDone_SendsOnly(p, c) == SendsDone(p, c)

\* testall: no send and no receive of the op is in flight.
StageDone(p, c) == SendsDone(p, c) /\ RecvsDone(p, c)

\* The iterator is advanced and the next stage is posted.
Advance(p, c) ==
  /\ c \in Running(p)
  /\ StageDone(p, c)
  /\ PostStage(p, c, at[p][c] + 1)
  /\ UNCHANGED <<coll, eager, started, mismatch>>

\* UCP matches the mask of tag, sender and group.
Matches(p, src, r, m) == r.peer = src /\ m.peer = p /\ m.tag = r.tag

\* UCP delivers a message to the oldest posted receive it matches; messages
\* of a sender with the same tag are matched in the order of sending. The
\* data of a send that is not eager is read from the sender's memory now.
Match(p, src, i, j) ==
  LET r == expected[p][i]
      m == net[src][j]
      data == IF eager THEN m.data ELSE Read(mem[src][m.coll], m.cells)
  IN  /\ Matches(p, src, r, m)
      /\ \A h \in 1..(i - 1) : ~Matches(p, src, expected[p][h], m)
      /\ \A h \in 1..(j - 1) : ~Matches(p, src, r, net[src][h])
      /\ expected' = [expected EXCEPT ![p] = RemoveAt(@, i)]
      /\ net' = [net EXCEPT ![src] = RemoveAt(@, j)]
      /\ mem' = [mem EXCEPT ![p][r.coll] =
                   Write(@, r.cells, SubSeq(data, 1, IF Len(data) <= Len(r.cells) THEN Len(data)
                                                     ELSE Len(r.cells)))]
      /\ mismatch' = (mismatch \/ m.coll # r.coll \/ r.peer # src \/ Len(data) > Len(r.cells))
      /\ UNCHANGED <<coll, eager, started, at>>

MatchSome(p) ==
  \E src \in Procs : \E i \in DOMAIN expected[p], j \in DOMAIN net[src] : Match(p, src, i, j)

Next ==
  \/ \E p \in Procs : Start(p)
  \/ \E p \in Procs, c \in Index : Advance(p, c)
  \/ \E p \in Procs : MatchSome(p)

Spec == Init /\ [][Next]_vars

\* Every member calls the collective and progresses what it started, and UCP
\* delivers what can be matched: a step of one member never takes a step of
\* another away, so fairness of the whole is fairness of each.
FairSpec == Spec /\ WF_vars(Next)

-----------------------------------------------------------------------------
(* Properties *)

\* The messages from p to q and the receives of q for p in one collective, by
\* position, and how many of a set of them come before one of them.
Sends(stages, p, q) ==
  UNION {{<<k, i>> : i \in {h \in DOMAIN stages[p][k].send : stages[p][k].send[h].to = q}} :
           k \in DOMAIN stages[p]}
Receives(stages, q, p) ==
  UNION {{<<k, i>> : i \in {h \in DOMAIN stages[q][k].recv : stages[q][k].recv[h].from = p}} :
           k \in DOMAIN stages[q]}
Before(x, y) == x[1] < y[1] \/ (x[1] = y[1] /\ x[2] < y[2])
Rank(S, x) == Cardinality({y \in S : Before(y, x)})

\* The n-th message from p to q and the n-th receive of q for p: one exists if
\* the other does, and the message fits into the receive.
Paired(stages) ==
  \A p, q \in DOMAIN stages :
    LET S == Sends(stages, p, q)
        R == Receives(stages, q, p)
    IN  /\ {Rank(S, x) : x \in S} = {Rank(R, y) : y \in R}
        /\ \A x \in S, y \in R : Rank(S, x) = Rank(R, y) =>
             Len(stages[p][x[1]].send[x[2]].cells) <= Len(stages[q][y[1]].recv[y[2]].cells)

\* The schedules of the members fit together, pair by pair, although each
\* member computes its own from its rank alone.
SchedulesPaired == AllIdle => Paired(Stages)

\* Every receive gets a message of the same collective that fits, although
\* members run ahead of each other, collectives overlap, their stages and
\* sub-ops share a tag and request ids wrap around.
NoCrossMatch == ~mismatch

\* A member whose op has completed has the result in its buffer: every
\* contribution once, and in rank order where the algorithm promises so. Sends
\* that are not eager read the buffer late, so this also says that no step
\* overwrites a block that is still being sent.
ResultCorrect ==
  \A p \in Procs : \A c \in 1..started[p] : Done(p, c) =>
    \A x \in DOMAIN coll.goal[p] :
      LET got == mem[p][c][x]
          want == coll.goal[p][x]
      IN  IF coll.ordered THEN got = want
          ELSE Len(got) = Len(want) /\ ToSet(got) = ToSet(want)

\* When all members are done every message was received and every receive
\* got a message: the next collective with the same request id is safe.
NothingLeft ==
  AllDone => \A p \in Procs : net[p] = <<>> /\ expected[p] = <<>>

\* All collectives end on all members.
AllEnd == <>AllDone

-----------------------------------------------------------------------------
(* Schedules that leave no result to timing *)

\* The messages from p to q, each with the receive of its rank.
Meets(stages, p, q) ==
  LET S == Sends(stages, p, q)
      R == Receives(stages, q, p)
  IN  {m \in S \X R : Rank(S, m[1]) = Rank(R, m[2])}

\* What they bring to p's stage k: cell dst is filled from the cell src of the
\* memory with which `from' has posted its stage.
Arrivals(stages, p, k) ==
  UNION {UNION {LET x == m[1]
                    cells == stages[q][x[1]].send[x[2]].cells
                IN  {[from |-> q, stage |-> x[1], src |-> cells[i],
                      dst |-> stages[p][k].recv[m[2][2]].cells[i]] : i \in DOMAIN cells} :
                  m \in {n \in Meets(stages, q, p) : n[2][1] = k}} :
           q \in DOMAIN stages}

\* An arrival that its sender posts after it has received the i-th message of p's
\* stage k.
Answers(stages, p, k, i, a) ==
  \E m \in Meets(stages, p, a.from) : m[1] = <<k, i>> /\ m[2][1] < a.stage

IsFcn(m) == m = [x \in DOMAIN m |-> m[x]]

\* With found[p][k] in p's memory when it comes to stage k, what it posts
\* the stage with.
Posted(C, found, p, k) == AfterLocal(found[p][k], C.stages[p][k].local)

\* found tells what is in each memory at each stage: what was there, and what has
\* arrived. Messages that arrive in one stage do not disagree on a cell; none
\* overwrites a cell that is still to be read by a send, unless it answers that send;
\* and in the end the result is there.
Determines(C, found) ==
  \A p \in DOMAIN C.stages :
    /\ found[p][1] = C.init[p]
    /\ \A k \in DOMAIN C.stages[p] :
         LET posted == Posted(C, found, p, k)
             next == found[p][k + 1]
             arrivals == Arrivals(C.stages, p, k)
             send == C.stages[p][k].send
         IN  /\ IsFcn(posted) /\ IsFcn(next)
             /\ DOMAIN next = DOMAIN posted \cup {a.dst : a \in arrivals}
             /\ \A x \in DOMAIN posted \ {a.dst : a \in arrivals} : next[x] = posted[x]
             /\ \A a \in arrivals : next[a.dst] = Posted(C, found, a.from, a.stage)[a.src]
             /\ \A i \in DOMAIN send : ToSet(send[i].cells) \subseteq DOMAIN posted
             /\ FALSE \in C.eager =>
                  \A i \in DOMAIN send, a \in arrivals :
                    a.dst \in ToSet(send[i].cells) =>
                      next[a.dst] = posted[a.dst] \/ Answers(C.stages, p, k, i, a)
    /\ LET last == found[p][Len(C.stages[p]) + 1]
       IN  \A x \in DOMAIN C.goal[p] :
             IF C.ordered THEN last[x] = C.goal[p][x]
             ELSE Len(last[x]) = Len(C.goal[p][x]) /\ ToSet(last[x]) = ToSet(C.goal[p][x])

\* One order in which the stages may be gone through: in each round all members go
\* on whose messages have been posted.
Contents(C) ==
  LET arrivals == [p \in DOMAIN C.stages |->
                     [k \in DOMAIN C.stages[p] |-> Arrivals(C.stages, p, k)]]
      Ready(found, p) ==
        /\ Len(found[p]) <= Len(C.stages[p])
        /\ \A a \in arrivals[p][Len(found[p])] : a.stage <= Len(found[a.from])
      Filled(found, p) ==
        LET in == arrivals[p][Len(found[p])]
            posted == Posted(C, found, p, Len(found[p]))
        IN  [x \in {a.dst : a \in in} |->
               LET a == CHOOSE b \in in : b.dst = x
               IN  Posted(C, found, a.from, a.stage)[a.src]] @@ posted
      Round(found, n) ==
        [p \in {q \in DOMAIN C.stages : Ready(found, q)} |->
           Append(found[p], Filled(found, p))] @@ found
  IN  FoldLeft(Round, [p \in DOMAIN C.stages |-> <<C.init[p]>>],
               [n \in 1..MapThenSumSet(LAMBDA p : Len(C.stages[p]), DOMAIN C.stages) |-> n])

\* The schedules of the members fit together, and what each memory holds at each
\* stage does not depend on who is faster.
SchedulesDetermine ==
  AllIdle => Paired(Stages) /\ Determines(coll, Contents(coll))

-----------------------------------------------------------------------------
(* Collectives that let no member go before all have entered *)

\* The messages that p receives in stage k, <<q, j>> for one of q's stage j.
Sources(stages, p, k) ==
  UNION {LET S == Sends(stages, q, p)
             R == Receives(stages, p, q)
         IN  {<<q, x[1]>> : x \in {z \in S : \E y \in R : y[1] = k /\ Rank(S, z) = Rank(R, y)}} :
           q \in DOMAIN stages}

\* known[p][k] are members that have entered when p posts stage k: p itself, those
\* it knew of a stage earlier, and those the senders of the messages it has
\* received since then knew of when they sent them. In the end they are all.
Tells(stages, known) ==
  \A p \in DOMAIN stages :
    /\ stages[p] # <<>>
    /\ known[p][1] \subseteq {p}
    /\ \A k \in DOMAIN stages[p] :
         known[p][k + 1] \subseteq
           known[p][k] \cup UNION {known[s[1]][s[2]] : s \in Sources(stages, p, k)}
    /\ DOMAIN stages \subseteq known[p][Len(stages[p]) + 1]

\* What the messages of a schedule tell, in as many rounds as there are stages.
Known(stages) ==
  LET rounds == MapThenSumSet(LAMBDA p : Len(stages[p]), DOMAIN stages)
      known[n \in Nat] ==
        [p \in DOMAIN stages |-> [k \in 1..(Len(stages[p]) + 1) |->
           IF n = 0 \/ k = 1 THEN {p}
           ELSE known[n - 1][p][k - 1] \cup
                  UNION {known[n - 1][s[1]][s[2]] : s \in Sources(stages, p, k - 1)}]]
  IN  known[rounds]

\* The schedules of the members fit together, and no member comes to the end of
\* its own without a chain of messages from every other member.
SchedulesInform ==
  AllIdle => Paired(Stages) /\ Tells(Stages, Known(Stages))

\* The barriers of all behaviours, by their number.
Starts == UNION {1..C.times : C \in Collectives}

B == INSTANCE Barrier WITH
       Barriers <- Starts,
       members <- Procs,
       entered <- [p \in Procs |-> 1..started[p]],
       left <- [p \in Procs |-> {c \in Index : Done(p, c)}]

\* A member leaves a barrier only after every member has entered it: the
\* algorithms implement the abstract barrier.
ImplementsBarrier == B!Spec
=============================================================================
