-------------------------- MODULE CollEngineProofs --------------------------
(***************************************************************************)
(* Proofs about CollEngine: for every set of collectives whose schedules   *)
(* are Paired, any number of members, of starts and of request ids, and    *)
(* whether sends complete early or late, a receive gets the message that   *)
(* was meant for it and nothing is left over.                              *)
(*                                                                         *)
(* The argument follows the rank of a message among those of its sender,   *)
(* receiver and collective.  The messages and receives that were matched   *)
(* have the same ranks (SameRanks).  Of two collectives that share a tag a *)
(* member has finished the earlier one, so none of its receives is left    *)
(* (DoneIsQuiet), and it posts in the order of the collectives and of the  *)
(* stages (NetInOrder, ExpectedInOrder).  So the oldest message and the    *)
(* oldest receive of a tag are of the same collective and of the same rank.*)
(***************************************************************************)
EXTENDS CollEngine, FiniteSetTheorems, TLAPS

-----------------------------------------------------------------------------
(* Sequences *)

Sequence(s) == \E S : s \in Seq(S)

LEMMA EmptySequence == Sequence(<<>>) /\ DOMAIN <<>> = {}
<1>1. <<>> \in Seq({})
  OBVIOUS
<1> QED
  BY <1>1 DEF Sequence

LEMMA SequenceDomain ==
  ASSUME NEW s, Sequence(s)
  PROVE  Len(s) \in Nat /\ DOMAIN s = 1..Len(s)
BY DEF Sequence

LEMMA IndexedIsSequence ==
  ASSUME NEW n \in Nat, NEW s, DOMAIN s = 1..n, s = [i \in 1..n |-> s[i]]
  PROVE  Sequence(s) /\ Len(s) = n
<1>1. s \in [1..n -> {s[i] : i \in 1..n}]
  OBVIOUS
<1>2. s \in Seq({s[i] : i \in 1..n})
  BY <1>1
<1>3. Sequence(s)
  BY <1>2 DEF Sequence
<1> QED
  BY <1>3, SequenceDomain

LEMMA Appended ==
  ASSUME NEW s, NEW t, Sequence(s), Sequence(t)
  PROVE  /\ Sequence(s \o t)
         /\ Len(s \o t) = Len(s) + Len(t)
         /\ \A i \in 1..(Len(s) + Len(t)) :
              (s \o t)[i] = IF i <= Len(s) THEN s[i] ELSE t[i - Len(s)]
<1>1. PICK S : s \in Seq(S)
  BY DEF Sequence
<1>2. PICK T : t \in Seq(T)
  BY DEF Sequence
<1>3. s \in Seq(S \cup T) /\ t \in Seq(S \cup T)
  BY <1>1, <1>2
<1>4. s \o t \in Seq(S \cup T)
  BY <1>3
<1> QED
  BY <1>3, <1>4 DEF Sequence

LEMMA Removed ==
  ASSUME NEW s, Sequence(s), NEW i \in DOMAIN s
  PROVE  /\ Sequence(RemoveAt(s, i))
         /\ Len(RemoveAt(s, i)) = Len(s) - 1
         /\ \A j \in 1..(Len(s) - 1) : RemoveAt(s, i)[j] = s[IF j < i THEN j ELSE j + 1]
<1>1. PICK S : s \in Seq(S)
  BY DEF Sequence
<1>2. i \in 1..Len(s) /\ Len(s) \in Nat
  BY <1>1
<1>3. /\ SubSeq(s, 1, i - 1) \in Seq(S)
      /\ Len(SubSeq(s, 1, i - 1)) = i - 1
      /\ \A j \in 1..(i - 1) : SubSeq(s, 1, i - 1)[j] = s[j]
  BY <1>1, <1>2
<1>4. /\ SubSeq(s, i + 1, Len(s)) \in Seq(S)
      /\ Len(SubSeq(s, i + 1, Len(s))) = Len(s) - i
      /\ \A j \in 1..(Len(s) - i) : SubSeq(s, i + 1, Len(s))[j] = s[i + j]
  BY <1>1, <1>2
<1> DEFINE front == SubSeq(s, 1, i - 1)
           back == SubSeq(s, i + 1, Len(s))
<1>5. Sequence(front) /\ Sequence(back)
  BY <1>3, <1>4 DEF Sequence
<1> HIDE DEF front, back
<1>6. RemoveAt(s, i) = front \o back
  BY DEF RemoveAt, front, back
<1>7. Len(front) = i - 1 /\ Len(back) = Len(s) - i
  BY <1>3, <1>4 DEF front, back
<1>8. ASSUME NEW j \in 1..(Len(s) - 1)
      PROVE  (front \o back)[j] = s[IF j < i THEN j ELSE j + 1]
  <2>1. (front \o back)[j] = IF j <= i - 1 THEN front[j] ELSE back[j - (i - 1)]
    BY SMTT(30), <1>2, <1>5, <1>7, Appended
  <2>2. CASE j < i
    BY <1>2, <1>3, <2>1, <2>2 DEF front
  <2>3. CASE j >= i
    <3>1. j - (i - 1) \in 1..(Len(s) - i)
      BY <1>2, <2>3
    <3>2. back[j - (i - 1)] = s[i + (j - (i - 1))]
      BY <1>4, <3>1 DEF back
    <3>3. i + (j - (i - 1)) = j + 1
      BY <1>2
    <3> QED
      BY <1>2, <2>1, <2>3, <3>2, <3>3
  <2>4. j < i \/ j >= i
    BY <1>2
  <2> QED
    BY ONLY <2>2, <2>3, <2>4
<1> QED
  BY <1>2, <1>5, <1>6, <1>7, <1>8, Appended

-----------------------------------------------------------------------------
(* Positions and ranks *)

Position == Nat \X Nat

LEMMA BeforeIsOrder ==
  ASSUME NEW x \in Position, NEW y \in Position
  PROVE  /\ ~Before(x, x)
         /\ Before(x, y) \/ x = y \/ Before(y, x)
         /\ \A z \in Position : Before(x, y) /\ Before(y, z) => Before(x, z)
BY DEF Before, Position

\* The rank orders a finite set of positions and names each of them.
LEMMA RankIsOrder ==
  ASSUME NEW S \in SUBSET Position, IsFiniteSet(S), NEW x \in S, NEW y \in S
  PROVE  /\ Rank(S, x) = Rank(S, y) => x = y
         /\ Rank(S, x) # Rank(S, y) => x # y
         /\ Rank(S, x) \in Nat
         /\ Rank(S, x) < Rank(S, y) => Before(x, y)
<1> DEFINE Earlier(z) == {w \in S : Before(w, z)}
<1>1. \A z : IsFiniteSet(Earlier(z)) /\ Cardinality(Earlier(z)) \in Nat
  <2> TAKE z
  <2>1. Earlier(z) \in SUBSET S
    OBVIOUS
  <2>2. IsFiniteSet(Earlier(z))
    BY ONLY <2>1, IsFiniteSet(S), FS_Subset
  <2> QED
    BY ONLY <2>2, FS_CardinalityType
<1>2. ASSUME NEW a \in S, NEW b \in S, Before(a, b)
      PROVE  Cardinality(Earlier(a)) < Cardinality(Earlier(b))
  <2>1. Earlier(a) \in SUBSET Earlier(b)
    BY <1>2, BeforeIsOrder
  <2>2. a \in Earlier(b) /\ a \notin Earlier(a)
    BY <1>2, BeforeIsOrder
  <2>3. Cardinality(Earlier(a)) <= Cardinality(Earlier(b)) /\ Cardinality(Earlier(a)) # Cardinality(Earlier(b))
    <3> HIDE DEF Earlier
    <3> QED
      BY <1>1, <2>1, <2>2, FS_Subset
  <2> HIDE DEF Earlier
  <2> QED
    BY <1>1, <2>3
<1>3. \A z : Rank(S, z) = Cardinality(Earlier(z))
  BY DEF Rank
<1>4. Before(x, y) \/ x = y \/ Before(y, x)
  BY BeforeIsOrder
<1> HIDE DEF Earlier
<1> QED
  BY <1>1, <1>2, <1>3, <1>4

\* The schedule of a member, as every collective has it.
LEMMA ScheduleShape ==
  ASSUME coll \in Collectives
  PROVE  /\ coll.times \in Nat
         /\ \A p \in Procs :
              /\ Sequence(Stages[p])
              /\ \A k \in DOMAIN Stages[p] :
                   /\ Sequence(Stages[p][k].send) /\ Sequence(Stages[p][k].recv)
                   /\ \A i \in DOMAIN Stages[p][k].send :
                        /\ Stages[p][k].send[i].to \in Procs
                        /\ Sequence(Stages[p][k].send[i].cells)
                   /\ \A i \in DOMAIN Stages[p][k].recv :
                        /\ Stages[p][k].recv[i].from \in Procs
                        /\ Sequence(Stages[p][k].recv[i].cells)
<1>1. \A s : IsSeq(s) => Sequence(s)
  BY DEF IsSeq, Sequence
<1>2. WellFormed(coll)
  BY CollectivesAssumption
<1> QED
  BY <1>1, <1>2 DEF WellFormed, Stages, Procs

LEMMA FiniteFamily ==
  ASSUME NEW n \in Nat, NEW f, DOMAIN f = 1..n, \A k \in 1..n : IsFiniteSet(f[k])
  PROVE  IsFiniteSet(UNION {f[k] : k \in 1..n})
<1> DEFINE T == {f[k] : k \in 1..n}
           g == [k \in 1..n |-> f[k]]
<1>1. IsFiniteSet(1..n)
  <2>1. n \in Int /\ 1 \in Int
    OBVIOUS
  <2> QED
    BY ONLY <2>1, FS_Interval
<1>2. g \in Surjection(1..n, T)
  BY DEF Surjection
<1>3. IsFiniteSet(T)
  <2> HIDE DEF T, g
  <2> QED
    BY <1>1, <1>2, FS_Surjection
<1>4. \A U \in T : IsFiniteSet(U)
  OBVIOUS
<1> HIDE DEF T
<1>5. IsFiniteSet(UNION T)
  BY <1>3, <1>4, FS_UNION
<1> QED
  BY <1>5 DEF T

\* What is to be sent from p to q, and awaited at q from p.
ToSend(p, q) == Sends(Stages, p, q)
ToReceive(q, p) == Receives(Stages, q, p)

LEMMA ToSendShape ==
  ASSUME coll \in Collectives, NEW p \in Procs, NEW q
  PROVE  /\ ToSend(p, q) \in SUBSET Position
         /\ IsFiniteSet(ToSend(p, q))
         /\ \A k, i : <<k, i>> \in ToSend(p, q) <=>
              /\ k \in DOMAIN Stages[p] /\ i \in DOMAIN Stages[p][k].send
              /\ Stages[p][k].send[i].to = q
<1>1. Len(Stages[p]) \in Nat /\ DOMAIN Stages[p] = 1..Len(Stages[p])
  BY ScheduleShape, SequenceDomain
<1>2. \A k \in DOMAIN Stages[p] :
        Len(Stages[p][k].send) \in Nat /\ DOMAIN Stages[p][k].send = 1..Len(Stages[p][k].send)
  BY ScheduleShape, SequenceDomain
<1> DEFINE At(k) == {<<k, i>> : i \in {h \in DOMAIN Stages[p][k].send : Stages[p][k].send[h].to = q}}
           f == [k \in DOMAIN Stages[p] |-> At(k)]
<1>3. ASSUME NEW k \in DOMAIN Stages[p] PROVE IsFiniteSet(At(k))
  <2> DEFINE I == {h \in DOMAIN Stages[p][k].send : Stages[p][k].send[h].to = q}
             g == [i \in I |-> <<k, i>>]
  <2>1. IsFiniteSet(1..Len(Stages[p][k].send))
    BY <1>2, <1>3, FS_Interval
  <2>2. I \in SUBSET (1..Len(Stages[p][k].send))
    BY <1>2, <1>3
  <2>3. IsFiniteSet(I)
    BY ONLY <2>1, <2>2, FS_Subset
  <2>4. g \in Surjection(I, At(k))
    BY DEF Surjection
  <2> HIDE DEF I, g, At
  <2> QED
    BY ONLY <2>3, <2>4, FS_Surjection
<1>4. ToSend(p, q) = UNION {f[k] : k \in 1..Len(Stages[p])}
  <2>1. ToSend(p, q) = UNION {At(k) : k \in DOMAIN Stages[p]}
    BY DEF ToSend, Sends
  <2>2. \A k \in DOMAIN Stages[p] : f[k] = At(k)
    OBVIOUS
  <2>3. {f[k] : k \in 1..Len(Stages[p])} = {At(k) : k \in DOMAIN Stages[p]}
    <3> HIDE DEF f, At
    <3> QED
      BY ONLY <1>1, <2>2
  <2> HIDE DEF f, At
  <2> QED
    BY ONLY <2>1, <2>3
<1>5. IsFiniteSet(ToSend(p, q))
  <2>1. DOMAIN f = 1..Len(Stages[p]) /\ \A k \in 1..Len(Stages[p]) : IsFiniteSet(f[k])
    BY <1>1, <1>3
  <2> HIDE DEF f
  <2> QED
    BY ONLY <1>1, <1>4, <2>1, FiniteFamily
<1>6. \A k, i : <<k, i>> \in ToSend(p, q) <=>
        /\ k \in DOMAIN Stages[p] /\ i \in DOMAIN Stages[p][k].send
        /\ Stages[p][k].send[i].to = q
  BY DEF ToSend, Sends
<1>7. ToSend(p, q) \in SUBSET Position
  BY <1>1, <1>2 DEF ToSend, Sends, Position
<1> QED
  BY <1>5, <1>6, <1>7

LEMMA ToReceiveShape ==
  ASSUME coll \in Collectives, NEW q \in Procs, NEW p
  PROVE  /\ ToReceive(q, p) \in SUBSET Position
         /\ IsFiniteSet(ToReceive(q, p))
         /\ \A k, i : <<k, i>> \in ToReceive(q, p) <=>
              /\ k \in DOMAIN Stages[q] /\ i \in DOMAIN Stages[q][k].recv
              /\ Stages[q][k].recv[i].from = p
<1>1. Len(Stages[q]) \in Nat /\ DOMAIN Stages[q] = 1..Len(Stages[q])
  BY ScheduleShape, SequenceDomain
<1>2. \A k \in DOMAIN Stages[q] :
        Len(Stages[q][k].recv) \in Nat /\ DOMAIN Stages[q][k].recv = 1..Len(Stages[q][k].recv)
  BY ScheduleShape, SequenceDomain
<1> DEFINE At(k) == {<<k, i>> : i \in {h \in DOMAIN Stages[q][k].recv : Stages[q][k].recv[h].from = p}}
           f == [k \in DOMAIN Stages[q] |-> At(k)]
<1>3. ASSUME NEW k \in DOMAIN Stages[q] PROVE IsFiniteSet(At(k))
  <2> DEFINE I == {h \in DOMAIN Stages[q][k].recv : Stages[q][k].recv[h].from = p}
             g == [i \in I |-> <<k, i>>]
  <2>1. IsFiniteSet(1..Len(Stages[q][k].recv))
    BY <1>2, <1>3, FS_Interval
  <2>2. I \in SUBSET (1..Len(Stages[q][k].recv))
    BY <1>2, <1>3
  <2>3. IsFiniteSet(I)
    BY ONLY <2>1, <2>2, FS_Subset
  <2>4. g \in Surjection(I, At(k))
    BY DEF Surjection
  <2> HIDE DEF I, g, At
  <2> QED
    BY ONLY <2>3, <2>4, FS_Surjection
<1>4. ToReceive(q, p) = UNION {f[k] : k \in 1..Len(Stages[q])}
  <2>1. ToReceive(q, p) = UNION {At(k) : k \in DOMAIN Stages[q]}
    BY DEF ToReceive, Receives
  <2>2. \A k \in DOMAIN Stages[q] : f[k] = At(k)
    OBVIOUS
  <2>3. {f[k] : k \in 1..Len(Stages[q])} = {At(k) : k \in DOMAIN Stages[q]}
    <3> HIDE DEF f, At
    <3> QED
      BY ONLY <1>1, <2>2
  <2> HIDE DEF f, At
  <2> QED
    BY ONLY <2>1, <2>3
<1>5. IsFiniteSet(ToReceive(q, p))
  <2>1. DOMAIN f = 1..Len(Stages[q]) /\ \A k \in 1..Len(Stages[q]) : IsFiniteSet(f[k])
    BY <1>1, <1>3
  <2> HIDE DEF f
  <2> QED
    BY ONLY <1>1, <1>4, <2>1, FiniteFamily
<1>6. \A k, i : <<k, i>> \in ToReceive(q, p) <=>
        /\ k \in DOMAIN Stages[q] /\ i \in DOMAIN Stages[q][k].recv
        /\ Stages[q][k].recv[i].from = p
  BY DEF ToReceive, Receives
<1>7. ToReceive(q, p) \in SUBSET Position
  BY <1>1, <1>2 DEF ToReceive, Receives, Position
<1> QED
  BY <1>5, <1>6, <1>7

\* A message and a receive stand in the schedule at their position.
LEMMA SendAt ==
  ASSUME coll \in Collectives, NEW p \in Procs, NEW q, NEW x \in ToSend(p, q)
  PROVE  x[1] \in Nat /\ x[1] \in DOMAIN Stages[p] /\ x[2] \in DOMAIN Stages[p][x[1]].send
<1>1. x \in Position
  BY ToSendShape
<1>2. x[1] \in Nat /\ x = <<x[1], x[2]>>
  BY <1>1 DEF Position
<1>3. <<x[1], x[2]>> \in ToSend(p, q)
  BY <1>2
<1> QED
  BY <1>2, <1>3, ToSendShape

LEMMA ReceiveAt ==
  ASSUME coll \in Collectives, NEW q \in Procs, NEW p, NEW x \in ToReceive(q, p)
  PROVE  x[1] \in Nat /\ x[1] \in DOMAIN Stages[q] /\ x[2] \in DOMAIN Stages[q][x[1]].recv
<1>1. x \in Position
  BY ToReceiveShape
<1>2. x[1] \in Nat /\ x = <<x[1], x[2]>>
  BY <1>1 DEF Position
<1>3. <<x[1], x[2]>> \in ToReceive(q, p)
  BY <1>2
<1> QED
  BY <1>2, <1>3, ToReceiveShape

-----------------------------------------------------------------------------
(* Queues of messages, and of receives *)

Entries(s) == {s[j] : j \in DOMAIN s}

\* The positions of the entries for q in the c-th collective.
Open(s, q, c) == {m.pos : m \in {e \in Entries(s) : e.peer = q /\ e.coll = c}}

Earlier(m, n) == m.coll < n.coll \/ (m.coll = n.coll /\ Before(m.pos, n.pos))

\* What UCP cannot tell apart is in the order of the collectives and of the
\* positions in them.
InOrder(s) ==
  \A i, j \in DOMAIN s :
    i < j /\ s[i].peer = s[j].peer /\ s[i].tag = s[j].tag => Earlier(s[i], s[j])

LEMMA AppendEntries ==
  ASSUME NEW s, NEW t, Sequence(s), Sequence(t)
  PROVE  Entries(s \o t) = Entries(s) \cup Entries(t)
<1>1. DOMAIN s = 1..Len(s) /\ DOMAIN t = 1..Len(t) /\ Len(s) \in Nat /\ Len(t) \in Nat
  BY SequenceDomain
<1>2. DOMAIN (s \o t) = 1..(Len(s) + Len(t))
  BY Appended, SequenceDomain
<1>3. \A j \in 1..(Len(s) + Len(t)) : (s \o t)[j] = IF j <= Len(s) THEN s[j] ELSE t[j - Len(s)]
  BY Appended
<1> DEFINE st == s \o t
<1> HIDE DEF st
<1>4. Entries(st) \subseteq Entries(s) \cup Entries(t)
  BY <1>1, <1>2, <1>3 DEF Entries, st
<1>5. ASSUME NEW j \in DOMAIN s PROVE s[j] \in Entries(st)
  BY <1>1, <1>2, <1>3 DEF Entries, st
<1>6. ASSUME NEW j \in DOMAIN t PROVE t[j] \in Entries(st)
  <2>1. Len(s) + j \in DOMAIN st /\ st[Len(s) + j] = t[j]
    BY <1>1, <1>2, <1>3 DEF st
  <2> QED
    BY <2>1 DEF Entries
<1> QED
  BY <1>4, <1>5, <1>6 DEF Entries, st

LEMMA AppendInOrder ==
  ASSUME NEW s, NEW t, Sequence(s), Sequence(t), InOrder(s), InOrder(t),
         \A m \in Entries(s), n \in Entries(t) :
           m.peer = n.peer /\ m.tag = n.tag => Earlier(m, n)
  PROVE  InOrder(s \o t)
<1>1. DOMAIN s = 1..Len(s) /\ DOMAIN t = 1..Len(t) /\ Len(s) \in Nat /\ Len(t) \in Nat
  BY SequenceDomain
<1>2. DOMAIN (s \o t) = 1..(Len(s) + Len(t))
  BY Appended, SequenceDomain
<1>3. \A j \in 1..(Len(s) + Len(t)) : (s \o t)[j] = IF j <= Len(s) THEN s[j] ELSE t[j - Len(s)]
  BY Appended
<1> DEFINE st == s \o t
<1> HIDE DEF st
<1>4. SUFFICES ASSUME NEW i \in DOMAIN st, NEW j \in DOMAIN st, i < j,
                      st[i].peer = st[j].peer, st[i].tag = st[j].tag
               PROVE  Earlier(st[i], st[j])
  BY DEF InOrder, st
<1>5. i \in Nat /\ j \in Nat
  BY <1>1, <1>2 DEF st
<1>6. CASE j <= Len(s)
  <2>1. i \in DOMAIN s /\ j \in DOMAIN s /\ st[i] = s[i] /\ st[j] = s[j]
    BY <1>1, <1>2, <1>3, <1>4, <1>5, <1>6 DEF st
  <2> QED
    BY <1>4, <2>1 DEF InOrder
<1>7. CASE i > Len(s)
  <2>1. /\ i - Len(s) \in DOMAIN t /\ j - Len(s) \in DOMAIN t
        /\ st[i] = t[i - Len(s)] /\ st[j] = t[j - Len(s)] /\ i - Len(s) < j - Len(s)
    BY <1>1, <1>2, <1>3, <1>4, <1>5, <1>7 DEF st
  <2> QED
    BY <1>4, <2>1 DEF InOrder
<1>8. CASE i <= Len(s) /\ j > Len(s)
  <2>1. /\ i \in DOMAIN s /\ j - Len(s) \in DOMAIN t
        /\ st[i] = s[i] /\ st[j] = t[j - Len(s)]
    BY <1>1, <1>2, <1>3, <1>4, <1>5, <1>8 DEF st
  <2> QED
    BY <1>4, <2>1 DEF Entries
<1> QED
  BY <1>1, <1>5, <1>6, <1>7, <1>8

\* An entry occurs once, and removing it keeps the others and their order.
LEMMA RemoveEntry ==
  ASSUME NEW s, Sequence(s), InOrder(s), NEW i \in DOMAIN s,
         \A m \in Entries(s) : m.coll \in Nat /\ m.pos \in Position /\ m.tag = Tag(m.coll)
  PROVE  /\ InOrder(RemoveAt(s, i))
         /\ Entries(RemoveAt(s, i)) \subseteq Entries(s)
         /\ \A q, c : Open(RemoveAt(s, i), q, c) =
              IF q = s[i].peer /\ c = s[i].coll THEN Open(s, q, c) \ {s[i].pos} ELSE Open(s, q, c)
<1>1. DOMAIN s = 1..Len(s) /\ Len(s) \in Nat
  BY SequenceDomain
<1> DEFINE rest == RemoveAt(s, i)
           From(j) == IF j < i THEN j ELSE j + 1
<1>2. DOMAIN rest = 1..(Len(s) - 1)
  BY Removed, SequenceDomain
<1>3. \A j \in 1..(Len(s) - 1) : rest[j] = s[From(j)]
  BY Removed
<1> HIDE DEF rest
<1>4. \A j \in 1..(Len(s) - 1) : From(j) \in DOMAIN s \ {i}
  BY <1>1
<1>5. \A j, k \in 1..(Len(s) - 1) : j < k => From(j) < From(k)
  BY <1>1
<1>6. InOrder(rest)
  <2> SUFFICES ASSUME NEW j \in DOMAIN rest, NEW k \in DOMAIN rest, j < k,
                      rest[j].peer = rest[k].peer, rest[j].tag = rest[k].tag
               PROVE  Earlier(rest[j], rest[k])
    BY DEF InOrder
  <2> HIDE DEF From
  <2> QED
    BY <1>2, <1>3, <1>4, <1>5 DEF InOrder
<1>7. Entries(rest) = {s[j] : j \in DOMAIN s \ {i}}
  <2>1. ASSUME NEW j \in DOMAIN s \ {i} PROVE s[j] \in Entries(rest)
    <3>1. CASE j < i
      <4>1. j \in 1..(Len(s) - 1) /\ From(j) = j
        BY <1>1, <3>1
      <4> QED
        BY <1>2, <1>3, <4>1 DEF Entries
    <3>2. CASE j > i
      <4>1. j - 1 \in 1..(Len(s) - 1) /\ From(j - 1) = j
        BY <1>1, <3>2
      <4> QED
        BY <1>2, <1>3, <4>1 DEF Entries
    <3> QED
      BY <1>1, <3>1, <3>2
  <2> HIDE DEF From
  <2> QED
    BY SMTT(30), <1>2, <1>3, <1>4, <2>1 DEF Entries
<1>8. ASSUME NEW j \in DOMAIN s \ {i}
      PROVE  ~(s[j].peer = s[i].peer /\ s[j].coll = s[i].coll /\ s[j].pos = s[i].pos)
  <2> SUFFICES ASSUME s[j].peer = s[i].peer, s[j].coll = s[i].coll, s[j].pos = s[i].pos
               PROVE  FALSE
    OBVIOUS
  <2>1. /\ s[i] \in Entries(s) /\ s[j] \in Entries(s)
    BY DEF Entries
  <2>2. s[i].tag = s[j].tag /\ s[i].coll \in Nat /\ s[i].pos \in Position
    BY <2>1
  <2>3. Earlier(s[i], s[j]) \/ Earlier(s[j], s[i])
    BY <1>1, <2>2 DEF InOrder
  <2> QED
    BY <2>2, <2>3, BeforeIsOrder DEF Earlier
<1>9. ASSUME NEW q, NEW c
      PROVE  Open(rest, q, c) =
               IF q = s[i].peer /\ c = s[i].coll THEN Open(s, q, c) \ {s[i].pos} ELSE Open(s, q, c)
  BY <1>7, <1>8 DEF Open, Entries
<1> QED
  BY <1>6, <1>7, <1>9 DEF rest, Entries

\* The first entry of its peer and tag is the oldest of them.
LEMMA OldestInOrder ==
  ASSUME NEW s, Sequence(s), InOrder(s), NEW i \in DOMAIN s,
         \A h \in 1..(i - 1) : ~(s[h].peer = s[i].peer /\ s[h].tag = s[i].tag)
  PROVE  \A e \in Entries(s) :
           e.peer = s[i].peer /\ e.tag = s[i].tag => e = s[i] \/ Earlier(s[i], e)
<1>1. DOMAIN s = 1..Len(s) /\ Len(s) \in Nat
  BY SequenceDomain
<1>2. ASSUME NEW h \in DOMAIN s, s[h].peer = s[i].peer, s[h].tag = s[i].tag
      PROVE  s[h] = s[i] \/ Earlier(s[i], s[h])
  <2>1. h = i \/ i < h
    BY <1>1, <1>2
  <2> QED
    BY <1>2, <2>1 DEF InOrder
<1> QED
  BY <1>2 DEF Entries

-----------------------------------------------------------------------------
(* The inductive invariant *)

Shape ==
  /\ coll \in Collectives
  /\ Paired(Stages)
  /\ started \in [Procs -> Nat]
  /\ at \in [Procs -> [Index -> Nat]]
  /\ DOMAIN net = Procs /\ DOMAIN expected = Procs
  /\ \A p \in Procs :
       /\ started[p] <= coll.times
       /\ \A c \in Index : c > started[p] => at[p][c] = 0
       /\ Sequence(net[p]) /\ Sequence(expected[p])

\* The collectives of a member that run are close to the one it started last.
InWindow == \A p \in Procs : \A c \in Running(p) : started[p] - c < Window

\* A queue holds messages of stages the member has reached, under their tag.
NetIsPosted ==
  \A p \in Procs : \A m \in Entries(net[p]) :
    /\ m.peer \in Procs /\ m.coll \in 1..started[p] /\ m.tag = Tag(m.coll)
    /\ m.pos \in ToSend(p, m.peer) /\ m.pos[1] <= at[p][m.coll]
    /\ m.cells = Stages[p][m.pos[1]].send[m.pos[2]].cells
    /\ eager => Len(m.data) = Len(m.cells)

ExpectedIsPosted ==
  \A p \in Procs : \A r \in Entries(expected[p]) :
    /\ r.peer \in Procs /\ r.coll \in 1..started[p] /\ r.tag = Tag(r.coll)
    /\ r.pos \in ToReceive(p, r.peer) /\ r.pos[1] <= at[p][r.coll]
    /\ r.cells = Stages[p][r.pos[1]].recv[r.pos[2]].cells

NetInOrder == \A p \in Procs : InOrder(net[p])
ExpectedInOrder == \A p \in Procs : InOrder(expected[p])

\* A collective that is done waits for nothing.
DoneIsQuiet == \A p \in Procs, c \in Index : Done(p, c) => RecvsDone(p, c)

\* What was posted and is no longer in a queue.
MatchedSends(p, q, c) == {x \in ToSend(p, q) : x[1] <= at[p][c]} \ Open(net[p], q, c)
MatchedReceives(q, p, c) == {y \in ToReceive(q, p) : y[1] <= at[q][c]} \ Open(expected[q], p, c)

\* Messages and receives were matched rank by rank.
SameRanks ==
  \A p, q \in Procs, c \in Index :
    {Rank(ToSend(p, q), x) : x \in MatchedSends(p, q, c)} =
    {Rank(ToReceive(q, p), y) : y \in MatchedReceives(q, p, c)}

IInv ==
  /\ Shape /\ InWindow /\ NetIsPosted /\ ExpectedIsPosted /\ NetInOrder /\ ExpectedInOrder
  /\ DoneIsQuiet /\ SameRanks /\ NoCrossMatch

LEMMA InitIInv == Init /\ SchedulesPaired => IInv
<1> SUFFICES ASSUME Init, SchedulesPaired PROVE IInv
  OBVIOUS
<1> USE DEF Init
<1>1. Shape
  BY EmptySequence, ScheduleShape
     DEF Shape, SchedulesPaired, AllIdle, Procs, Stages, Index
<1>2. \A p \in Procs : Entries(net[p]) = {} /\ Entries(expected[p]) = {}
  BY EmptySequence DEF Entries
<1>3. NetIsPosted /\ ExpectedIsPosted /\ NetInOrder /\ ExpectedInOrder
  BY <1>2, EmptySequence DEF NetIsPosted, ExpectedIsPosted, NetInOrder, ExpectedInOrder, InOrder
<1>4. InWindow /\ DoneIsQuiet /\ NoCrossMatch
  BY EmptySequence DEF InWindow, Running, DoneIsQuiet, RecvsDone, NoCrossMatch, Done
<1>5. SameRanks
  <2>1. ASSUME NEW p \in Procs, NEW q \in Procs, NEW c \in Index
        PROVE  MatchedSends(p, q, c) = {} /\ MatchedReceives(q, p, c) = {}
    <3>1. at[p][c] = 0 /\ at[q][c] = 0
      OBVIOUS
    <3>2. \A x \in ToSend(p, q) : x[1] \in Nat /\ x[1] > 0
      <4>1. \A k \in DOMAIN Stages[p] : k \in Nat /\ k > 0
        BY ScheduleShape, SequenceDomain
      <4> QED
        BY <4>1 DEF ToSend, Sends
    <3>3. \A y \in ToReceive(q, p) : y[1] \in Nat /\ y[1] > 0
      <4>1. \A k \in DOMAIN Stages[q] : k \in Nat /\ k > 0
        BY ScheduleShape, SequenceDomain
      <4> QED
        BY <4>1 DEF ToReceive, Receives
    <3> QED
      BY <3>1, <3>2, <3>3 DEF MatchedSends, MatchedReceives
  <2> QED
    BY <2>1 DEF SameRanks
<1> QED
  BY <1>1, <1>3, <1>4, <1>5 DEF IInv

-----------------------------------------------------------------------------
(* Tags *)

\* Numbers less than n apart have different remainders.
LEMMA ModWindow ==
  ASSUME NEW n \in Nat \ {0}, NEW a \in Nat, NEW b \in Nat, b - a \in 1..(n - 1)
  PROVE  a % n # b % n
<1> SUFFICES ASSUME a % n = b % n PROVE FALSE
  OBVIOUS
<1> DEFINE p == a \div n
           q == b \div n
           m == a % n
<1>1. a = n * p + m /\ b = n * q + m /\ p \in Nat /\ q \in Nat /\ m \in 0..(n - 1)
  OBVIOUS
<1> HIDE DEF p, q, m
<1>2. b - a = n * (q - p)
  BY <1>1
<1>3. q - p \in Int /\ (q - p <= 0 \/ q - p >= 1)
  BY <1>1
<1>4. q - p <= 0 => n * (q - p) <= 0
  BY <1>3
<1>5. q - p >= 1 => n * (q - p) >= n
  BY <1>3
<1> QED
  BY <1>2, <1>3, <1>4, <1>5

\* Two collectives in one window have different tags.
LEMMA TagsInWindow ==
  ASSUME NEW c \in Nat \ {0}, NEW d \in Nat \ {0}, c < d, d - c < Window
  PROVE  Tag(c) # Tag(d)
<1>1. IdCycle \in Nat \ {0} /\ Window \in Nat /\ Window <= IdCycle
  BY BoundsAssumption
<1>2. c - 1 \in Nat /\ d - 1 \in Nat /\ (d - 1) - (c - 1) \in 1..(IdCycle - 1)
  BY <1>1
<1>3. (c - 1) % IdCycle # (d - 1) % IdCycle
  BY <1>1, <1>2, ModWindow
<1>4. (c - 1) % IdCycle \in Int /\ (d - 1) % IdCycle \in Int
  BY <1>1, <1>2
<1> QED
  BY <1>3, <1>4 DEF Tag

\* A member that has started a collective is done with the earlier ones of the
\* same tag.
LEMMA EarlierIsDone ==
  ASSUME Shape, InWindow, NEW p \in Procs, NEW c \in Nat \ {0}, NEW d \in 1..started[p],
         c < d, Tag(c) = Tag(d)
  PROVE  Done(p, c)
<1>1. started[p] \in Nat /\ c \in 1..started[p]
  BY DEF Shape
<1>2. CASE c \in Running(p)
  <2>1. d - c < Window
    BY <1>1, <1>2, BoundsAssumption DEF InWindow
  <2> QED
    BY <2>1, TagsInWindow
<1>3. CASE c \notin Running(p)
  BY <1>1, <1>3 DEF Running
<1> QED
  BY <1>2, <1>3

-----------------------------------------------------------------------------
(* Matching *)

\* The oldest message and the oldest receive of a sender and a tag belong to
\* the same collective, and have the same rank in it.
LEMMA MatchIsRight ==
  ASSUME IInv, NEW p \in Procs, NEW src \in Procs,
         NEW m \in Entries(net[src]), NEW r \in Entries(expected[p]),
         m.peer = p, r.peer = src, m.tag = r.tag,
         \A e \in Entries(net[src]) : e.peer = p /\ e.tag = m.tag => e = m \/ Earlier(m, e),
         \A e \in Entries(expected[p]) : e.peer = src /\ e.tag = r.tag => e = r \/ Earlier(r, e)
  PROVE  /\ m.coll = r.coll
         /\ Rank(ToSend(src, p), m.pos) = Rank(ToReceive(p, src), r.pos)
<1> DEFINE S == ToSend(src, p)
           R == ToReceive(p, src)
<1>1. /\ S \in SUBSET Position /\ IsFiniteSet(S) /\ R \in SUBSET Position /\ IsFiniteSet(R)
      /\ {Rank(S, x) : x \in S} = {Rank(R, y) : y \in R}
  BY ToSendShape, ToReceiveShape DEF IInv, Shape, Paired, ToSend, ToReceive, Procs
<1>2. /\ m.coll \in 1..started[src] /\ m.tag = Tag(m.coll) /\ m.pos \in S /\ m.pos[1] <= at[src][m.coll]
      /\ r.coll \in 1..started[p] /\ r.tag = Tag(r.coll) /\ r.pos \in R /\ r.pos[1] <= at[p][r.coll]
  BY DEF IInv, NetIsPosted, ExpectedIsPosted
<1>3. /\ started[src] \in Nat /\ started[p] \in Nat
      /\ m.coll \in Nat \ {0} /\ r.coll \in Nat \ {0} /\ m.coll \in Index /\ r.coll \in Index
  BY <1>2, ScheduleShape DEF IInv, Shape, Index
<1>4. \A c \in Index : {Rank(S, x) : x \in MatchedSends(src, p, c)} =
                       {Rank(R, y) : y \in MatchedReceives(p, src, c)}
  BY DEF IInv, SameRanks
<1>5. \A c \in Index : MatchedSends(src, p, c) \subseteq S /\ MatchedReceives(p, src, c) \subseteq R
  BY DEF MatchedSends, MatchedReceives
<1>6. /\ \A x, z \in S : Rank(S, x) \in Nat /\ (Rank(S, x) = Rank(S, z) => x = z)
                         /\ (Rank(S, x) < Rank(S, z) => Before(x, z))
      /\ \A y, z \in R : Rank(R, y) \in Nat /\ (Rank(R, y) = Rank(R, z) => y = z)
                         /\ (Rank(R, y) < Rank(R, z) => Before(y, z))
  <2> HIDE DEF S, R
  <2> QED
    BY <1>1, RankIsOrder
<1>7. /\ \A y \in R : \E x \in S : Rank(S, x) = Rank(R, y)
      /\ \A x \in S : \E y \in R : Rank(R, y) = Rank(S, x)
  <2> HIDE DEF S, R
  <2>1. ASSUME NEW y \in R PROVE \E x \in S : Rank(S, x) = Rank(R, y)
    <3>1. Rank(R, y) \in {Rank(S, x) : x \in S}
      BY <1>1
    <3> QED
      BY <3>1
  <2>2. ASSUME NEW x \in S PROVE \E y \in R : Rank(R, y) = Rank(S, x)
    <3>1. Rank(S, x) \in {Rank(R, y) : y \in R}
      BY <1>1
    <3> QED
      BY <3>1
  <2> QED
    BY <2>1, <2>2
<1>8. m.pos \in Open(net[src], p, m.coll) /\ r.pos \in Open(expected[p], src, r.coll)
  BY DEF Open
<1>9. ASSUME NEW c \in Index, NEW x \in S, NEW y \in R, Rank(S, x) = Rank(R, y)
      PROVE  x \in MatchedSends(src, p, c) <=> y \in MatchedReceives(p, src, c)
  <2> HIDE DEF S, R
  <2>1. ASSUME x \in MatchedSends(src, p, c) PROVE y \in MatchedReceives(p, src, c)
    <3>1. Rank(R, y) \in {Rank(R, z) : z \in MatchedReceives(p, src, c)}
      BY <1>4, <1>9, <2>1
    <3>2. PICK z \in MatchedReceives(p, src, c) : Rank(R, z) = Rank(R, y)
      BY <3>1
    <3> QED
      BY <1>5, <1>6, <3>2
  <2>2. ASSUME y \in MatchedReceives(p, src, c) PROVE x \in MatchedSends(src, p, c)
    <3>1. Rank(S, x) \in {Rank(S, z) : z \in MatchedSends(src, p, c)}
      BY <1>4, <1>9, <2>2
    <3>2. PICK z \in MatchedSends(src, p, c) : Rank(S, z) = Rank(S, x)
      BY <3>1
    <3> QED
      BY <1>5, <1>6, <3>2
  <2> QED
    BY <2>1, <2>2
<1>10. ~(m.coll < r.coll)
  <2> SUFFICES ASSUME m.coll < r.coll PROVE FALSE
    OBVIOUS
  <2>1. Done(p, m.coll)
    BY <1>2, <1>3, EarlierIsDone DEF IInv
  <2>2. PICK y \in R : Rank(R, y) = Rank(S, m.pos)
    BY <1>2, <1>7
  <2>3. y \in MatchedReceives(p, src, m.coll)
    <3>1. y \notin Open(expected[p], src, m.coll)
      BY <1>3, <2>1 DEF IInv, DoneIsQuiet, RecvsDone, Open, Entries
    <3>2. y[1] <= at[p][m.coll]
      <4>1. y[1] \in 1..Len(Stages[p]) /\ Len(Stages[p]) \in Nat
        BY SMTT(30), ScheduleShape, SequenceDomain DEF ToReceive, Receives, IInv, Shape
      <4>2. at[p][m.coll] \in Nat
        BY <1>3 DEF IInv, Shape
      <4> QED
        BY <2>1, <4>1, <4>2 DEF Done
    <3> QED
      BY <3>1, <3>2 DEF MatchedReceives
  <2>4. m.pos \in MatchedSends(src, p, m.coll)
    BY <1>2, <1>3, <1>9, <2>2, <2>3
  <2> QED
    BY <1>8, <2>4 DEF MatchedSends
<1>11. ~(r.coll < m.coll)
  <2> SUFFICES ASSUME r.coll < m.coll PROVE FALSE
    OBVIOUS
  <2>1. Done(src, r.coll)
    BY <1>2, <1>3, EarlierIsDone DEF IInv
  <2>2. PICK x \in S : Rank(S, x) = Rank(R, r.pos)
    BY <1>2, <1>7
  <2>3. x \notin MatchedSends(src, p, r.coll)
    BY <1>2, <1>3, <1>8, <1>9, <2>2 DEF MatchedReceives
  <2>4. x[1] <= at[src][r.coll]
    <3>1. x[1] \in 1..Len(Stages[src]) /\ Len(Stages[src]) \in Nat
      BY SMTT(30), ScheduleShape, SequenceDomain DEF ToSend, Sends, IInv, Shape
    <3>2. at[src][r.coll] \in Nat
      BY <1>3 DEF IInv, Shape
    <3> QED
      BY <2>1, <3>1, <3>2 DEF Done
  <2>5. x \in Open(net[src], p, r.coll)
    BY <2>3, <2>4 DEF MatchedSends
  <2>6. PICK e \in Entries(net[src]) : e.peer = p /\ e.coll = r.coll /\ e.pos = x
    BY <2>5 DEF Open
  <2>7. e.tag = m.tag
    BY <1>2, <2>6 DEF IInv, NetIsPosted
  <2>8. e = m \/ Earlier(m, e)
    BY <2>6, <2>7
  <2> QED
    BY <1>3, <2>6, <2>8 DEF Earlier
<1>12. m.coll = r.coll
  BY <1>3, <1>10, <1>11
<1>13. ~(Rank(S, m.pos) < Rank(R, r.pos))
  <2> SUFFICES ASSUME Rank(S, m.pos) < Rank(R, r.pos) PROVE FALSE
    OBVIOUS
  <2>1. PICK y \in R : Rank(R, y) = Rank(S, m.pos)
    BY <1>2, <1>7
  <2>2. Before(y, r.pos)
    BY <1>2, <1>6, <2>1
  <2>3. y \notin MatchedReceives(p, src, m.coll)
    BY <1>2, <1>3, <1>8, <1>9, <2>1 DEF MatchedSends
  <2>4. y[1] <= at[p][m.coll]
    <3>1. y[1] \in Nat /\ r.pos[1] \in Nat /\ y[1] <= r.pos[1]
      BY <1>1, <1>2, <2>2 DEF Before, Position
    <3>2. at[p][m.coll] \in Nat
      BY <1>3 DEF IInv, Shape
    <3> QED
      BY <1>2, <1>12, <3>1, <3>2
  <2>5. y \in Open(expected[p], src, m.coll)
    BY <2>3, <2>4 DEF MatchedReceives
  <2>6. PICK e \in Entries(expected[p]) : e.peer = src /\ e.coll = m.coll /\ e.pos = y
    BY <2>5 DEF Open
  <2>7. e.tag = r.tag
    BY <1>2, <1>12, <2>6 DEF IInv, ExpectedIsPosted
  <2>8. e = r \/ Earlier(r, e)
    BY <2>6, <2>7
  <2>9. ~Before(r.pos, y) /\ y # r.pos
    <3>1. r.pos \in Position /\ y \in Position
      BY <1>1, <1>2
    <3> QED
      BY <2>2, <3>1, BeforeIsOrder
  <2> QED
    BY <1>3, <1>12, <2>6, <2>8, <2>9 DEF Earlier
<1>14. ~(Rank(R, r.pos) < Rank(S, m.pos))
  <2> SUFFICES ASSUME Rank(R, r.pos) < Rank(S, m.pos) PROVE FALSE
    OBVIOUS
  <2>1. PICK x \in S : Rank(S, x) = Rank(R, r.pos)
    BY <1>2, <1>7
  <2>2. Before(x, m.pos)
    BY <1>2, <1>6, <2>1
  <2>3. x \notin MatchedSends(src, p, m.coll)
    BY <1>2, <1>3, <1>8, <1>9, <1>12, <2>1 DEF MatchedReceives
  <2>4. x[1] <= at[src][m.coll]
    <3>1. x[1] \in Nat /\ m.pos[1] \in Nat /\ x[1] <= m.pos[1]
      BY <1>1, <1>2, <2>2 DEF Before, Position
    <3>2. at[src][m.coll] \in Nat
      BY <1>3 DEF IInv, Shape
    <3> QED
      BY <1>2, <3>1, <3>2
  <2>5. x \in Open(net[src], p, m.coll)
    BY <2>3, <2>4 DEF MatchedSends
  <2>6. PICK e \in Entries(net[src]) : e.peer = p /\ e.coll = m.coll /\ e.pos = x
    BY <2>5 DEF Open
  <2>7. e.tag = m.tag
    BY <1>2, <2>6 DEF IInv, NetIsPosted
  <2>8. e = m \/ Earlier(m, e)
    BY <2>6, <2>7
  <2>9. ~Before(m.pos, x) /\ x # m.pos
    <3>1. m.pos \in Position /\ x \in Position
      BY <1>1, <1>2
    <3> QED
      BY <2>2, <3>1, BeforeIsOrder
  <2> QED
    BY <1>3, <2>6, <2>8, <2>9 DEF Earlier
<1> QED
  BY <1>2, <1>6, <1>12, <1>13, <1>14

\* Len of the cells a send reads is that of its list.
LEMMA ReadLength ==
  ASSUME NEW mm, NEW cells, Sequence(cells)
  PROVE  Len(Read(mm, cells)) = Len(cells)
<1>1. Len(cells) \in Nat /\ DOMAIN cells = 1..Len(cells)
  BY SequenceDomain
<1>2. /\ DOMAIN Read(mm, cells) = 1..Len(cells)
      /\ Read(mm, cells) = [i \in 1..Len(cells) |-> Read(mm, cells)[i]]
  BY <1>1 DEF Read
<1> QED
  BY <1>1, <1>2, IndexedIsSequence

\* Without its i-th entry the queue s has one position less open.
Closes(s, i, q, c, x) ==
  \A a, d : Open(RemoveAt(s, i), a, d) =
            IF a = q /\ d = c THEN Open(s, a, d) \ {x} ELSE Open(s, a, d)

\* What a match takes from the queues: a message and a receive of one collective and
\* one rank, so that the message fits.
LEMMA MatchFacts ==
  ASSUME IInv, NEW p \in Procs, NEW src \in Procs,
         NEW i \in DOMAIN expected[p], NEW j \in DOMAIN net[src], Match(p, src, i, j),
         NEW r, r = expected[p][i], NEW m, m = net[src][j]
  PROVE  /\ r \in Entries(expected[p]) /\ m \in Entries(net[src])
         /\ r.peer = src /\ m.peer = p /\ m.tag = r.tag
         /\ m.coll = r.coll /\ Rank(ToSend(src, p), m.pos) = Rank(ToReceive(p, src), r.pos)
         /\ m.coll \in Index /\ m.coll \in 1..started[p] /\ m.coll \in 1..started[src]
         /\ m.pos \in ToSend(src, p) /\ r.pos \in ToReceive(p, src)
         /\ m.pos[1] <= at[src][m.coll] /\ r.pos[1] <= at[p][m.coll]
         /\ m.cells = Stages[src][m.pos[1]].send[m.pos[2]].cells
         /\ r.cells = Stages[p][r.pos[1]].recv[r.pos[2]].cells
         /\ eager => Len(m.data) = Len(m.cells)
         /\ Sequence(m.cells) /\ Sequence(r.cells) /\ Len(m.cells) <= Len(r.cells)
         /\ Closes(expected[p], i, src, m.coll, r.pos)
         /\ Closes(net[src], j, p, m.coll, m.pos)
         /\ DOMAIN expected' = Procs /\ DOMAIN net' = Procs
         /\ \A q \in Procs : expected'[q] = IF q = p THEN RemoveAt(expected[p], i) ELSE expected[q]
         /\ \A q \in Procs : net'[q] = IF q = src THEN RemoveAt(net[src], j) ELSE net[q]
         /\ \A q \in Procs : /\ Sequence(expected'[q]) /\ InOrder(expected'[q])
                              /\ Entries(expected'[q]) \subseteq Entries(expected[q])
                              /\ Sequence(net'[q]) /\ InOrder(net'[q])
                              /\ Entries(net'[q]) \subseteq Entries(net[q])
<1> DEFINE S == ToSend(src, p)
           R == ToReceive(p, src)
<1>1. r \in Entries(expected[p]) /\ m \in Entries(net[src])
  BY DEF Entries
<1>2. r.peer = src /\ m.peer = p /\ m.tag = r.tag
  BY DEF Match, Matches
<1>3. Sequence(expected[p]) /\ InOrder(expected[p]) /\ Sequence(net[src]) /\ InOrder(net[src])
  BY DEF IInv, Shape, ExpectedInOrder, NetInOrder
<1>4. \A e \in Entries(expected[p]) : e.peer = src /\ e.tag = r.tag => e = r \/ Earlier(r, e)
  <2>1. \A h \in 1..(i - 1) : ~(expected[p][h].peer = r.peer /\ expected[p][h].tag = r.tag)
    BY <1>2 DEF Match, Matches
  <2> QED
    BY <1>2, <1>3, <2>1, OldestInOrder
<1>5. \A e \in Entries(net[src]) : e.peer = p /\ e.tag = m.tag => e = m \/ Earlier(m, e)
  <2>1. \A h \in 1..(j - 1) : ~(net[src][h].peer = m.peer /\ net[src][h].tag = m.tag)
    BY <1>2 DEF Match, Matches
  <2> QED
    BY <1>2, <1>3, <2>1, OldestInOrder
<1>6. m.coll = r.coll /\ Rank(S, m.pos) = Rank(R, r.pos)
  <2> QED
    BY <1>1, <1>2, <1>4, <1>5, MatchIsRight
<1>7. /\ m.coll \in Index /\ m.coll \in 1..started[p] /\ m.coll \in 1..started[src]
      /\ m.pos \in S /\ r.pos \in R /\ m.pos[1] <= at[src][m.coll] /\ r.pos[1] <= at[p][m.coll]
      /\ m.cells = Stages[src][m.pos[1]].send[m.pos[2]].cells
      /\ r.cells = Stages[p][r.pos[1]].recv[r.pos[2]].cells
      /\ eager => Len(m.data) = Len(m.cells)
  <2>1. \A q \in Procs : \A c \in 1..started[q] : c \in Index
    BY ScheduleShape DEF IInv, Shape, Index
  <2>2. IInv /\ p \in Procs /\ src \in Procs
    OBVIOUS
  <2> QED
    BY ONLY <1>1, <1>2, <1>6, <2>1, <2>2 DEF IInv, NetIsPosted, ExpectedIsPosted
<1>8. /\ coll' = coll /\ eager' = eager /\ started' = started /\ at' = at
      /\ expected' = [expected EXCEPT ![p] = RemoveAt(@, i)]
      /\ net' = [net EXCEPT ![src] = RemoveAt(@, j)]
  BY DEF Match
<1>9. /\ Procs' = Procs /\ Stages' = Stages /\ Index' = Index
      /\ \A a, b : ToSend(a, b)' = ToSend(a, b) /\ ToReceive(a, b)' = ToReceive(a, b)
      /\ \A a, c : Done(a, c)' = Done(a, c)
  BY <1>8 DEF Procs, Stages, Index, ToSend, ToReceive, Done
<1>10. \A c : c \in Index => c \in Nat
  BY ScheduleShape DEF IInv, Shape, Index
<1>11. /\ \A e \in Entries(expected[p]) : e.coll \in Nat /\ e.pos \in Position /\ e.tag = Tag(e.coll)
       /\ \A e \in Entries(net[src]) : e.coll \in Nat /\ e.pos \in Position /\ e.tag = Tag(e.coll)
  <2>1. started[p] \in Nat /\ started[src] \in Nat /\ coll \in Collectives
    BY DEF IInv, Shape
  <2>2. /\ \A q : ToReceive(p, q) \subseteq Position
        /\ \A q : ToSend(src, q) \subseteq Position
    BY <2>1, ToSendShape, ToReceiveShape
  <2>3. \A e \in Entries(expected[p]) :
          e.coll \in 1..started[p] /\ e.pos \in ToReceive(p, e.peer) /\ e.tag = Tag(e.coll)
    BY DEF IInv, ExpectedIsPosted
  <2>4. \A e \in Entries(net[src]) :
          e.coll \in 1..started[src] /\ e.pos \in ToSend(src, e.peer) /\ e.tag = Tag(e.coll)
    BY DEF IInv, NetIsPosted
  <2> QED
    BY ONLY <2>1, <2>2, <2>3, <2>4
<1>12. /\ InOrder(RemoveAt(expected[p], i)) /\ Sequence(RemoveAt(expected[p], i))
       /\ Entries(RemoveAt(expected[p], i)) \subseteq Entries(expected[p])
       /\ Closes(expected[p], i, src, m.coll, r.pos)
  <2> DEFINE e == expected[p]
  <2>1. e[i].peer = src /\ e[i].coll = m.coll /\ e[i].pos = r.pos
    BY <1>2, <1>6
  <2>2. Sequence(e) /\ InOrder(e) /\ i \in DOMAIN e
    BY <1>3
  <2>3. \A x \in Entries(e) : x.coll \in Nat /\ x.pos \in Position /\ x.tag = Tag(x.coll)
    BY <1>11
  <2> HIDE DEF e
  <2>4. Sequence(RemoveAt(e, i))
    BY ONLY <2>2, Removed
  <2>5. /\ InOrder(RemoveAt(e, i)) /\ Entries(RemoveAt(e, i)) \subseteq Entries(e)
        /\ \A q, c : Open(RemoveAt(e, i), q, c) =
             IF q = e[i].peer /\ c = e[i].coll THEN Open(e, q, c) \ {e[i].pos} ELSE Open(e, q, c)
    BY ONLY <2>2, <2>3, RemoveEntry
  <2> QED
    BY <2>1, <2>4, <2>5 DEF e, Closes
<1>13. /\ InOrder(RemoveAt(net[src], j)) /\ Sequence(RemoveAt(net[src], j))
       /\ Entries(RemoveAt(net[src], j)) \subseteq Entries(net[src])
       /\ Closes(net[src], j, p, m.coll, m.pos)
  <2> DEFINE n == net[src]
  <2>1. n[j].peer = p /\ n[j].coll = m.coll /\ n[j].pos = m.pos
    BY <1>2
  <2>2. Sequence(n) /\ InOrder(n) /\ j \in DOMAIN n
    BY <1>3
  <2>3. \A x \in Entries(n) : x.coll \in Nat /\ x.pos \in Position /\ x.tag = Tag(x.coll)
    BY <1>11
  <2> HIDE DEF n
  <2>4. Sequence(RemoveAt(n, j))
    BY ONLY <2>2, Removed
  <2>5. /\ InOrder(RemoveAt(n, j)) /\ Entries(RemoveAt(n, j)) \subseteq Entries(n)
        /\ \A q, c : Open(RemoveAt(n, j), q, c) =
             IF q = n[j].peer /\ c = n[j].coll THEN Open(n, q, c) \ {n[j].pos} ELSE Open(n, q, c)
    BY ONLY <2>2, <2>3, RemoveEntry
  <2> QED
    BY <2>1, <2>4, <2>5 DEF n, Closes
<1>14. /\ DOMAIN expected' = Procs /\ DOMAIN net' = Procs
       /\ \A q \in Procs : expected'[q] = IF q = p THEN RemoveAt(expected[p], i) ELSE expected[q]
       /\ \A q \in Procs : net'[q] = IF q = src THEN RemoveAt(net[src], j) ELSE net[q]
  BY <1>8 DEF IInv, Shape
<1>15. \A q \in Procs : /\ Sequence(expected'[q]) /\ InOrder(expected'[q])
                        /\ Entries(expected'[q]) \subseteq Entries(expected[q])
                        /\ Sequence(net'[q]) /\ InOrder(net'[q])
                        /\ Entries(net'[q]) \subseteq Entries(net[q])
  BY <1>12, <1>13, <1>14 DEF IInv, Shape, ExpectedInOrder, NetInOrder
<1>16. IInv /\ coll \in Collectives /\ p \in Procs /\ src \in Procs
  BY DEF IInv, Shape
<1>17. Len(m.cells) <= Len(r.cells)
  BY ONLY <1>6, <1>7, <1>16 DEF IInv, Shape, Paired, ToSend, ToReceive, Procs
<1>18. Sequence(m.cells)
  <2>1. m.pos[1] \in DOMAIN Stages[src] /\ m.pos[2] \in DOMAIN Stages[src][m.pos[1]].send
    BY ONLY <1>7, <1>16, SendAt
  <2> QED
    BY ONLY <1>7, <1>16, <2>1, ScheduleShape
<1>19. Sequence(r.cells)
  <2>1. r.pos[1] \in DOMAIN Stages[p] /\ r.pos[2] \in DOMAIN Stages[p][r.pos[1]].recv
    BY ONLY <1>7, <1>16, ReceiveAt
  <2> QED
    BY ONLY <1>7, <1>16, <2>1, ScheduleShape
<1> QED
  BY ONLY ZenonT(30), <1>1, <1>2, <1>6, <1>7, <1>12, <1>13, <1>14, <1>15, <1>17, <1>18, <1>19

LEMMA MatchIInv ==
  ASSUME IInv, NEW p \in Procs, NEW src \in Procs,
         NEW i \in DOMAIN expected[p], NEW j \in DOMAIN net[src], Match(p, src, i, j)
  PROVE  IInv'
<1> DEFINE S == ToSend(src, p)
           R == ToReceive(p, src)
<1>1. PICK r, m : r = expected[p][i] /\ m = net[src][j]
  OBVIOUS
<1>2. r.peer = src /\ m.peer = p /\ m.tag = r.tag
  BY <1>1, MatchFacts
<1>3. m.coll = r.coll /\ Rank(S, m.pos) = Rank(R, r.pos)
  BY <1>1, MatchFacts
<1>4. /\ m.coll \in Index /\ m.coll \in 1..started[p] /\ m.coll \in 1..started[src]
      /\ m.pos \in S /\ r.pos \in R /\ m.pos[1] <= at[src][m.coll] /\ r.pos[1] <= at[p][m.coll]
      /\ eager => Len(m.data) = Len(m.cells)
      /\ Sequence(m.cells) /\ Sequence(r.cells) /\ Len(m.cells) <= Len(r.cells)
  BY <1>1, MatchFacts
<1>5. /\ coll' = coll /\ eager' = eager /\ started' = started /\ at' = at
      /\ expected' = [expected EXCEPT ![p] = RemoveAt(@, i)]
      /\ net' = [net EXCEPT ![src] = RemoveAt(@, j)]
  BY DEF Match
<1>6. /\ Procs' = Procs /\ Stages' = Stages /\ Index' = Index
      /\ \A a, b : ToSend(a, b)' = ToSend(a, b) /\ ToReceive(a, b)' = ToReceive(a, b)
      /\ \A a, c : Done(a, c)' = Done(a, c)
  BY <1>5 DEF Procs, Stages, Index, ToSend, ToReceive, Done
<1>7. Closes(expected[p], i, src, m.coll, r.pos)
  BY <1>1, MatchFacts
<1>8. Closes(net[src], j, p, m.coll, m.pos)
  BY <1>1, MatchFacts
<1>9. /\ DOMAIN expected' = Procs /\ DOMAIN net' = Procs
      /\ \A q \in Procs : expected'[q] = IF q = p THEN RemoveAt(expected[p], i) ELSE expected[q]
      /\ \A q \in Procs : net'[q] = IF q = src THEN RemoveAt(net[src], j) ELSE net[q]
  BY <1>1, MatchFacts
<1>10. \A q \in Procs : /\ Sequence(expected'[q]) /\ InOrder(expected'[q])
                        /\ Entries(expected'[q]) \subseteq Entries(expected[q])
                        /\ Sequence(net'[q]) /\ InOrder(net'[q])
                        /\ Entries(net'[q]) \subseteq Entries(net[q])
  BY <1>1, MatchFacts
<1>11. Shape' /\ InWindow'
  BY <1>5, <1>6, <1>9, <1>10 DEF IInv, Shape, InWindow, Running
<1>12. NetIsPosted' /\ ExpectedIsPosted'
  <2>1. ASSUME NEW q \in Procs, NEW e \in Entries(net'[q])
        PROVE  /\ e.peer \in Procs /\ e.coll \in 1..started[q] /\ e.tag = Tag(e.coll)
               /\ e.pos \in ToSend(q, e.peer) /\ e.pos[1] <= at[q][e.coll]
               /\ e.cells = Stages[q][e.pos[1]].send[e.pos[2]].cells
               /\ eager => Len(e.data) = Len(e.cells)
    BY <1>10 DEF IInv, NetIsPosted
  <2>2. ASSUME NEW q \in Procs, NEW e \in Entries(expected'[q])
        PROVE  /\ e.peer \in Procs /\ e.coll \in 1..started[q] /\ e.tag = Tag(e.coll)
               /\ e.pos \in ToReceive(q, e.peer) /\ e.pos[1] <= at[q][e.coll]
               /\ e.cells = Stages[q][e.pos[1]].recv[e.pos[2]].cells
    BY <1>10 DEF IInv, ExpectedIsPosted
  <2>3. NetIsPosted'
    BY <1>5, <1>6, <2>1 DEF NetIsPosted
  <2>4. ExpectedIsPosted'
    BY <1>5, <1>6, <2>2 DEF ExpectedIsPosted
  <2> QED
    BY <2>3, <2>4
<1>13. NetInOrder' /\ ExpectedInOrder'
  BY <1>6, <1>10 DEF NetInOrder, ExpectedInOrder
<1>14. DoneIsQuiet'
  BY <1>6, <1>10 DEF IInv, DoneIsQuiet, RecvsDone, Entries
<1>15. SameRanks'
  <2> SUFFICES ASSUME NEW a \in Procs, NEW b \in Procs, NEW c \in Index
               PROVE  {Rank(ToSend(a, b), x) : x \in MatchedSends(a, b, c)'} =
                      {Rank(ToReceive(b, a), y) : y \in MatchedReceives(b, a, c)'}
    BY SMTT(30), <1>6 DEF SameRanks
  <2>1. {Rank(ToSend(a, b), x) : x \in MatchedSends(a, b, c)} =
        {Rank(ToReceive(b, a), y) : y \in MatchedReceives(b, a, c)}
    BY DEF IInv, SameRanks
  <2>2. /\ MatchedSends(a, b, c)' = {x \in ToSend(a, b) : x[1] <= at[a][c]} \ Open(net'[a], b, c)
        /\ MatchedReceives(b, a, c)' = {y \in ToReceive(b, a) : y[1] <= at[b][c]} \ Open(expected'[b], a, c)
    BY <1>5, <1>6 DEF MatchedSends, MatchedReceives
  <2>3. CASE a = src /\ b = p /\ c = m.coll
    <3>1. MatchedSends(a, b, c)' = MatchedSends(a, b, c) \cup {m.pos}
      <4>1. Open(net'[a], b, c) = Open(net[a], b, c) \ {m.pos}
        BY <1>8, <1>9, <2>3 DEF Closes
      <4>2. m.pos \in {x \in ToSend(a, b) : x[1] <= at[a][c]}
        BY <1>4, <2>3
      <4> QED
        BY ONLY <2>2, <4>1, <4>2 DEF MatchedSends
    <3>2. MatchedReceives(b, a, c)' = MatchedReceives(b, a, c) \cup {r.pos}
      <4>1. Open(expected'[b], a, c) = Open(expected[b], a, c) \ {r.pos}
        BY <1>7, <1>9, <2>3 DEF Closes
      <4>2. r.pos \in {y \in ToReceive(b, a) : y[1] <= at[b][c]}
        BY <1>4, <2>3
      <4> QED
        BY ONLY <2>2, <4>1, <4>2 DEF MatchedReceives
    <3> QED
      BY <1>3, <2>1, <2>3, <3>1, <3>2
  <2>4. CASE ~(a = src /\ b = p /\ c = m.coll)
    <3>1. MatchedSends(a, b, c)' = MatchedSends(a, b, c)
      BY <1>8, <1>9, <2>2, <2>4 DEF MatchedSends, Closes
    <3>2. MatchedReceives(b, a, c)' = MatchedReceives(b, a, c)
      BY <1>7, <1>9, <2>2, <2>4 DEF MatchedReceives, Closes
    <3> QED
      BY <2>1, <3>1, <3>2
  <2> QED
    BY <2>3, <2>4
<1>16. NoCrossMatch'
  <2> DEFINE data == IF eager THEN m.data ELSE Read(mem[src][m.coll], m.cells)
  <2>1. Len(data) = Len(m.cells)
    BY <1>4, ReadLength
  <2>2. mismatch' = (mismatch \/ m.coll # r.coll \/ r.peer # src \/ Len(data) > Len(r.cells))
    BY <1>1 DEF Match
  <2>3. Len(m.cells) \in Nat /\ Len(r.cells) \in Nat
    BY <1>4, SequenceDomain
  <2> HIDE DEF data
  <2>4. ~(Len(data) > Len(r.cells))
    BY <1>4, <2>1, <2>3
  <2> QED
    BY <1>2, <1>3, <2>2, <2>4 DEF IInv, NoCrossMatch
<1> QED
  BY <1>11, <1>12, <1>13, <1>14, <1>15, <1>16 DEF IInv

-----------------------------------------------------------------------------
(* Posting a stage *)

LEMMA SentShape ==
  ASSUME coll \in Collectives, NEW p \in Procs, NEW c, NEW k \in DOMAIN Stages[p], NEW mm
  PROVE  LET s == Sent(p, c, k, mm)
         IN  /\ Sequence(s) /\ InOrder(s)
             /\ \A m \in Entries(s) :
                  /\ m.peer \in Procs /\ m.coll = c /\ m.tag = Tag(c)
                  /\ m.pos \in ToSend(p, m.peer) /\ m.pos[1] = k
                  /\ m.cells = Stages[p][m.pos[1]].send[m.pos[2]].cells
                  /\ eager => Len(m.data) = Len(m.cells)
             /\ \A q, d : Open(s, q, d) = IF d = c THEN {x \in ToSend(p, q) : x[1] = k} ELSE {}
<1> DEFINE s == Sent(p, c, k, mm)
           send == Stages[p][k].send
           n == Len(send)
<1>1. n \in Nat /\ DOMAIN send = 1..n
  BY ScheduleShape, SequenceDomain
<1>2. /\ DOMAIN s = 1..n /\ s = [i \in 1..n |-> s[i]]
      /\ \A i \in 1..n :
           /\ s[i].peer = send[i].to /\ s[i].tag = Tag(c) /\ s[i].coll = c
           /\ s[i].pos = <<k, i>> /\ s[i].cells = send[i].cells
           /\ s[i].data = IF eager THEN Read(mm, send[i].cells) ELSE <<>>
  BY <1>1 DEF Sent
<1>3. k \in Nat
  BY ScheduleShape, SequenceDomain
<1>4. \A i \in 1..n : send[i].to \in Procs /\ Sequence(send[i].cells)
  BY <1>1, ScheduleShape
<1>5. \A i \in 1..n : <<k, i>> \in ToSend(p, send[i].to)
  BY <1>1, ToSendShape
<1>6. \A q : {x \in ToSend(p, q) : x[1] = k} = {<<k, i>> : i \in {h \in 1..n : send[h].to = q}}
  BY <1>1 DEF ToSend, Sends
<1> HIDE DEF s, n
<1>7. Sequence(s)
  BY <1>1, <1>2, IndexedIsSequence
<1>8. InOrder(s)
  BY <1>1, <1>2, <1>3 DEF InOrder, Earlier, Before
<1>9. ASSUME NEW m \in Entries(s)
      PROVE  /\ m.peer \in Procs /\ m.coll = c /\ m.tag = Tag(c)
             /\ m.pos \in ToSend(p, m.peer) /\ m.pos[1] = k
             /\ m.cells = Stages[p][m.pos[1]].send[m.pos[2]].cells
             /\ eager => Len(m.data) = Len(m.cells)
  <2>1. PICK i \in 1..n : m = s[i]
    BY <1>2 DEF Entries
  <2>2. m.pos[1] = k /\ m.pos[2] = i
    BY <1>2, <2>1
  <2>3. Len(Read(mm, send[i].cells)) = Len(send[i].cells)
    BY <1>4, ReadLength
  <2> HIDE DEF send
  <2>4. eager => Len(m.data) = Len(m.cells)
    BY <1>2, <2>1, <2>3
  <2>5. m.peer \in Procs /\ m.coll = c /\ m.tag = Tag(c) /\ m.pos \in ToSend(p, m.peer)
    BY <1>2, <1>4, <1>5, <2>1
  <2>6. m.cells = Stages[p][m.pos[1]].send[m.pos[2]].cells
    BY <1>2, <2>1, <2>2 DEF send
  <2> QED
    BY <2>2, <2>4, <2>5, <2>6
<1>10. ASSUME NEW q, NEW d
       PROVE  Open(s, q, d) = IF d = c THEN {x \in ToSend(p, q) : x[1] = k} ELSE {}
  <2>1. Open(s, q, d) = {s[i].pos : i \in {h \in 1..n : s[h].peer = q /\ s[h].coll = d}}
    BY <1>2 DEF Open, Entries
  <2> HIDE DEF send
  <2>2. {h \in 1..n : s[h].peer = q /\ s[h].coll = d} = IF d = c THEN {h \in 1..n : send[h].to = q} ELSE {}
    BY <1>2
  <2>3. {s[i].pos : i \in {h \in 1..n : send[h].to = q}} = {<<k, i>> : i \in {h \in 1..n : send[h].to = q}}
    <3>1. \A i \in 1..n : s[i].pos = <<k, i>>
      BY <1>2
    <3> QED
      BY ONLY <3>1
  <2>4. Open(s, q, d) = IF d = c THEN {<<k, i>> : i \in {h \in 1..n : send[h].to = q}} ELSE {}
    <3>1. CASE d = c
      BY ONLY <2>1, <2>2, <2>3, <3>1
    <3>2. CASE d # c
      <4>1. {h \in 1..n : s[h].peer = q /\ s[h].coll = d} = {}
        BY ONLY <2>2, <3>2
      <4> QED
        BY ONLY <2>1, <3>2, <4>1
    <3> QED
      BY <3>1, <3>2
  <2> QED
    BY <1>6, <2>4
<1> QED
  BY <1>7, <1>8, <1>9, <1>10 DEF s

LEMMA AwaitedShape ==
  ASSUME coll \in Collectives, NEW p \in Procs, NEW c, NEW k \in DOMAIN Stages[p]
  PROVE  LET s == Awaited(p, c, k)
         IN  /\ Sequence(s) /\ InOrder(s)
             /\ \A r \in Entries(s) :
                  /\ r.peer \in Procs /\ r.coll = c /\ r.tag = Tag(c)
                  /\ r.pos \in ToReceive(p, r.peer) /\ r.pos[1] = k
                  /\ r.cells = Stages[p][r.pos[1]].recv[r.pos[2]].cells
             /\ \A q, d : Open(s, q, d) = IF d = c THEN {x \in ToReceive(p, q) : x[1] = k} ELSE {}
<1> DEFINE s == Awaited(p, c, k)
           recv == Stages[p][k].recv
           n == Len(recv)
<1>1. n \in Nat /\ DOMAIN recv = 1..n
  BY ScheduleShape, SequenceDomain
<1>2. /\ DOMAIN s = 1..n /\ s = [i \in 1..n |-> s[i]]
      /\ \A i \in 1..n :
           /\ s[i].peer = recv[i].from /\ s[i].tag = Tag(c) /\ s[i].coll = c
           /\ s[i].pos = <<k, i>> /\ s[i].cells = recv[i].cells
  BY <1>1 DEF Awaited
<1>3. k \in Nat
  BY ScheduleShape, SequenceDomain
<1>4. \A i \in 1..n : recv[i].from \in Procs
  BY <1>1, ScheduleShape
<1>5. \A i \in 1..n : <<k, i>> \in ToReceive(p, recv[i].from)
  BY <1>1, ToReceiveShape
<1>6. \A q : {x \in ToReceive(p, q) : x[1] = k} = {<<k, i>> : i \in {h \in 1..n : recv[h].from = q}}
  BY <1>1 DEF ToReceive, Receives
<1> HIDE DEF s, n
<1>7. Sequence(s)
  BY <1>1, <1>2, IndexedIsSequence
<1>8. InOrder(s)
  BY <1>1, <1>2, <1>3 DEF InOrder, Earlier, Before
<1>9. ASSUME NEW r \in Entries(s)
      PROVE  /\ r.peer \in Procs /\ r.coll = c /\ r.tag = Tag(c)
             /\ r.pos \in ToReceive(p, r.peer) /\ r.pos[1] = k
             /\ r.cells = Stages[p][r.pos[1]].recv[r.pos[2]].cells
  <2>1. PICK i \in 1..n : r = s[i]
    BY <1>2 DEF Entries
  <2>2. r.pos[1] = k /\ r.pos[2] = i
    BY <1>2, <2>1
  <2> QED
    BY ZenonT(30), <1>2, <1>4, <1>5, <2>1, <2>2
<1>10. ASSUME NEW q, NEW d
       PROVE  Open(s, q, d) = IF d = c THEN {x \in ToReceive(p, q) : x[1] = k} ELSE {}
  <2>1. Open(s, q, d) = {s[i].pos : i \in {h \in 1..n : s[h].peer = q /\ s[h].coll = d}}
    BY <1>2 DEF Open, Entries
  <2> HIDE DEF recv
  <2>2. {h \in 1..n : s[h].peer = q /\ s[h].coll = d} = IF d = c THEN {h \in 1..n : recv[h].from = q} ELSE {}
    BY <1>2
  <2>3. {s[i].pos : i \in {h \in 1..n : recv[h].from = q}} = {<<k, i>> : i \in {h \in 1..n : recv[h].from = q}}
    <3>1. \A i \in 1..n : s[i].pos = <<k, i>>
      BY <1>2
    <3> QED
      BY ONLY <3>1
  <2>4. Open(s, q, d) = IF d = c THEN {<<k, i>> : i \in {h \in 1..n : recv[h].from = q}} ELSE {}
    <3>1. CASE d = c
      BY ONLY <2>1, <2>2, <2>3, <3>1
    <3>2. CASE d # c
      <4>1. {h \in 1..n : s[h].peer = q /\ s[h].coll = d} = {}
        BY ONLY <2>2, <3>2
      <4> QED
        BY ONLY <2>1, <3>2, <4>1
    <3> QED
      BY <3>1, <3>2
  <2> QED
    BY <1>6, <2>4
<1> QED
  BY <1>7, <1>8, <1>9, <1>10 DEF s

\* What both ways to post a stage have in common: c is the latest collective of
\* its tag and waits for nothing, k is its next stage.
NextStage(p, c, k) ==
  /\ c \in Index /\ k = at[p][c] + 1
  /\ \A d \in 1..started[p] : Tag(d) = Tag(c) => d <= c
  /\ RecvsDone(p, c)
  /\ started' \in [Procs -> Nat] /\ started[p] <= started'[p]
  /\ \A q \in Procs \ {p} : started'[q] = started[q]
  /\ c <= started'[p] /\ started'[p] <= coll.times
  /\ \A d \in 1..started'[p] : d <= started[p] \/ d = c
  /\ PostStage(p, c, k)
  /\ UNCHANGED <<coll, eager, mismatch>>

LEMMA PostIInv ==
  ASSUME IInv, NEW p \in Procs, NEW c, NEW k, NextStage(p, c, k), InWindow'
  PROVE  IInv'
<1> DEFINE posts == k <= Len(Stages[p])
<1>1. /\ coll \in Collectives /\ coll' = coll /\ eager' = eager /\ mismatch' = mismatch
      /\ Procs' = Procs /\ Stages' = Stages /\ Index' = Index
      /\ \A a, b : ToSend(a, b)' = ToSend(a, b) /\ ToReceive(a, b)' = ToReceive(a, b)
  BY DEF NextStage, IInv, Shape, Procs, Stages, Index, ToSend, ToReceive
<1>2. /\ c \in Index /\ c \in Nat /\ at[p][c] \in Nat /\ k = at[p][c] + 1
      /\ k \in Nat /\ k > 0
      /\ Len(Stages[p]) \in Nat /\ DOMAIN Stages[p] = 1..Len(Stages[p])
  <2>1. c \in Index /\ k = at[p][c] + 1
    BY DEF NextStage
  <2>2. c \in Nat
    BY <1>1, <2>1, ScheduleShape DEF Index
  <2>3. at[p][c] \in Nat
    BY <2>1 DEF IInv, Shape
  <2>4. Len(Stages[p]) \in Nat /\ DOMAIN Stages[p] = 1..Len(Stages[p])
    BY <1>1, ScheduleShape, SequenceDomain
  <2> QED
    BY <2>1, <2>2, <2>3, <2>4
<1>3. /\ at' \in [Procs -> [Index -> Nat]]
      /\ \A q \in Procs, d \in Index : at'[q][d] = IF q = p /\ d = c THEN k ELSE at[q][d]
  <2>1. at \in [Procs -> [Index -> Nat]] /\ at' = [at EXCEPT ![p][c] = k]
    BY DEF NextStage, PostStage, IInv, Shape
  <2> QED
    BY <1>2, <2>1
<1>4. \A q \in Procs, d \in Index : at[q][d] \in Nat /\ at'[q][d] \in Nat /\ at[q][d] <= at'[q][d]
  <2>1. at \in [Procs -> [Index -> Nat]]
    BY DEF IInv, Shape
  <2> TAKE q \in Procs, d \in Index
  <2>2. at[q][d] \in Nat
    BY <2>1
  <2>3. at'[q][d] = IF q = p /\ d = c THEN at[q][d] + 1 ELSE at[q][d]
    BY <1>2, <1>3
  <2> QED
    BY <2>2, <2>3
<1>5. /\ DOMAIN net' = Procs /\ DOMAIN expected' = Procs
      /\ \A q \in Procs \ {p} : net'[q] = net[q] /\ expected'[q] = expected[q]
  BY DEF NextStage, PostStage, IInv, Shape
<1>6. /\ Sequence(net[p]) /\ Sequence(expected[p]) /\ InOrder(net[p]) /\ InOrder(expected[p])
      /\ started \in [Procs -> Nat] /\ started' \in [Procs -> Nat]
      /\ \A q \in Procs : started[q] <= started'[q] /\ started'[q] <= coll.times
  BY DEF NextStage, IInv, Shape, NetInOrder, ExpectedInOrder
<1>7. PICK mm : posts => /\ net'[p] = net[p] \o Sent(p, c, k, mm)
                         /\ expected'[p] = expected[p] \o Awaited(p, c, k)
  <2>1. p \in DOMAIN net /\ p \in DOMAIN expected
    BY DEF IInv, Shape
  <2>2. PostStage(p, c, k)
    BY DEF NextStage
  <2>3. CASE posts
    <3>1. ~(k > Len(Stages[p]))
      BY <1>2, <2>3
    <3> HIDE DEF posts
    <3>2. LET m == AfterLocal(mem[p][c], Stages[p][k].local)
          IN  /\ expected' = [expected EXCEPT ![p] = @ \o Awaited(p, c, k)]
              /\ net' = [net EXCEPT ![p] = @ \o Sent(p, c, k, m)]
      BY <2>2, <3>1 DEF PostStage
    <3> QED
      BY <2>1, <3>2
  <2> QED
    BY <2>3
<1>8. ~posts => net'[p] = net[p] /\ expected'[p] = expected[p]
  <2>1. PostStage(p, c, k) /\ (~posts => k > Len(Stages[p]))
    BY <1>2 DEF NextStage
  <2> HIDE DEF posts
  <2> QED
    BY <2>1 DEF PostStage
<1> HIDE DEF posts
<1>9. \A m \in Entries(net[p]) :
        /\ m.coll \in Nat /\ m.coll \in 1..started[p] /\ m.coll \in Index
        /\ m.tag = Tag(m.coll) /\ m.pos \in ToSend(p, m.peer)
        /\ m.pos[1] \in Nat /\ m.pos[1] <= at[p][m.coll]
  <2>1. started[p] \in Nat /\ coll.times \in Nat /\ started[p] <= coll.times
    BY <1>1, ScheduleShape DEF IInv, Shape
  <2>2. \A q : \A x \in ToSend(p, q) : x[1] \in Nat
    BY <1>1, ToSendShape DEF Position
  <2> QED
    BY <2>1, <2>2 DEF IInv, NetIsPosted, Index
<1>10. \A r \in Entries(expected[p]) :
         /\ r.coll \in Nat /\ r.coll \in 1..started[p] /\ r.coll \in Index /\ r.coll # c
         /\ r.tag = Tag(r.coll)
  <2>1. started[p] \in Nat /\ coll.times \in Nat /\ started[p] <= coll.times
    BY <1>1, ScheduleShape DEF IInv, Shape
  <2>2. RecvsDone(p, c)
    BY DEF NextStage
  <2> QED
    BY <2>1, <2>2 DEF IInv, ExpectedIsPosted, Index, RecvsDone, Entries
<1>11. \A d \in 1..started[p] : Tag(d) = Tag(c) => d <= c
  BY DEF NextStage
<1>12. /\ Sequence(net'[p]) /\ InOrder(net'[p])
       /\ \A m \in Entries(net'[p]) : m \in Entries(net[p]) \/
            /\ m.peer \in Procs /\ m.coll = c /\ m.tag = Tag(c)
            /\ m.pos \in ToSend(p, m.peer) /\ m.pos[1] = k
            /\ m.cells = Stages[p][m.pos[1]].send[m.pos[2]].cells
            /\ eager => Len(m.data) = Len(m.cells)
       /\ \A q, d : Open(net'[p], q, d) =
            Open(net[p], q, d) \cup IF d = c THEN {x \in ToSend(p, q) : x[1] = k} ELSE {}
  <2>1. CASE posts
    <3> DEFINE new == Sent(p, c, k, mm)
               old == net[p]
    <3>1. k \in DOMAIN Stages[p]
      BY <1>2, <2>1 DEF posts
    <3>2. /\ Sequence(new) /\ InOrder(new)
          /\ \A m \in Entries(new) :
               /\ m.peer \in Procs /\ m.coll = c /\ m.tag = Tag(c)
               /\ m.pos \in ToSend(p, m.peer) /\ m.pos[1] = k
               /\ m.cells = Stages[p][m.pos[1]].send[m.pos[2]].cells
               /\ eager => Len(m.data) = Len(m.cells)
          /\ \A q, d : Open(new, q, d) = IF d = c THEN {x \in ToSend(p, q) : x[1] = k} ELSE {}
      BY <1>1, <3>1, SentShape
    <3>3. net'[p] = old \o new /\ Sequence(old) /\ InOrder(old)
      BY <1>6, <1>7, <2>1
    <3> HIDE DEF new
    <3>4. ASSUME NEW m \in Entries(old), NEW n \in Entries(new), m.peer = n.peer, m.tag = n.tag
          PROVE  Earlier(m, n)
      <4>1. m.coll <= c /\ n.coll = c /\ n.pos[1] = k
        BY <1>9, <1>11, <3>2, <3>4
      <4>2. m.coll = c => m.pos[1] < n.pos[1]
        BY <1>2, <1>9, <4>1
      <4> QED
        BY <1>2, <1>9, <4>1, <4>2 DEF Earlier, Before
    <3> HIDE DEF old
    <3>5. Sequence(old \o new) /\ InOrder(old \o new) /\ Entries(old \o new) = Entries(old) \cup Entries(new)
      BY ONLY <3>2, <3>3, <3>4, Appended, AppendInOrder, AppendEntries
    <3>6. \A q, d : Open(old \o new, q, d) = Open(old, q, d) \cup Open(new, q, d)
      BY ONLY <3>5 DEF Open
    <3> QED
      BY <3>2, <3>3, <3>5, <3>6 DEF old
  <2>2. CASE ~posts
    <3>1. \A q : {x \in ToSend(p, q) : x[1] = k} = {}
      BY <1>2, <2>2 DEF ToSend, Sends, posts
    <3> QED
      BY <1>6, <1>8, <2>2, <3>1
  <2> QED
    BY <2>1, <2>2
<1>13. /\ Sequence(expected'[p]) /\ InOrder(expected'[p])
       /\ \A r \in Entries(expected'[p]) : r \in Entries(expected[p]) \/
            /\ posts
            /\ r.peer \in Procs /\ r.coll = c /\ r.tag = Tag(c)
            /\ r.pos \in ToReceive(p, r.peer) /\ r.pos[1] = k
            /\ r.cells = Stages[p][r.pos[1]].recv[r.pos[2]].cells
       /\ \A q, d : Open(expected'[p], q, d) =
            Open(expected[p], q, d) \cup IF d = c THEN {y \in ToReceive(p, q) : y[1] = k} ELSE {}
  <2>1. CASE posts
    <3> DEFINE new == Awaited(p, c, k)
               old == expected[p]
    <3>1. k \in DOMAIN Stages[p]
      BY <1>2, <2>1 DEF posts
    <3>2. /\ Sequence(new) /\ InOrder(new)
          /\ \A r \in Entries(new) :
               /\ r.peer \in Procs /\ r.coll = c /\ r.tag = Tag(c)
               /\ r.pos \in ToReceive(p, r.peer) /\ r.pos[1] = k
               /\ r.cells = Stages[p][r.pos[1]].recv[r.pos[2]].cells
          /\ \A q, d : Open(new, q, d) = IF d = c THEN {y \in ToReceive(p, q) : y[1] = k} ELSE {}
      BY <1>1, <3>1, AwaitedShape
    <3>3. expected'[p] = old \o new /\ Sequence(old) /\ InOrder(old)
      BY <1>6, <1>7, <2>1
    <3> HIDE DEF new
    <3>4. ASSUME NEW m \in Entries(old), NEW n \in Entries(new), m.peer = n.peer, m.tag = n.tag
          PROVE  Earlier(m, n)
      <4>1. m.coll <= c /\ m.coll # c /\ n.coll = c
        BY <1>10, <1>11, <3>2, <3>4
      <4> QED
        BY <1>2, <1>10, <4>1 DEF Earlier
    <3> HIDE DEF old
    <3>5. Sequence(old \o new) /\ InOrder(old \o new) /\ Entries(old \o new) = Entries(old) \cup Entries(new)
      BY ONLY <3>2, <3>3, <3>4, Appended, AppendInOrder, AppendEntries
    <3>6. \A q, d : Open(old \o new, q, d) = Open(old, q, d) \cup Open(new, q, d)
      BY ONLY <3>5 DEF Open
    <3> QED
      BY <2>1, <3>2, <3>3, <3>5, <3>6 DEF old
  <2>2. CASE ~posts
    <3>1. \A q : {y \in ToReceive(p, q) : y[1] = k} = {}
      BY <1>2, <2>2 DEF ToReceive, Receives, posts
    <3> QED
      BY <1>6, <1>8, <2>2, <3>1
  <2> QED
    BY <2>1, <2>2
<1>14. Shape'
  <2>1. \A q \in Procs : Sequence(net'[q]) /\ Sequence(expected'[q])
    BY <1>5, <1>12, <1>13 DEF IInv, Shape
  <2>2. ASSUME NEW q \in Procs, NEW d \in Index, d > started'[q] PROVE at'[q][d] = 0
    <3>1. d \in Nat /\ started[q] \in Nat /\ started'[q] \in Nat /\ started[q] <= started'[q]
      BY <1>1, <1>6, ScheduleShape DEF Index
    <3>2. d > started[q] /\ ~(q = p /\ d = c)
      BY <1>2, <2>2, <3>1 DEF NextStage
    <3> QED
      BY <1>3, <3>2 DEF IInv, Shape
  <2>3. Paired(Stages)
    BY DEF IInv, Shape
  <2> QED
    BY <1>1, <1>3, <1>5, <1>6, <2>1, <2>2, <2>3 DEF Shape
<1>15. NetInOrder' /\ ExpectedInOrder'
  BY <1>1, <1>5, <1>12, <1>13 DEF IInv, NetInOrder, ExpectedInOrder
<1>16. \A q \in Procs : \A d \in 1..started[q] : d \in Index /\ d \in 1..started'[q]
  <2>1. coll.times \in Nat
    BY <1>1, ScheduleShape
  <2> QED
    BY <1>6, <2>1 DEF Index
<1>17. c \in 1..started'[p]
  BY <1>1, <1>2, <1>6, ScheduleShape DEF NextStage, Index
<1>18. NetIsPosted'
  <2>1. ASSUME NEW q \in Procs, NEW m \in Entries(net'[q])
        PROVE  /\ m.peer \in Procs /\ m.coll \in 1..started'[q] /\ m.tag = Tag(m.coll)
               /\ m.pos \in ToSend(q, m.peer) /\ m.pos[1] <= at'[q][m.coll]
               /\ m.cells = Stages[q][m.pos[1]].send[m.pos[2]].cells
               /\ eager => Len(m.data) = Len(m.cells)
    <3>1. CASE m \in Entries(net[q])
      <4>1. /\ m.peer \in Procs /\ m.coll \in 1..started[q] /\ m.tag = Tag(m.coll)
            /\ m.pos \in ToSend(q, m.peer) /\ m.pos[1] <= at[q][m.coll]
            /\ m.cells = Stages[q][m.pos[1]].send[m.pos[2]].cells
            /\ eager => Len(m.data) = Len(m.cells)
        BY <3>1 DEF IInv, NetIsPosted
      <4>2. m.pos[1] \in Nat
        BY <1>1, <4>1, SendAt
      <4>3. m.pos[1] <= at'[q][m.coll]
        BY <1>4, <1>16, <4>1, <4>2
      <4> QED
        BY <1>16, <4>1, <4>3
    <3>2. CASE m \notin Entries(net[q])
      <4>1. q = p
        BY <1>5, <2>1, <3>2
      <4> QED
        BY <1>2, <1>3, <1>12, <1>17, <2>1, <3>2, <4>1
    <3> QED
      BY <3>1, <3>2
  <2> QED
    BY <1>1, <2>1 DEF NetIsPosted
<1>19. ExpectedIsPosted'
  <2>1. ASSUME NEW q \in Procs, NEW r \in Entries(expected'[q])
        PROVE  /\ r.peer \in Procs /\ r.coll \in 1..started'[q] /\ r.tag = Tag(r.coll)
               /\ r.pos \in ToReceive(q, r.peer) /\ r.pos[1] <= at'[q][r.coll]
               /\ r.cells = Stages[q][r.pos[1]].recv[r.pos[2]].cells
    <3>1. CASE r \in Entries(expected[q])
      <4>1. /\ r.peer \in Procs /\ r.coll \in 1..started[q] /\ r.tag = Tag(r.coll)
            /\ r.pos \in ToReceive(q, r.peer) /\ r.pos[1] <= at[q][r.coll]
            /\ r.cells = Stages[q][r.pos[1]].recv[r.pos[2]].cells
        BY <3>1 DEF IInv, ExpectedIsPosted
      <4>2. r.pos[1] \in Nat
        BY <1>1, <4>1, ToReceiveShape DEF Position
      <4>3. r.pos[1] <= at'[q][r.coll]
        BY <1>4, <1>16, <4>1, <4>2
      <4> QED
        BY <1>16, <4>1, <4>3
    <3>2. CASE r \notin Entries(expected[q])
      <4>1. q = p
        BY <1>5, <2>1, <3>2
      <4> QED
        BY <1>2, <1>3, <1>13, <1>17, <2>1, <3>2, <4>1
    <3> QED
      BY <3>1, <3>2
  <2> QED
    BY <1>1, <2>1 DEF ExpectedIsPosted
<1>20. DoneIsQuiet'
  <2>1. ASSUME NEW q \in Procs, NEW d \in Index, Done(q, d)', NEW r \in Entries(expected'[q])
        PROVE  r.coll # d
    <3>1. Done(q, d) \/ (q = p /\ d = c)
      <4>1. d <= started'[q] /\ at'[q][d] > Len(Stages[q])
        BY <1>1, <2>1 DEF Done
      <4>2. ASSUME ~(q = p /\ d = c) PROVE d <= started[q] /\ at'[q][d] = at[q][d]
        <5>1. d \in Nat /\ d > 0
          BY <1>1, ScheduleShape DEF Index
        <5>2. d \in 1..started'[q]
          BY <1>6, <4>1, <5>1
        <5> QED
          BY <1>3, <4>1, <4>2, <5>2 DEF NextStage
      <4> QED
        BY <4>1, <4>2 DEF Done
    <3>2. CASE q = p /\ d = c
      <4>1. ~posts
        BY <1>1, <1>2, <1>3, <2>1, <3>2 DEF Done, posts
      <4> QED
        BY <1>8, <1>10, <2>1, <3>2, <4>1
    <3>3. CASE Done(q, d) /\ ~(q = p /\ d = c)
      <4>1. \A e \in Entries(expected[q]) : e.coll # d
        BY <3>3 DEF IInv, DoneIsQuiet, RecvsDone, Entries
      <4>2. r \in Entries(expected[q]) \/ (q = p /\ r.coll = c)
        BY <1>5, <1>13, <2>1
      <4> QED
        BY <3>3, <4>1, <4>2
    <3> QED
      BY <3>1, <3>2, <3>3
  <2> QED
    BY <1>1, <2>1 DEF DoneIsQuiet, RecvsDone, Entries
<1>21. SameRanks'
  <2>1. ASSUME NEW a \in Procs, NEW b \in Procs, NEW d \in Index
        PROVE  MatchedSends(a, b, d)' = MatchedSends(a, b, d)
    <3>1. MatchedSends(a, b, d)' = {x \in ToSend(a, b) : x[1] <= at'[a][d]} \ Open(net'[a], b, d)
      BY <1>1 DEF MatchedSends
    <3>2. CASE a = p /\ d = c
      <4>1. {x \in ToSend(a, b) : x[1] <= at'[a][d]} =
              {x \in ToSend(a, b) : x[1] <= at[a][d]} \cup {x \in ToSend(a, b) : x[1] = k}
        <5>1. \A x \in ToSend(a, b) : x[1] \in Nat
          BY <1>1, ToSendShape DEF Position
        <5>2. \A x \in ToSend(a, b) : x[1] <= at'[a][d] <=> x[1] <= at[a][d] \/ x[1] = k
          BY <1>2, <1>3, <3>2, <5>1
        <5> QED
          BY ONLY <5>2
      <4>2. Open(net'[a], b, d) = Open(net[a], b, d) \cup {x \in ToSend(a, b) : x[1] = k}
        BY <1>12, <3>2
      <4>3. \A x \in ToSend(a, b) : ~(x[1] <= at[a][d] /\ x[1] = k)
        BY <1>2, <3>2
      <4> QED
        BY ONLY <3>1, <4>1, <4>2, <4>3 DEF MatchedSends
    <3>3. CASE ~(a = p /\ d = c)
      <4>1. Open(net'[a], b, d) = Open(net[a], b, d) /\ at'[a][d] = at[a][d]
        <5>1. at'[a][d] = at[a][d]
          BY <1>3, <3>3
        <5>2. CASE a # p
          BY <1>5, <5>1, <5>2
        <5>3. CASE a = p /\ d # c
          <6>1. Open(net'[a], b, d) = Open(net[a], b, d) \cup {}
            BY <1>12, <5>3
          <6> QED
            BY ONLY <5>1, <6>1
        <5> QED
          BY <3>3, <5>2, <5>3
      <4> QED
        BY <3>1, <4>1 DEF MatchedSends
    <3> QED
      BY <3>2, <3>3
  <2>2. ASSUME NEW a \in Procs, NEW b \in Procs, NEW d \in Index
        PROVE  MatchedReceives(b, a, d)' = MatchedReceives(b, a, d)
    <3>1. MatchedReceives(b, a, d)' = {y \in ToReceive(b, a) : y[1] <= at'[b][d]} \ Open(expected'[b], a, d)
      BY <1>1 DEF MatchedReceives
    <3>2. CASE b = p /\ d = c
      <4>1. {y \in ToReceive(b, a) : y[1] <= at'[b][d]} =
              {y \in ToReceive(b, a) : y[1] <= at[b][d]} \cup {y \in ToReceive(b, a) : y[1] = k}
        <5>1. \A y \in ToReceive(b, a) : y[1] \in Nat
          BY <1>1, ToReceiveShape DEF Position
        <5>2. \A y \in ToReceive(b, a) : y[1] <= at'[b][d] <=> y[1] <= at[b][d] \/ y[1] = k
          BY <1>2, <1>3, <3>2, <5>1
        <5> QED
          BY ONLY <5>2
      <4>2. Open(expected'[b], a, d) = Open(expected[b], a, d) \cup {y \in ToReceive(b, a) : y[1] = k}
        BY <1>13, <3>2
      <4>3. \A y \in ToReceive(b, a) : ~(y[1] <= at[b][d] /\ y[1] = k)
        BY <1>2, <3>2
      <4> QED
        BY ONLY <3>1, <4>1, <4>2, <4>3 DEF MatchedReceives
    <3>3. CASE ~(b = p /\ d = c)
      <4>1. Open(expected'[b], a, d) = Open(expected[b], a, d) /\ at'[b][d] = at[b][d]
        <5>1. at'[b][d] = at[b][d]
          BY <1>3, <3>3
        <5>2. CASE b # p
          BY <1>5, <5>1, <5>2
        <5>3. CASE b = p /\ d # c
          <6>1. Open(expected'[b], a, d) = Open(expected[b], a, d) \cup {}
            BY <1>13, <5>3
          <6> QED
            BY ONLY <5>1, <6>1
        <5> QED
          BY <3>3, <5>2, <5>3
      <4> QED
        BY <3>1, <4>1 DEF MatchedReceives
    <3> QED
      BY <3>2, <3>3
  <2>3. SameRanks
    BY DEF IInv
  <2> QED
    BY SMTT(30), <1>1, <2>1, <2>2, <2>3 DEF SameRanks
<1>22. NoCrossMatch'
  BY <1>1 DEF IInv, NoCrossMatch
<1> QED
  BY <1>14, <1>15, <1>18, <1>19, <1>20, <1>21, <1>22 DEF IInv

LEMMA StartPosts ==
  ASSUME IInv, NEW p \in Procs, Start(p)
  PROVE  NextStage(p, started[p] + 1, 1)
<1> DEFINE c == started[p] + 1
<1>1. /\ coll \in Collectives /\ coll' = coll /\ Procs' = Procs /\ Stages' = Stages
      /\ started \in [Procs -> Nat] /\ coll.times \in Nat
  BY ScheduleShape DEF Start, IInv, Shape, Procs, Stages
<1>2. /\ started[p] \in Nat /\ c \in Index /\ c \in Nat
      /\ started' = [started EXCEPT ![p] = c]
  BY <1>1 DEF Start, Index
<1>3. at[p][c] = 0
  BY <1>1, <1>2 DEF IInv, Shape
<1>4. RecvsDone(p, c)
  BY <1>2 DEF IInv, ExpectedIsPosted, RecvsDone, Entries
<1>5. started' \in [Procs -> Nat] /\ started'[p] = c
  BY <1>1, <1>2
<1>6. \A q \in Procs \ {p} : started'[q] = started[q]
  BY <1>1, <1>2
<1>7. c <= coll.times
  BY <1>1, <1>2 DEF Start
<1>8. PostStage(p, c, 1) /\ UNCHANGED <<coll, eager, mismatch>>
  BY DEF Start
<1>9. \A d \in 1..started[p] : d <= c
  BY <1>2
<1>10. \A d \in 1..c : d <= started[p] \/ d = c
  BY <1>2
<1>11. 1 = at[p][c] + 1 /\ started[p] <= c
  BY <1>2, <1>3
<1>12. NextStage(p, c, 1)
  <2> HIDE DEF c
  <2> QED
    BY <1>2, <1>4, <1>5, <1>6, <1>7, <1>8, <1>9, <1>10, <1>11 DEF NextStage
<1> QED
  BY <1>12

LEMMA StartIInv ==
  ASSUME IInv, NEW p \in Procs, Start(p)
  PROVE  IInv'
<1> DEFINE c == started[p] + 1
<1>1. /\ coll \in Collectives /\ coll' = coll /\ Procs' = Procs /\ Stages' = Stages
      /\ started \in [Procs -> Nat] /\ coll.times \in Nat
  BY ScheduleShape DEF Start, IInv, Shape, Procs, Stages
<1>2. /\ started[p] \in Nat /\ c \in Index /\ c \in Nat
      /\ started' = [started EXCEPT ![p] = c]
  BY <1>1 DEF Start, Index
<1>3. NextStage(p, c, 1)
  BY StartPosts
<1>4. InWindow'
  <2> SUFFICES ASSUME NEW q \in Procs, NEW d \in Running(q)' PROVE started'[q] - d < Window
    BY <1>1 DEF InWindow
  <2>1. d \in 1..started'[q] /\ ~Done(q, d)'
    BY DEF Running
  <2>2. CASE q = p
    <3>1. CASE d = c
      BY <1>1, <1>2, <2>2, <3>1, BoundsAssumption
    <3>2. CASE d # c
      <4>1. d \in 1..started[p]
        BY <1>1, <1>2, <2>1, <2>2, <3>2
      <4>2. at'[p][d] = at[p][d]
        BY <1>2, <3>2 DEF Start, PostStage, IInv, Shape
      <4>3. ~Done(p, d)
        BY <1>1, <1>2, <2>1, <2>2, <4>1, <4>2 DEF Done
      <4>4. d \in Running(p)
        BY <4>1, <4>3 DEF Running
      <4> QED
        <5>1. started[p] + 1 - d < Window
          BY <4>4 DEF Start
        <5>2. started'[q] = started[p] + 1
          BY <1>1, <1>2, <2>2
        <5> QED
          BY <1>2, <4>1, <5>1, <5>2
    <3> QED
      BY <3>1, <3>2
  <2>3. CASE q # p
    <3>1. started'[q] = started[q]
      BY <1>1, <1>2, <2>3
    <3>2. at'[q] = at[q]
      BY <2>3 DEF Start, PostStage, IInv, Shape
    <3>3. d \in Running(q)
      BY <1>1, <2>1, <3>1, <3>2 DEF Running, Done
    <3> QED
      BY <3>1, <3>3 DEF IInv, InWindow
  <2> QED
    BY <2>2, <2>3
<1> HIDE DEF c
<1> QED
  BY <1>3, <1>4, PostIInv

LEMMA AdvancePosts ==
  ASSUME IInv, NEW p \in Procs, NEW c \in Index, Advance(p, c)
  PROVE  NextStage(p, c, at[p][c] + 1)
<1>1. /\ coll \in Collectives /\ coll' = coll /\ Procs' = Procs /\ Stages' = Stages
      /\ started \in [Procs -> Nat] /\ started' = started /\ started[p] <= coll.times
  BY DEF Advance, IInv, Shape, Procs, Stages
<1>2. c \in 1..started[p] /\ c \in Running(p) /\ started[p] \in Nat /\ c \in Nat \ {0}
  BY <1>1 DEF Advance, Running
<1>3. \A d \in 1..started[p] : Tag(d) = Tag(c) => d <= c
  <2> SUFFICES ASSUME NEW d \in 1..started[p], Tag(d) = Tag(c), d > c PROVE FALSE
    BY <1>2
  <2>1. Done(p, c)
    BY <1>2, EarlierIsDone DEF IInv
  <2> QED
    BY <1>2, <2>1 DEF Running
<1>4. RecvsDone(p, c)
  BY DEF Advance, StageDone
<1> QED
  BY <1>1, <1>2, <1>3, <1>4 DEF NextStage, Advance

LEMMA AdvanceIInv ==
  ASSUME IInv, NEW p \in Procs, NEW c \in Index, Advance(p, c)
  PROVE  IInv'
<1>1. /\ coll' = coll /\ Procs' = Procs /\ Stages' = Stages
      /\ started \in [Procs -> Nat] /\ started' = started
  BY DEF Advance, IInv, Shape, Procs, Stages
<1>2. c \in Running(p)
  BY DEF Advance
<1>3. NextStage(p, c, at[p][c] + 1)
  BY AdvancePosts
<1>4. InWindow'
  <2> SUFFICES ASSUME NEW q \in Procs, NEW d \in Running(q)' PROVE started'[q] - d < Window
    BY <1>1 DEF InWindow
  <2>1. d \in 1..started[q] /\ ~Done(q, d)'
    BY <1>1 DEF Running
  <2>2. CASE d \in Running(q)
    BY <1>1, <2>2 DEF IInv, InWindow
  <2>3. CASE d \notin Running(q)
    <3>1. Done(q, d)
      BY <2>1, <2>3 DEF Running
    <3>2. ~(q = p /\ d = c)
      BY <1>2, <2>3
    <3>3. at'[q][d] = at[q][d]
      BY <3>2 DEF Advance, PostStage, IInv, Shape
    <3> QED
      BY <1>1, <2>1, <3>1, <3>3 DEF Done
  <2> QED
    BY <2>2, <2>3
<1> QED
  BY <1>3, <1>4, PostIInv

-----------------------------------------------------------------------------
(* The specification *)

LEMMA NextIInv ==
  ASSUME IInv, [Next]_vars
  PROVE  IInv'
<1>1. CASE UNCHANGED vars
  <2>1. /\ coll' = coll /\ eager' = eager /\ started' = started /\ at' = at
        /\ expected' = expected /\ net' = net /\ mismatch' = mismatch
    BY <1>1 DEF vars
  <2>2. /\ Procs' = Procs /\ Stages' = Stages /\ Index' = Index
        /\ \A a, b : ToSend(a, b)' = ToSend(a, b) /\ ToReceive(a, b)' = ToReceive(a, b)
        /\ \A a, c : Done(a, c)' = Done(a, c) /\ RecvsDone(a, c)' = RecvsDone(a, c)
    BY <2>1 DEF Procs, Stages, Index, ToSend, ToReceive, Done, RecvsDone
  <2>3. /\ \A a : Running(a)' = Running(a)
        /\ \A a, b, c : /\ MatchedSends(a, b, c)' = MatchedSends(a, b, c)
                        /\ MatchedReceives(a, b, c)' = MatchedReceives(a, b, c)
    BY <2>1, <2>2 DEF Running, MatchedSends, MatchedReceives
  <2>4. Shape' /\ InWindow' /\ NetInOrder' /\ ExpectedInOrder' /\ DoneIsQuiet' /\ NoCrossMatch'
    BY <2>1, <2>2, <2>3
       DEF IInv, Shape, InWindow, NetInOrder, ExpectedInOrder, DoneIsQuiet, NoCrossMatch
  <2>5. NetIsPosted'
    BY <2>1, <2>2 DEF IInv, NetIsPosted
  <2>6. ExpectedIsPosted'
    BY <2>1, <2>2 DEF IInv, ExpectedIsPosted
  <2>7. SameRanks'
    BY <2>2, <2>3 DEF IInv, SameRanks
  <2> QED
    BY <2>4, <2>5, <2>6, <2>7 DEF IInv
<1> QED
  BY <1>1, StartIInv, AdvanceIInv, MatchIInv DEF Next, MatchSome

LEMMA ScheduleStays ==
  ASSUME [Next]_vars
  PROVE  coll' = coll /\ Procs' = Procs /\ Stages' = Stages /\ Index' = Index
<1>1. coll' = coll
  <2>1. CASE \E p \in Procs : Start(p)
    BY <2>1 DEF Start
  <2>2. CASE \E p \in Procs, c \in Index : Advance(p, c)
    BY <2>2 DEF Advance
  <2>3. CASE \E p \in Procs : MatchSome(p)
    <3>1. PICK p \in Procs : \E src \in Procs : \E i, j : Match(p, src, i, j)
      BY <2>3 DEF MatchSome
    <3> QED
      BY <3>1 DEF Match
  <2>4. CASE UNCHANGED vars
    BY <2>4 DEF vars
  <2> QED
    BY <2>1, <2>2, <2>3, <2>4 DEF Next
<1> QED
  BY <1>1 DEF Procs, Stages, Index

\* When all are done the receives are all matched, so the messages are.
LEMMA NothingIsLeft ==
  ASSUME IInv
  PROVE  NothingLeft
<1> SUFFICES ASSUME AllDone, NEW p \in Procs PROVE net[p] = <<>> /\ expected[p] = <<>>
  BY DEF NothingLeft
<1>1. \A q \in Procs, c \in Index : Done(q, c) /\ c \in Nat
  BY ScheduleShape DEF AllDone, Running, Index, IInv, Shape
<1>2. \A q \in Procs : \A r \in Entries(expected[q]) : r.coll \in Index
  BY ScheduleShape DEF AllDone, Index, IInv, Shape, ExpectedIsPosted
<1>3. \A q \in Procs : Entries(expected[q]) = {}
  BY <1>1, <1>2 DEF IInv, DoneIsQuiet, RecvsDone, Entries
<1>4. Entries(net[p]) = {}
  <2> SUFFICES ASSUME NEW m \in Entries(net[p]) PROVE FALSE
    OBVIOUS
  <2> DEFINE q == m.peer
             c == m.coll
             S == ToSend(p, q)
             R == ToReceive(q, p)
  <2>1. q \in Procs /\ c \in Index /\ m.pos \in S
    BY ScheduleShape DEF AllDone, Index, IInv, Shape, NetIsPosted
  <2>2. m.pos \in Open(net[p], q, c)
    BY DEF Open
  <2> HIDE DEF q, c
  <2>3. /\ S \in SUBSET Position /\ IsFiniteSet(S)
        /\ {Rank(S, x) : x \in S} = {Rank(R, y) : y \in R}
    BY <2>1, ToSendShape DEF IInv, Shape, Paired, ToSend, ToReceive, Procs
  <2>4. MatchedReceives(q, p, c) = R
    <3>1. Open(expected[q], p, c) = {}
      BY <1>3, <2>1 DEF Open
    <3>2. \A y \in R : y[1] \in 1..Len(Stages[q]) /\ Len(Stages[q]) \in Nat
      BY SMTT(30), <2>1, ScheduleShape, SequenceDomain DEF ToReceive, Receives, IInv, Shape
    <3>3. at[q][c] \in Nat /\ at[q][c] > Len(Stages[q])
      BY <1>1, <2>1 DEF Done, IInv, Shape
    <3> QED
      BY <3>1, <3>2, <3>3 DEF MatchedReceives
  <2>5. {Rank(S, x) : x \in MatchedSends(p, q, c)} = {Rank(S, x) : x \in S}
    BY <2>1, <2>3, <2>4 DEF IInv, SameRanks
  <2> HIDE DEF S, R
  <2>6. PICK x \in MatchedSends(p, q, c) : Rank(S, x) = Rank(S, m.pos)
    BY <2>1, <2>5
  <2>7. x \in S /\ x # m.pos
    BY <2>2, <2>6 DEF MatchedSends, S
  <2> QED
    BY <2>1, <2>3, <2>6, <2>7, RankIsOrder
<1>5. \A s : Sequence(s) /\ Entries(s) = {} => s = <<>>
  <2> SUFFICES ASSUME NEW s, Sequence(s), Entries(s) = {} PROVE s = <<>>
    OBVIOUS
  <2>1. Len(s) \in Nat /\ DOMAIN s = 1..Len(s)
    BY SequenceDomain
  <2>2. DOMAIN s = {}
    BY DEF Entries
  <2> QED
    BY <2>1, <2>2 DEF Sequence
<1> QED
  BY <1>3, <1>4, <1>5 DEF IInv, Shape

\* In every behaviour of a collective whose schedules fit together the
\* invariant holds.
THEOREM Invariance == Spec /\ []SchedulesPaired => []IInv
<1>1. Init /\ SchedulesPaired => IInv
  BY InitIInv
<1>2. IInv /\ [Next]_vars => IInv'
  BY NextIInv
<1> QED
  BY <1>1, <1>2, PTL DEF Spec

\* A receive gets the message that was meant for it and fits, in whatever order
\* the members run, the stages overlap and UCP matches: all that is asked of the
\* schedules is that the n-th message of a pair fits the n-th receive.
THEOREM NoCrossMatchCorrect == Spec /\ []SchedulesPaired => []NoCrossMatch
<1>1. IInv => NoCrossMatch
  BY DEF IInv
<1> QED
  BY <1>1, Invariance, PTL

\* No message and no receive is left for a later collective with the same tag.
THEOREM NothingLeftCorrect == Spec /\ []SchedulesPaired => []NothingLeft
<1>1. IInv => NothingLeft
  BY NothingIsLeft
<1> QED
  BY <1>1, Invariance, PTL

-----------------------------------------------------------------------------
(* What the memories hold *)

\* All that is asked of the data of a schedule: there is one way in which it goes.
DataIsDetermined == AllIdle => Paired(Stages) /\ \E found : Determines(coll, found)

Found(C) == CHOOSE found : Determines(C, found)

\* What is in p's memory when it comes to stage k, and when it posts the stage.
Finds(C, p, k) == Found(C)[p][k]
Holds(C, p, k) == Posted(C, Found(C), p, k)

SentCells(C, q, x) == C.stages[q][x[1]].send[x[2]].cells
ReceivedCells(C, p, y) == C.stages[p][y[1]].recv[y[2]].cells

\* The memory of p between the posting of stage k and its end: a cell has what it
\* was posted with or what it will be left with, and the latter if it belongs to a
\* receive that is not in the queue s any more.
InStage(C, p, k, m, s, c) ==
  /\ IsFcn(m)
  /\ DOMAIN Holds(C, p, k) \subseteq DOMAIN m
  /\ DOMAIN m \subseteq DOMAIN Finds(C, p, k + 1)
  /\ \A z \in DOMAIN m :
       \/ m[z] = Finds(C, p, k + 1)[z]
       \/ z \in DOMAIN Holds(C, p, k) /\ m[z] = Holds(C, p, k)[z]
  /\ \A q \in DOMAIN C.stages : \A t \in Meets(C.stages, q, p) :
       t[2][1] = k /\ t[2] \notin Open(s, q, c) =>
         \A i \in DOMAIN SentCells(C, q, t[1]) :
           /\ ReceivedCells(C, p, t[2])[i] \in DOMAIN m
           /\ m[ReceivedCells(C, p, t[2])[i]] = Finds(C, p, k + 1)[ReceivedCells(C, p, t[2])[i]]

MemoryIs(C, p, k, m, s, c) ==
  /\ k = 0 => m = Finds(C, p, 1)
  /\ k \in DOMAIN C.stages[p] => InStage(C, p, k, m, s, c)
  /\ k > Len(C.stages[p]) => m = Finds(C, p, Len(C.stages[p]) + 1)

\* A message carries what its sender had when it posted it, or will carry it.
Carries(C, early, p, k, m, e) ==
  /\ early => e.data = Read(Holds(C, p, e.pos[1]), e.cells)
  /\ ~early =>
       /\ e.pos[1] = k
       /\ \A i \in DOMAIN e.cells :
            e.cells[i] \in DOMAIN m /\ m[e.cells[i]] = Holds(C, p, k)[e.cells[i]]

DataInv ==
  /\ IInv
  /\ Determines(coll, Found(coll)) /\ eager \in coll.eager
  /\ DOMAIN mem = Procs /\ \A p \in Procs : DOMAIN mem[p] = Index
  /\ \A p \in Procs, c \in Index : MemoryIs(coll, p, at[p][c], mem[p][c], expected[p], c)
  /\ \A p \in Procs : \A e \in Entries(net[p]) :
       Carries(coll, eager, p, at[p][e.coll], mem[p][e.coll], e)
  /\ \A p \in Procs : \A r \in Entries(expected[p]) : r.pos[1] = at[p][r.coll]

LEMMA MeetsArePairs ==
  ASSUME NEW stages, NEW p, NEW q, NEW t \in Meets(stages, p, q)
  PROVE  /\ t[1] \in Sends(stages, p, q) /\ t[2] \in Receives(stages, q, p)
         /\ Rank(Sends(stages, p, q), t[1]) = Rank(Receives(stages, q, p), t[2])
         /\ t = <<t[1], t[2]>>
BY DEF Meets

Arrival(C, p, q, t, i) ==
  [from |-> q, stage |-> t[1][1], src |-> SentCells(C, q, t[1])[i],
   dst |-> ReceivedCells(C, p, t[2])[i]]

Arrives(C, p, k, a) ==
  \E q \in DOMAIN C.stages : \E t \in Meets(C.stages, q, p) :
    t[2][1] = k /\ \E i \in DOMAIN SentCells(C, q, t[1]) : a = Arrival(C, p, q, t, i)

LEMMA ArrivalsAre ==
  ASSUME NEW C, NEW p, NEW k
  PROVE  \A a : a \in Arrivals(C.stages, p, k) <=> Arrives(C, p, k, a)
<1> DEFINE T(q) == {n \in Meets(C.stages, q, p) : n[2][1] = k}
           From(q, t) == {Arrival(C, p, q, t, i) : i \in DOMAIN SentCells(C, q, t[1])}
           Old(q, t) ==
             {[from |-> q, stage |-> t[1][1], src |-> C.stages[q][t[1][1]].send[t[1][2]].cells[i],
               dst |-> C.stages[p][k].recv[t[2][2]].cells[i]] :
                i \in DOMAIN C.stages[q][t[1][1]].send[t[1][2]].cells}
           Of(q) == UNION {Old(q, t) : t \in T(q)}
<1>1. Arrivals(C.stages, p, k) = UNION {Of(q) : q \in DOMAIN C.stages}
  BY DEF Arrivals
<1>2. ASSUME NEW q, NEW t \in T(q) PROVE Old(q, t) = From(q, t)
  <2>1. t[2][1] = k
    OBVIOUS
  <2> QED
    BY ONLY <2>1 DEF Arrival, SentCells, ReceivedCells
<1> HIDE DEF Old, From
<1>3. \A q : Of(q) = UNION {From(q, t) : t \in T(q)}
  BY <1>2
<1> HIDE DEF Of, T
<1>4. \A a : a \in Arrivals(C.stages, p, k) <=>
        \E q \in DOMAIN C.stages : \E t \in T(q) : a \in From(q, t)
  BY <1>1, <1>3
<1> QED
  BY <1>4 DEF T, From, Arrives

\* A message of stage k brings cell z.
ArrivesAt(C, p, k, z) ==
  \E q \in DOMAIN C.stages : \E t \in Meets(C.stages, q, p) :
    /\ t[2][1] = k
    /\ \E i \in DOMAIN SentCells(C, q, t[1]) : z = ReceivedCells(C, p, t[2])[i]

\* The messages of a stage bring what the next one finds.
Brings(C, p, k) ==
  \A q \in DOMAIN C.stages : \A t \in Meets(C.stages, q, p) :
    t[2][1] = k =>
      \A i \in DOMAIN SentCells(C, q, t[1]) :
        /\ ReceivedCells(C, p, t[2])[i] \in DOMAIN Finds(C, p, k + 1)
        /\ Finds(C, p, k + 1)[ReceivedCells(C, p, t[2])[i]]
             = Holds(C, q, t[1][1])[SentCells(C, q, t[1])[i]]

\* What Determines says of one stage, by the messages that meet in it.
LEMMA StageContents ==
  ASSUME NEW C, Determines(C, Found(C)), NEW p \in DOMAIN C.stages, NEW k \in DOMAIN C.stages[p]
  PROVE  /\ IsFcn(Holds(C, p, k)) /\ IsFcn(Finds(C, p, k + 1))
         /\ DOMAIN Holds(C, p, k) \subseteq DOMAIN Finds(C, p, k + 1)
         /\ \A z \in DOMAIN Finds(C, p, k + 1) :
              \/ z \in DOMAIN Holds(C, p, k) /\ Finds(C, p, k + 1)[z] = Holds(C, p, k)[z]
              \/ ArrivesAt(C, p, k, z)
         /\ Brings(C, p, k)
<1> DEFINE posted == Posted(C, Found(C), p, k)
           next == Found(C)[p][k + 1]
           arrivals == Arrivals(C.stages, p, k)
<1>1. /\ IsFcn(posted) /\ IsFcn(next)
      /\ DOMAIN next = DOMAIN posted \cup {a.dst : a \in arrivals}
      /\ \A x \in DOMAIN posted \ {a.dst : a \in arrivals} : next[x] = posted[x]
      /\ \A a \in arrivals : next[a.dst] = Posted(C, Found(C), a.from, a.stage)[a.src]
  BY DEF Determines
<1>2. posted = Holds(C, p, k) /\ next = Finds(C, p, k + 1)
  BY DEF Holds, Finds
<1>3. ASSUME NEW a \in arrivals
      PROVE  ArrivesAt(C, p, k, a.dst)
  <2>1. PICK q \in DOMAIN C.stages : \E t \in Meets(C.stages, q, p) :
          t[2][1] = k /\ \E i \in DOMAIN SentCells(C, q, t[1]) : a = Arrival(C, p, q, t, i)
    <3>1. Arrives(C, p, k, a)
      BY ArrivalsAre
    <3> QED
      BY ONLY <3>1 DEF Arrives
  <2>2. PICK t \in Meets(C.stages, q, p) :
          t[2][1] = k /\ \E i \in DOMAIN SentCells(C, q, t[1]) : a = Arrival(C, p, q, t, i)
    BY <2>1
  <2>3. PICK i \in DOMAIN SentCells(C, q, t[1]) : a = Arrival(C, p, q, t, i)
    BY <2>2
  <2>4. a.dst = ReceivedCells(C, p, t[2])[i]
    BY <2>3 DEF Arrival
  <2> QED
    BY <2>2, <2>4 DEF ArrivesAt
<1>4. ASSUME NEW q \in DOMAIN C.stages, NEW t \in Meets(C.stages, q, p), t[2][1] = k,
             NEW i \in DOMAIN SentCells(C, q, t[1])
      PROVE  Arrival(C, p, q, t, i) \in arrivals
  BY <1>4, ArrivalsAre DEF Arrives
<1> HIDE DEF arrivals, posted, next
<1>5. ASSUME NEW q \in DOMAIN C.stages, NEW t \in Meets(C.stages, q, p), t[2][1] = k,
             NEW i \in DOMAIN SentCells(C, q, t[1])
      PROVE  /\ ReceivedCells(C, p, t[2])[i] \in DOMAIN next
             /\ next[ReceivedCells(C, p, t[2])[i]] = Holds(C, q, t[1][1])[SentCells(C, q, t[1])[i]]
  <2> DEFINE a == Arrival(C, p, q, t, i)
  <2>1. a \in arrivals
    BY <1>4, <1>5
  <2>2. /\ a.from = q /\ a.stage = t[1][1] /\ a.src = SentCells(C, q, t[1])[i]
        /\ a.dst = ReceivedCells(C, p, t[2])[i]
    BY DEF Arrival
  <2> HIDE DEF a
  <2>3. a.dst \in DOMAIN next /\ next[a.dst] = Holds(C, a.from, a.stage)[a.src]
    BY <1>1, <2>1 DEF Holds
  <2> QED
    BY <2>2, <2>3
<1>6. ASSUME NEW z \in DOMAIN next
      PROVE  \/ z \in DOMAIN posted /\ next[z] = posted[z]
             \/ \E a \in arrivals : a.dst = z
  <2>1. CASE z \in {a.dst : a \in arrivals}
    BY <2>1
  <2>2. CASE z \notin {a.dst : a \in arrivals}
    BY <1>1, <2>2
  <2> QED
    BY <2>1, <2>2
<1>7. ASSUME NEW z \in DOMAIN next
      PROVE  \/ z \in DOMAIN posted /\ next[z] = posted[z]
             \/ ArrivesAt(C, p, k, z)
  <2>1. CASE \E a \in arrivals : a.dst = z
    <3>1. PICK a \in arrivals : a.dst = z
      BY <2>1
    <3> QED
      BY <1>3, <3>1
  <2> QED
    BY <1>6, <2>1
<1>8. Brings(C, p, k)
  BY <1>2, <1>5 DEF Brings
<1> QED
  BY <1>1, <1>2, <1>7, <1>8

LEMMA SentIsHeld ==
  ASSUME NEW C, Determines(C, Found(C)), NEW p \in DOMAIN C.stages, NEW k \in DOMAIN C.stages[p],
         NEW i \in DOMAIN C.stages[p][k].send
  PROVE  ToSet(C.stages[p][k].send[i].cells) \subseteq DOMAIN Holds(C, p, k)
BY DEF Determines, Holds

\* The j-th message of p's stage k is received before q posts its stage l.
Answered(C, p, q, k, j, l) ==
  \E u \in Meets(C.stages, p, q) : u[1] = <<k, j>> /\ u[2][1] < l

\* A cell of a message that is still to be read is only overwritten with what it has,
\* or by a message its receiver has posted after it received the other.
LEMMA StageKeeps ==
  ASSUME NEW C, Determines(C, Found(C)), FALSE \in C.eager,
         NEW p \in DOMAIN C.stages, NEW k \in DOMAIN C.stages[p],
         NEW j \in DOMAIN C.stages[p][k].send,
         NEW q \in DOMAIN C.stages, NEW t \in Meets(C.stages, q, p), t[2][1] = k,
         NEW i \in DOMAIN SentCells(C, q, t[1]),
         NEW z \in ToSet(C.stages[p][k].send[j].cells), z = ReceivedCells(C, p, t[2])[i]
  PROVE  \/ Finds(C, p, k + 1)[z] = Holds(C, p, k)[z]
         \/ Answered(C, p, q, k, j, t[1][1])
<1> DEFINE a == Arrival(C, p, q, t, i)
           arrivals == Arrivals(C.stages, p, k)
<1>1. a \in arrivals
  BY ArrivalsAre DEF Arrives
<1>2. a.from = q /\ a.stage = t[1][1] /\ a.dst = z
  BY DEF Arrival
<1> HIDE DEF a
<1>3. \/ Finds(C, p, k + 1)[a.dst] = Holds(C, p, k)[a.dst]
      \/ Answers(C.stages, p, k, j, a)
  BY <1>1, <1>2 DEF Determines, Finds, Holds
<1> QED
  BY <1>2, <1>3 DEF Answers, Answered

LEMMA InitDataInv == Init /\ DataIsDetermined => DataInv
<1> SUFFICES ASSUME Init, DataIsDetermined PROVE DataInv
  OBVIOUS
<1>1. AllIdle /\ Procs = DOMAIN coll.stages /\ Stages = coll.stages
  BY DEF Init, AllIdle, Procs, Stages
<1>2. IInv /\ Determines(coll, Found(coll))
  BY <1>1, InitIInv DEF DataIsDetermined, SchedulesPaired, Found
<1>3. \A p \in Procs : Entries(net[p]) = {} /\ Entries(expected[p]) = {}
  BY EmptySequence DEF Init, Entries
<1>4. ASSUME NEW p \in Procs, NEW c \in Index
      PROVE  MemoryIs(coll, p, at[p][c], mem[p][c], expected[p], c)
  <2>1. at[p][c] = 0 /\ mem[p][c] = coll.init[p]
    BY DEF Init
  <2>2. Finds(coll, p, 1) = coll.init[p]
    BY <1>1, <1>2 DEF Determines, Finds
  <2>3. Len(Stages[p]) \in Nat /\ DOMAIN Stages[p] = 1..Len(Stages[p])
    BY <1>2, ScheduleShape, SequenceDomain DEF IInv, Shape
  <2> QED
    BY <1>1, <2>1, <2>2, <2>3 DEF MemoryIs
<1>5. eager \in coll.eager /\ DOMAIN mem = Procs /\ \A p \in Procs : DOMAIN mem[p] = Index
  BY DEF Init
<1> QED
  BY <1>2, <1>3, <1>4, <1>5 DEF DataInv

\* When all messages of a stage have arrived the memory is what the next one finds.
LEMMA StageEnds ==
  ASSUME NEW C, Determines(C, Found(C)), NEW p \in DOMAIN C.stages, NEW k \in DOMAIN C.stages[p],
         NEW m, NEW s, NEW c, InStage(C, p, k, m, s, c), \A q : Open(s, q, c) = {}
  PROVE  m = Finds(C, p, k + 1)
<1> DEFINE f == Finds(C, p, k + 1)
           h == Holds(C, p, k)
<1>1. /\ IsFcn(f) /\ DOMAIN h \subseteq DOMAIN f
      /\ \A z \in DOMAIN f :
           \/ z \in DOMAIN h /\ f[z] = h[z]
           \/ ArrivesAt(C, p, k, z)
  BY StageContents
<1>2. /\ IsFcn(m) /\ DOMAIN h \subseteq DOMAIN m /\ DOMAIN m \subseteq DOMAIN f
      /\ \A z \in DOMAIN m : m[z] = f[z] \/ (z \in DOMAIN h /\ m[z] = h[z])
      /\ \A q \in DOMAIN C.stages : \A t \in Meets(C.stages, q, p) :
           t[2][1] = k => \A i \in DOMAIN SentCells(C, q, t[1]) :
             /\ ReceivedCells(C, p, t[2])[i] \in DOMAIN m
             /\ m[ReceivedCells(C, p, t[2])[i]] = f[ReceivedCells(C, p, t[2])[i]]
  BY DEF InStage
<1> HIDE DEF f, h
<1>3. ASSUME NEW z \in DOMAIN f PROVE z \in DOMAIN m /\ m[z] = f[z]
  <2>1. CASE z \in DOMAIN h /\ f[z] = h[z]
    BY <1>2, <2>1
  <2>2. CASE ArrivesAt(C, p, k, z)
    <3>1. PICK q \in DOMAIN C.stages : \E t \in Meets(C.stages, q, p) :
            /\ t[2][1] = k
            /\ \E i \in DOMAIN SentCells(C, q, t[1]) : z = ReceivedCells(C, p, t[2])[i]
      BY <2>2 DEF ArrivesAt
    <3>2. PICK t \in Meets(C.stages, q, p) :
               /\ t[2][1] = k
               /\ \E i \in DOMAIN SentCells(C, q, t[1]) : z = ReceivedCells(C, p, t[2])[i]
      BY <3>1
    <3> QED
      BY <1>2, <3>2
  <2> QED
    BY <1>1, <2>1, <2>2
<1>4. DOMAIN m = DOMAIN f
  BY <1>2, <1>3
<1>5. m = [z \in DOMAIN m |-> m[z]] /\ f = [z \in DOMAIN f |-> f[z]]
  BY <1>1, <1>2 DEF IsFcn
<1> QED
  BY <1>3, <1>4, <1>5 DEF f

LEMMA SentData ==
  ASSUME NEW p, NEW c, NEW k, NEW m, NEW e \in Entries(Sent(p, c, k, m))
  PROVE  /\ e.pos[2] \in DOMAIN Stages[p][k].send
         /\ e.cells = Stages[p][k].send[e.pos[2]].cells
         /\ eager => e.data = Read(m, e.cells)
<1>1. PICK i \in DOMAIN Sent(p, c, k, m) : e = Sent(p, c, k, m)[i]
  BY DEF Entries
<1>2. i \in DOMAIN Stages[p][k].send /\ Sent(p, c, k, m)[i].pos = <<k, i>>
  BY DEF Sent
<1>3. Sent(p, c, k, m)[i].cells = Stages[p][k].send[i].cells
  BY DEF Sent
<1>4. Sent(p, c, k, m)[i].data = IF eager THEN Read(m, Stages[p][k].send[i].cells) ELSE <<>>
  <2>1. i \in DOMAIN Sent(p, c, k, m)
    OBVIOUS
  <2> QED
    BY ONLY <2>1 DEF Sent
<1>5. e.pos[2] = i
  BY <1>1, <1>2
<1> QED
  BY <1>1, <1>2, <1>3, <1>4, <1>5

\* What is in the queues of p after it has posted stage k.
LEMMA PostQueues ==
  ASSUME IInv, NEW p \in Procs, NEW c, NEW k \in DOMAIN Stages[p], NEW m,
         net' = [net EXCEPT ![p] = @ \o Sent(p, c, k, m)],
         expected' = [expected EXCEPT ![p] = @ \o Awaited(p, c, k)]
  PROVE  /\ \A e \in Entries(net'[p]) : e \in Entries(net[p]) \/
              /\ e.coll = c /\ e.pos[1] = k /\ e.pos[2] \in DOMAIN Stages[p][k].send
              /\ e.cells = Stages[p][k].send[e.pos[2]].cells
              /\ eager => e.data = Read(m, e.cells)
         /\ \A r \in Entries(expected'[p]) : r \in Entries(expected[p]) \/ (r.coll = c /\ r.pos[1] = k)
         /\ \A q, d : Open(expected[p], q, d) \subseteq Open(expected'[p], q, d)
         /\ \A q : {y \in ToReceive(p, q) : y[1] = k} \subseteq Open(expected'[p], q, c)
         /\ \A q \in Procs \ {p} : net'[q] = net[q] /\ expected'[q] = expected[q]
<1>1. /\ Sequence(net[p]) /\ Sequence(expected[p]) /\ coll \in Collectives
      /\ DOMAIN net = Procs /\ DOMAIN expected = Procs
  BY DEF IInv, Shape
<1>2. Sequence(Sent(p, c, k, m)) /\ \A e \in Entries(Sent(p, c, k, m)) : e.coll = c /\ e.pos[1] = k
  <2>1. Sequence(Sent(p, c, k, m))
    BY <1>1, SentShape
  <2>2. ASSUME NEW e \in Entries(Sent(p, c, k, m))
        PROVE  e.coll = c /\ e.pos[1] = k
    <3>1. PICK i \in DOMAIN Sent(p, c, k, m) : e = Sent(p, c, k, m)[i]
      BY DEF Entries
    <3>2. Sent(p, c, k, m)[i].coll = c /\ Sent(p, c, k, m)[i].pos = <<k, i>>
      BY DEF Sent
    <3> QED
      BY ONLY <3>1, <3>2
  <2> QED
    BY <2>1, <2>2
<1>3. ASSUME NEW e \in Entries(Sent(p, c, k, m))
      PROVE  /\ e.pos[2] \in DOMAIN Stages[p][k].send
             /\ e.cells = Stages[p][k].send[e.pos[2]].cells
             /\ eager => e.data = Read(m, e.cells)
  BY SentData
<1>4. /\ Sequence(Awaited(p, c, k))
      /\ \A r \in Entries(Awaited(p, c, k)) : r.coll = c /\ r.pos[1] = k
      /\ \A q : Open(Awaited(p, c, k), q, c) = {y \in ToReceive(p, q) : y[1] = k}
  BY <1>1, AwaitedShape
<1>5. net'[p] = net[p] \o Sent(p, c, k, m) /\ expected'[p] = expected[p] \o Awaited(p, c, k)
  BY <1>1
<1>6. \A q \in Procs \ {p} : net'[q] = net[q] /\ expected'[q] = expected[q]
  BY <1>1
<1>7. /\ Entries(net'[p]) = Entries(net[p]) \cup Entries(Sent(p, c, k, m))
      /\ Entries(expected'[p]) = Entries(expected[p]) \cup Entries(Awaited(p, c, k))
  BY ONLY <1>1, <1>2, <1>4, <1>5, AppendEntries
<1>8. \A q, d : Open(expected'[p], q, d) = Open(expected[p], q, d) \cup Open(Awaited(p, c, k), q, d)
  BY ONLY <1>7 DEF Open
<1> QED
  BY ONLY <1>2, <1>3, <1>4, <1>6, <1>7, <1>8

\* A queue with more in it asks less of the memory.
LEMMA MemoryWithMore ==
  ASSUME NEW C, NEW p, NEW k, NEW m, NEW s, NEW n, NEW c, MemoryIs(C, p, k, m, s, c),
         \A q : Open(s, q, c) \subseteq Open(n, q, c)
  PROVE  MemoryIs(C, p, k, m, n, c)
<1>1. InStage(C, p, k, m, s, c) => InStage(C, p, k, m, n, c)
  <2> SUFFICES ASSUME InStage(C, p, k, m, s, c) PROVE InStage(C, p, k, m, n, c)
    OBVIOUS
  <2>1. \A q : \A t : t \notin Open(n, q, c) => t \notin Open(s, q, c)
    OBVIOUS
  <2> QED
    BY <2>1 DEF InStage
<1> QED
  BY <1>1 DEF MemoryIs

\* What a member finds when it comes to a stage.
LEMMA NextFinds ==
  ASSUME DataInv, NEW p \in Procs, NEW c, NEW k, NextStage(p, c, k), at[p][c] <= Len(Stages[p])
  PROVE  /\ c \in Index /\ k \in Nat /\ k # 0 /\ k = at[p][c] + 1 /\ k <= Len(Stages[p]) + 1
         /\ Len(Stages[p]) \in Nat /\ DOMAIN Stages[p] = 1..Len(Stages[p])
         /\ mem[p][c] = Finds(coll, p, k)
<1>1. IInv /\ coll \in Collectives /\ Procs = DOMAIN coll.stages /\ Stages = coll.stages
  BY DEF DataInv, IInv, Shape, Procs, Stages
<1>2. c \in Index /\ k = at[p][c] + 1 /\ RecvsDone(p, c)
  BY DEF NextStage
<1>3. at[p][c] \in Nat
  BY <1>1, <1>2 DEF IInv, Shape
<1>4. Len(Stages[p]) \in Nat /\ DOMAIN Stages[p] = 1..Len(Stages[p])
  BY <1>1, ScheduleShape, SequenceDomain
<1>5. MemoryIs(coll, p, at[p][c], mem[p][c], expected[p], c) /\ Determines(coll, Found(coll))
  BY <1>2 DEF DataInv
<1>6. mem[p][c] = Finds(coll, p, k)
  <2>1. CASE at[p][c] = 0
    BY <1>2, <1>5, <2>1 DEF MemoryIs
  <2>2. CASE at[p][c] # 0
    <3>1. at[p][c] \in DOMAIN Stages[p]
      BY <1>3, <1>4, <2>2
    <3>2. InStage(coll, p, at[p][c], mem[p][c], expected[p], c)
      BY <1>1, <1>5, <3>1 DEF MemoryIs
    <3>3. \A q : Open(expected[p], q, c) = {}
      BY <1>2 DEF RecvsDone, Open, Entries
    <3> QED
      BY <1>1, <1>2, <1>5, <3>1, <3>2, <3>3, StageEnds
  <2> QED
    BY <2>1, <2>2
<1> QED
  BY <1>2, <1>3, <1>4, <1>6

LEMMA PostDataInv ==
  ASSUME DataInv, IInv', NEW p \in Procs, NEW c, NEW k, NextStage(p, c, k),
         at[p][c] <= Len(Stages[p]), SendsDone(p, c)
  PROVE  DataInv'
<1>1. /\ IInv /\ coll \in Collectives /\ Procs = DOMAIN coll.stages /\ Stages = coll.stages
      /\ coll' = coll /\ eager' = eager /\ Procs' = Procs /\ Stages' = Stages /\ Index' = Index
      /\ Determines(coll, Found(coll)) /\ eager \in coll.eager
  BY DEF DataInv, IInv, Shape, Procs, Stages, Index, NextStage
<1>2. /\ c \in Index /\ k \in Nat /\ k # 0 /\ k = at[p][c] + 1 /\ k <= Len(Stages[p]) + 1
      /\ Len(Stages[p]) \in Nat /\ DOMAIN Stages[p] = 1..Len(Stages[p])
      /\ mem[p][c] = Finds(coll, p, k)
  BY NextFinds
<1>3. /\ DOMAIN at = Procs /\ \A q \in Procs : DOMAIN at[q] = Index
      /\ DOMAIN mem = Procs /\ \A q \in Procs : DOMAIN mem[q] = Index
  BY DEF DataInv, IInv, Shape
<1>4. /\ \A q \in Procs, d \in Index : at'[q][d] = IF q = p /\ d = c THEN k ELSE at[q][d]
  <2>1. at' = [at EXCEPT ![p][c] = k]
    BY DEF NextStage, PostStage
  <2> QED
    BY <1>2, <1>3, <2>1
<1>5. /\ \A q \in Procs : \A e \in Entries(net[q]) : e.coll \in Index
      /\ \A q \in Procs : \A r \in Entries(expected[q]) : r.coll \in Index
      /\ \A r \in Entries(expected[p]) : r.coll # c
      /\ ~eager => \A e \in Entries(net[p]) : e.coll # c
  <2>1. \A q \in Procs : \A d \in 1..started[q] : d \in Index
    BY <1>1, ScheduleShape DEF IInv, Shape, Index
  <2>2. RecvsDone(p, c)
    BY DEF NextStage
  <2> QED
    <3>1. \A q \in Procs : \A e \in Entries(net[q]) : e.coll \in Index
      BY <1>1, <2>1 DEF IInv, NetIsPosted
    <3>2. \A q \in Procs : \A r \in Entries(expected[q]) : r.coll \in Index
      BY <1>1, <2>1 DEF IInv, ExpectedIsPosted
    <3>3. \A r \in Entries(expected[p]) : r.coll # c
      BY <2>2 DEF RecvsDone, Entries
    <3>4. ~eager => \A e \in Entries(net[p]) : e.coll # c
      BY DEF SendsDone, Entries
    <3> QED
      BY <3>1, <3>2, <3>3, <3>4
<1>6. /\ \A q \in Procs, d \in Index : MemoryIs(coll, q, at[q][d], mem[q][d], expected[q], d)
      /\ \A q \in Procs : \A e \in Entries(net[q]) :
           Carries(coll, eager, q, at[q][e.coll], mem[q][e.coll], e)
      /\ \A q \in Procs : \A r \in Entries(expected[q]) : r.pos[1] = at[q][r.coll]
  BY DEF DataInv
<1>7. PostStage(p, c, k)
  BY DEF NextStage
<1>8. CASE k <= Len(Stages[p])
  <2> DEFINE h == Holds(coll, p, k)
  <2>1. k \in DOMAIN Stages[p] /\ ~(k > Len(Stages[p]))
    BY <1>2, <1>8
  <2>2. AfterLocal(mem[p][c], Stages[p][k].local) = h
    BY <1>1, <1>2 DEF Holds, Posted, Finds
  <2> HIDE DEF h
  <2>3. /\ mem' = [mem EXCEPT ![p][c] = h]
        /\ expected' = [expected EXCEPT ![p] = @ \o Awaited(p, c, k)]
        /\ net' = [net EXCEPT ![p] = @ \o Sent(p, c, k, h)]
    BY <1>7, <2>1, <2>2 DEF PostStage
  <2>4. /\ \A e \in Entries(net'[p]) : e \in Entries(net[p]) \/
             /\ e.coll = c /\ e.pos[1] = k /\ e.pos[2] \in DOMAIN Stages[p][k].send
             /\ e.cells = Stages[p][k].send[e.pos[2]].cells
             /\ eager => e.data = Read(h, e.cells)
        /\ \A r \in Entries(expected'[p]) : r \in Entries(expected[p]) \/ (r.coll = c /\ r.pos[1] = k)
        /\ \A q, d : Open(expected[p], q, d) \subseteq Open(expected'[p], q, d)
        /\ \A q : {y \in ToReceive(p, q) : y[1] = k} \subseteq Open(expected'[p], q, c)
        /\ \A q \in Procs \ {p} : net'[q] = net[q] /\ expected'[q] = expected[q]
    BY <1>1, <2>1, <2>3, PostQueues
  <2>5. /\ DOMAIN mem' = Procs /\ \A q \in Procs : DOMAIN mem'[q] = Index
        /\ \A q \in Procs, d \in Index : mem'[q][d] = IF q = p /\ d = c THEN h ELSE mem[q][d]
    BY <1>2, <1>3, <2>3
  <2>6. ASSUME NEW q \in Procs, NEW d \in Index
        PROVE  MemoryIs(coll, q, at'[q][d], mem'[q][d], expected'[q], d)
    <3>1. CASE q = p /\ d = c
      <4>1. /\ IsFcn(h) /\ DOMAIN h \subseteq DOMAIN Finds(coll, p, k + 1)
        BY <1>1, <2>1, StageContents DEF h
      <4>2. \A s \in DOMAIN coll.stages : \A t \in Meets(coll.stages, s, p) :
              t[2][1] = k => t[2] \in Open(expected'[p], s, c)
        BY <1>1, <2>4, MeetsArePairs DEF ToReceive
      <4>3. InStage(coll, p, k, h, expected'[p], c)
        BY <4>1, <4>2 DEF InStage, h
      <4>4. at'[q][d] = k /\ mem'[q][d] = h
        BY <1>2, <1>4, <2>5, <3>1
      <4> QED
        BY <1>1, <1>2, <1>8, <3>1, <4>3, <4>4 DEF MemoryIs
    <3>2. CASE ~(q = p /\ d = c)
      <4>1. at'[q][d] = at[q][d] /\ mem'[q][d] = mem[q][d]
        BY <1>4, <2>5, <3>2
      <4>2. \A s : Open(expected[q], s, d) \subseteq Open(expected'[q], s, d)
        BY <2>4
      <4> QED
        BY <1>6, <4>1, <4>2, MemoryWithMore
    <3> QED
      BY <3>1, <3>2
  <2>7. ASSUME NEW q \in Procs, NEW e \in Entries(net'[q])
        PROVE  Carries(coll, eager, q, at'[q][e.coll], mem'[q][e.coll], e)
    <3>1. CASE e \in Entries(net[q])
      <4>1. e.coll \in Index /\ Carries(coll, eager, q, at[q][e.coll], mem[q][e.coll], e)
        BY <1>5, <1>6, <3>1
      <4>2. CASE eager
        BY <4>1, <4>2 DEF Carries
      <4>3. CASE ~eager
        <5>1. at'[q][e.coll] = at[q][e.coll] /\ mem'[q][e.coll] = mem[q][e.coll]
          BY <1>4, <1>5, <2>5, <3>1, <4>1, <4>3
        <5> QED
          BY <4>1, <5>1
      <4> QED
        BY <4>2, <4>3
    <3>2. CASE e \notin Entries(net[q])
      <4>1. q = p /\ e.coll = c /\ e.pos[1] = k /\ e.pos[2] \in DOMAIN Stages[p][k].send
        BY <2>4, <3>2
      <4>2. e.cells = Stages[p][k].send[e.pos[2]].cells /\ (eager => e.data = Read(h, e.cells))
        BY <2>4, <3>2, <4>1
      <4>3. at'[q][e.coll] = k /\ mem'[q][e.coll] = h
        BY <1>2, <1>4, <2>5, <4>1
      <4>4. ToSet(e.cells) \subseteq DOMAIN h
        <5>1. k \in DOMAIN coll.stages[p] /\ e.pos[2] \in DOMAIN coll.stages[p][k].send
          BY <1>1, <2>1, <4>1
        <5>2. ToSet(coll.stages[p][k].send[e.pos[2]].cells) \subseteq DOMAIN h
          BY <1>1, <5>1, SentIsHeld DEF h
        <5>3. e.cells = coll.stages[p][k].send[e.pos[2]].cells
          BY <1>1, <4>2
        <5> QED
          BY <5>2, <5>3, Zenon
      <4>5. \A i \in DOMAIN e.cells : e.cells[i] \in DOMAIN h
        BY <4>4 DEF ToSet
      <4> QED
        <5>1. e.pos[1] = k /\ (eager => e.data = Read(h, e.cells))
          BY <4>1, <4>2
        <5> QED
          BY <4>1, <4>3, <4>5, <5>1 DEF Carries, h
    <3> QED
      BY <3>1, <3>2
  <2>8. ASSUME NEW q \in Procs, NEW r \in Entries(expected'[q])
        PROVE  r.pos[1] = at'[q][r.coll]
    <3>1. CASE r \in Entries(expected[q])
      BY <1>4, <1>5, <1>6, <3>1
    <3>2. CASE r \notin Entries(expected[q])
      BY <1>2, <1>4, <2>4, <3>2
    <3> QED
      BY <3>1, <3>2
  <2> QED
    BY <1>1, <2>5, <2>6, <2>7, <2>8 DEF DataInv
<1>9. CASE ~(k <= Len(Stages[p]))
  <2>1. k > Len(Stages[p]) /\ k = Len(Stages[p]) + 1 /\ k \notin DOMAIN Stages[p]
    BY <1>2, <1>9
  <2>2. mem' = mem /\ net' = net /\ expected' = expected
    BY <1>7, <2>1 DEF PostStage
  <2>3. ASSUME NEW q \in Procs, NEW d \in Index
        PROVE  MemoryIs(coll, q, at'[q][d], mem'[q][d], expected'[q], d)
    <3>1. CASE q = p /\ d = c
      <4>1. at'[q][d] = k /\ mem'[q][d] = Finds(coll, p, k)
        BY <1>2, <1>4, <2>2, <3>1
      <4> QED
        BY <1>1, <1>2, <2>1, <3>1, <4>1 DEF MemoryIs
    <3>2. CASE ~(q = p /\ d = c)
      BY <1>4, <1>6, <2>2, <3>2
    <3> QED
      BY <3>1, <3>2
  <2>4. ASSUME NEW q \in Procs, NEW e \in Entries(net'[q])
        PROVE  Carries(coll, eager, q, at'[q][e.coll], mem'[q][e.coll], e)
    <3>1. e \in Entries(net[q]) /\ e.coll \in Index
      BY <1>5, <2>2
    <3>2. Carries(coll, eager, q, at[q][e.coll], mem[q][e.coll], e)
      BY <1>6, <3>1
    <3>3. CASE eager
      BY <3>2, <3>3 DEF Carries
    <3>4. CASE ~eager
      <4>1. at'[q][e.coll] = at[q][e.coll] /\ mem'[q][e.coll] = mem[q][e.coll]
        BY <1>4, <1>5, <2>2, <3>1, <3>4
      <4> QED
        BY <3>2, <4>1
    <3> QED
      BY <3>3, <3>4
  <2>5. ASSUME NEW q \in Procs, NEW r \in Entries(expected'[q])
        PROVE  r.pos[1] = at'[q][r.coll]
    BY <1>4, <1>5, <1>6, <2>2
  <2> QED
    BY <1>1, <1>3, <2>2, <2>3, <2>4, <2>5 DEF DataInv
<1> QED
  BY <1>8, <1>9

LEMMA WholeSequence ==
  ASSUME NEW s, Sequence(s)
  PROVE  SubSeq(s, 1, Len(s)) = s
<1>1. PICK S : s \in Seq(S)
  BY DEF Sequence
<1> QED
  BY <1>1

LEMMA ReadFacts ==
  ASSUME NEW mm, NEW cells, Sequence(cells)
  PROVE  /\ Sequence(Read(mm, cells)) /\ Len(Read(mm, cells)) = Len(cells)
         /\ DOMAIN Read(mm, cells) = DOMAIN cells
         /\ \A i \in DOMAIN cells : Read(mm, cells)[i] = mm[cells[i]]
<1>1. Len(cells) \in Nat /\ DOMAIN cells = 1..Len(cells)
  BY SequenceDomain
<1>2. /\ DOMAIN Read(mm, cells) = 1..Len(cells)
      /\ Read(mm, cells) = [i \in 1..Len(cells) |-> Read(mm, cells)[i]]
  BY <1>1 DEF Read
<1>3. Sequence(Read(mm, cells)) /\ Len(Read(mm, cells)) = Len(cells)
  BY <1>1, <1>2, IndexedIsSequence
<1> QED
  BY <1>1, <1>2, <1>3 DEF Read

Written(m, dst, v, w) ==
  /\ IsFcn(w)
  /\ DOMAIN w = DOMAIN m \cup {dst[i] : i \in DOMAIN v}
  /\ \A z \in DOMAIN m \ {dst[i] : i \in DOMAIN v} : w[z] = m[z]
  /\ \A z \in {dst[i] : i \in DOMAIN v} : \E i \in DOMAIN v : dst[i] = z /\ w[z] = v[i]

LEMMA WriteFacts ==
  ASSUME NEW m, NEW dst, NEW v, NEW w, w = Write(m, dst, v)
  PROVE  Written(m, dst, v, w)
<1> DEFINE T == {dst[i] : i \in DOMAIN v}
           Index0(x) == CHOOSE i \in DOMAIN v : dst[i] = x
<1>1. w = [x \in DOMAIN m \cup T |-> IF x \in T THEN v[Index0(x)] ELSE m[x]]
  BY DEF Write
<1>2. ASSUME NEW z \in T PROVE Index0(z) \in DOMAIN v /\ dst[Index0(z)] = z
  <2>1. \E i \in DOMAIN v : dst[i] = z
    OBVIOUS
  <2> QED
    BY <2>1
<1> HIDE DEF T, Index0
<1>3. DOMAIN w = DOMAIN m \cup T
  BY <1>1
<1>4. \A z \in DOMAIN m \ T : w[z] = m[z]
  BY <1>1
<1>5. \A z \in T : w[z] = v[Index0(z)]
  BY <1>1
<1>6. \A z \in T : \E i \in DOMAIN v : dst[i] = z /\ w[z] = v[i]
  BY <1>2, <1>5
<1>7. w = [x \in DOMAIN w |-> w[x]]
  BY <1>1, <1>3
<1> QED
  BY <1>3, <1>4, <1>6, <1>7 DEF T, IsFcn, Written

\* A message meets one receive, and a receive one message.
LEMMA MeetsAreUnique ==
  ASSUME coll \in Collectives, NEW p \in Procs, NEW q \in Procs,
         NEW t \in Meets(Stages, p, q), NEW u \in Meets(Stages, p, q)
  PROVE  t[1] = u[1] <=> t[2] = u[2]
<1> DEFINE S == ToSend(p, q)
           R == ToReceive(q, p)
<1>1. /\ S \in SUBSET Position /\ IsFiniteSet(S)
      /\ R \in SUBSET Position /\ IsFiniteSet(R)
  BY ToSendShape, ToReceiveShape
<1>2. /\ t[1] \in S /\ u[1] \in S /\ t[2] \in R /\ u[2] \in R
      /\ Rank(S, t[1]) = Rank(R, t[2]) /\ Rank(S, u[1]) = Rank(R, u[2])
  BY MeetsArePairs DEF ToSend, ToReceive
<1> HIDE DEF S, R
<1>3. Rank(S, t[1]) = Rank(S, u[1]) => t[1] = u[1]
  BY <1>1, <1>2, RankIsOrder
<1>4. Rank(R, t[2]) = Rank(R, u[2]) => t[2] = u[2]
  BY <1>1, <1>2, RankIsOrder
<1> QED
  BY <1>2, <1>3, <1>4

\* The queue n has at least what is open in s but the position x of q.
AtMostCloses(s, n, c, q, x) ==
  \A a : Open(s, a, c) \subseteq Open(n, a, c) \cup (IF a = q THEN {x} ELSE {})

\* data is what the message of t was posted with.
Bears(C, q, t, data) ==
  /\ DOMAIN data = DOMAIN SentCells(C, q, t[1])
  /\ \A i \in DOMAIN data : data[i] = Holds(C, q, t[1][1])[SentCells(C, q, t[1])[i]]

\* The memory w has what mm had, or what the message of t brings.
Lands(C, p, k, mm, w, q, t) ==
  /\ DOMAIN mm \subseteq DOMAIN w
  /\ \A z \in DOMAIN mm : w[z] = mm[z] \/
       /\ w[z] = Finds(C, p, k + 1)[z]
       /\ \E i \in DOMAIN SentCells(C, q, t[1]) : z = ReceivedCells(C, p, t[2])[i]

\* t is the only pair with its receive.
Alone(C, q, p, t) == \A u \in Meets(C.stages, q, p) : u[2] = t[2] => u[1] = t[1]

\* A message that arrives leaves the memory between the posting of the stage and
\* its end.
LEMMA ArrivalWrites ==
  ASSUME NEW C, Determines(C, Found(C)), NEW p \in DOMAIN C.stages, NEW k \in DOMAIN C.stages[p],
         NEW mm, NEW s, NEW n, NEW c, InStage(C, p, k, mm, s, c),
         NEW q \in DOMAIN C.stages, NEW t \in Meets(C.stages, q, p), t[2][1] = k,
         Alone(C, q, p, t), AtMostCloses(s, n, c, q, t[2]), NEW data, Bears(C, q, t, data),
         NEW w, w = Write(mm, ReceivedCells(C, p, t[2]), data)
  PROVE  InStage(C, p, k, w, n, c) /\ Lands(C, p, k, mm, w, q, t)
<1>1. Brings(C, p, k)
  BY StageContents
<1> DEFINE f == Finds(C, p, k + 1)
           h == Holds(C, p, k)
           dst == ReceivedCells(C, p, t[2])
           T == {dst[i] : i \in DOMAIN data}
<1>2. \A i \in DOMAIN data : dst[i] \in DOMAIN f /\ f[dst[i]] = data[i]
  <2>1. \A i \in DOMAIN SentCells(C, q, t[1]) :
          dst[i] \in DOMAIN f /\ f[dst[i]] = Holds(C, q, t[1][1])[SentCells(C, q, t[1])[i]]
    BY <1>1 DEF Brings
  <2>2. /\ DOMAIN data = DOMAIN SentCells(C, q, t[1])
        /\ \A i \in DOMAIN data : data[i] = Holds(C, q, t[1][1])[SentCells(C, q, t[1])[i]]
    BY DEF Bears
  <2> HIDE DEF dst, f
  <2> QED
    BY <2>1, <2>2
<1>3. /\ IsFcn(w) /\ DOMAIN w = DOMAIN mm \cup T
      /\ \A z \in DOMAIN mm \ T : w[z] = mm[z]
      /\ \A z \in T : \E i \in DOMAIN data : dst[i] = z /\ w[z] = data[i]
  <2> HIDE DEF dst
  <2>1. w = Write(mm, dst, data)
    BY DEF dst
  <2> QED
    <3>1. Written(mm, dst, data, w)
      BY ONLY <2>1, WriteFacts
    <3> QED
      BY ONLY <3>1 DEF Written, T
<1>4. /\ DOMAIN h \subseteq DOMAIN mm /\ DOMAIN mm \subseteq DOMAIN f
      /\ \A z \in DOMAIN mm : mm[z] = f[z] \/ (z \in DOMAIN h /\ mm[z] = h[z])
      /\ \A a \in DOMAIN C.stages : \A u \in Meets(C.stages, a, p) :
           u[2][1] = k /\ u[2] \notin Open(s, a, c) =>
             \A i \in DOMAIN SentCells(C, a, u[1]) :
               /\ ReceivedCells(C, p, u[2])[i] \in DOMAIN mm
               /\ mm[ReceivedCells(C, p, u[2])[i]] = f[ReceivedCells(C, p, u[2])[i]]
  BY DEF InStage
<1> HIDE DEF f, h
<1>5. \A z \in T : z \in DOMAIN f /\ w[z] = f[z]
  <2> HIDE DEF dst
  <2> QED
    BY <1>2, <1>3
<1>6. ASSUME NEW a \in DOMAIN C.stages, NEW u \in Meets(C.stages, a, p),
             u[2][1] = k, u[2] \notin Open(n, a, c), NEW i \in DOMAIN SentCells(C, a, u[1])
      PROVE  /\ ReceivedCells(C, p, u[2])[i] \in DOMAIN w
             /\ w[ReceivedCells(C, p, u[2])[i]] = f[ReceivedCells(C, p, u[2])[i]]
  <2>1. CASE u[2] \notin Open(s, a, c)
    <3> DEFINE z == ReceivedCells(C, p, u[2])[i]
    <3>1. z \in DOMAIN mm /\ mm[z] = f[z]
      <4>1. \A e \in DOMAIN SentCells(C, a, u[1]) :
              /\ ReceivedCells(C, p, u[2])[e] \in DOMAIN mm
              /\ mm[ReceivedCells(C, p, u[2])[e]] = f[ReceivedCells(C, p, u[2])[e]]
        BY ONLY <1>4, <1>6, <2>1
      <4> QED
        BY ONLY <1>6, <4>1
    <3> HIDE DEF z, T
    <3>2. z \in DOMAIN w /\ w[z] = f[z]
      BY <1>3, <1>5, <3>1
    <3> QED
      BY <3>2 DEF z
  <2>2. CASE u[2] \in Open(s, a, c)
    <3>1. a = q /\ u[2] = t[2]
      BY <1>6, <2>2 DEF AtMostCloses
    <3>2. u[1] = t[1]
      BY <3>1 DEF Alone
    <3>3. dst[i] \in T
      BY <1>6, <3>1, <3>2 DEF Bears
    <3> HIDE DEF T
    <3>4. dst[i] \in DOMAIN w /\ w[dst[i]] = f[dst[i]]
      BY <1>3, <1>5, <3>3
    <3> QED
      BY <3>1, <3>4
  <2> QED
    BY <2>1, <2>2
<1>7. ASSUME NEW z \in DOMAIN mm
      PROVE  w[z] = mm[z] \/
              /\ w[z] = f[z]
              /\ \E i \in DOMAIN SentCells(C, q, t[1]) : z = dst[i]
  <2>1. CASE z \in T
    BY <1>5, <2>1 DEF Bears
  <2>2. CASE z \notin T
    BY <1>3, <2>2
  <2> QED
    BY <2>1, <2>2
<1> HIDE DEF T
<1>8. /\ DOMAIN h \subseteq DOMAIN w /\ DOMAIN w \subseteq DOMAIN f /\ DOMAIN mm \subseteq DOMAIN w
      /\ \A z \in DOMAIN w : w[z] = f[z] \/ (z \in DOMAIN h /\ w[z] = h[z])
  BY <1>3, <1>4, <1>5
<1>9. InStage(C, p, k, w, n, c)
  <2>1. IsFcn(w)
    BY <1>3
  <2> QED
    BY ONLY <1>6, <1>8, <2>1 DEF InStage, f, h
<1> QED
  BY <1>7, <1>8, <1>9 DEF f, dst, Lands

\* What a match of m with r brings is what the sender has posted.
Delivers(p, src, r, m, data) ==
  /\ DOMAIN data = DOMAIN m.cells
  /\ \A e \in DOMAIN data : data[e] = Holds(coll, src, m.pos[1])[m.cells[e]]
  /\ mem' = [mem EXCEPT ![p][m.coll] = Write(@, r.cells, data)]

LEMMA MatchedData ==
  ASSUME DataInv, NEW p \in Procs, NEW src \in Procs,
         NEW i \in DOMAIN expected[p], NEW j \in DOMAIN net[src], Match(p, src, i, j),
         NEW r, r = expected[p][i], NEW m, m = net[src][j]
  PROVE  \E data : Delivers(p, src, r, m, data)
<1> DEFINE h == Holds(coll, src, m.pos[1])
           data == IF eager THEN m.data ELSE Read(mem[src][m.coll], m.cells)
           n == IF Len(data) <= Len(r.cells) THEN Len(data) ELSE Len(r.cells)
<1>1. IInv
  BY DEF DataInv
<1>2. /\ m \in Entries(net[src]) /\ m.coll = r.coll
      /\ Sequence(m.cells) /\ Sequence(r.cells) /\ Len(m.cells) <= Len(r.cells)
  BY <1>1, MatchFacts
<1>3. Carries(coll, eager, src, at[src][m.coll], mem[src][m.coll], m)
  BY <1>2 DEF DataInv
<1>4. /\ Sequence(data) /\ Len(data) = Len(m.cells) /\ DOMAIN data = DOMAIN m.cells
      /\ \A e \in DOMAIN m.cells : data[e] = h[m.cells[e]]
  <2>1. CASE eager
    <3>1. data = Read(h, m.cells)
      BY <1>3, <2>1 DEF Carries
    <3> HIDE DEF data, h
    <3> QED
      BY <1>2, <3>1, ReadFacts
  <2>2. CASE ~eager
    <3> DEFINE mm == mem[src][m.coll]
    <3>1. data = Read(mm, m.cells)
      BY <2>2
    <3>2. \A e \in DOMAIN m.cells : mm[m.cells[e]] = h[m.cells[e]]
      BY <1>3, <2>2 DEF Carries
    <3> HIDE DEF data, h, mm
    <3>3. /\ Sequence(data) /\ Len(data) = Len(m.cells) /\ DOMAIN data = DOMAIN m.cells
          /\ \A e \in DOMAIN m.cells : data[e] = mm[m.cells[e]]
      BY <1>2, <3>1, ReadFacts
    <3> QED
      BY <3>2, <3>3
  <2> QED
    BY <2>1, <2>2
<1>5. mem' = [mem EXCEPT ![p][r.coll] = Write(@, r.cells, SubSeq(data, 1, n))]
  BY DEF Match
<1> HIDE DEF data, n
<1>6. SubSeq(data, 1, n) = data
  <2>1. n = Len(data)
    BY <1>2, <1>4 DEF n
  <2> QED
    BY <1>4, <2>1, WholeSequence
<1> WITNESS data
<1> QED
  BY <1>2, <1>4, <1>5, <1>6 DEF Delivers

\* A message that has not arrived when its receiver has posted what overwrites it
\* is not answered by that.
LEMMA Unanswered ==
  ASSUME DataInv, NEW p \in Procs, NEW src \in Procs, NEW e \in Entries(net[p]),
         NEW u \in Meets(Stages, p, src), u[1] = e.pos, u[2][1] < at[src][e.coll]
  PROVE  FALSE
<1> DEFINE S == ToSend(p, src)
           R == ToReceive(src, p)
           c == e.coll
<1>1. IInv /\ coll \in Collectives
  BY DEF DataInv, IInv, Shape
<1>2. c \in 1..started[p] /\ e.pos \in ToSend(p, e.peer)
  BY <1>1 DEF IInv, NetIsPosted
<1>3. c \in Index
  BY <1>1, <1>2, ScheduleShape DEF IInv, Shape, Index
<1>4. u[1] \in S /\ u[2] \in R /\ Rank(S, u[1]) = Rank(R, u[2])
  BY MeetsArePairs DEF ToSend, ToReceive
<1>5. e.peer = src
  <2>1. e.pos = <<e.pos[1], e.pos[2]>>
    BY <1>1, <1>2, ToSendShape DEF Position
  <2>2. <<e.pos[1], e.pos[2]>> \in ToSend(p, e.peer) /\ <<e.pos[1], e.pos[2]>> \in ToSend(p, src)
    BY <1>2, <1>4, <2>1
  <2> QED
    BY <1>1, <2>2, ToSendShape
<1>6. u[2] \in MatchedReceives(src, p, c)
  <2>1. ASSUME u[2] \in Open(expected[src], p, c) PROVE FALSE
    <3>1. PICK r \in Entries(expected[src]) : r.coll = c /\ r.pos = u[2]
      BY <2>1 DEF Open
    <3>2. r.pos[1] = at[src][c]
      BY <3>1 DEF DataInv
    <3>3. at[src][c] \in Nat
      BY <1>1, <1>3 DEF IInv, Shape
    <3> QED
      BY <3>1, <3>2, <3>3
  <2>2. u[2][1] <= at[src][c]
    <3>1. u[2][1] \in Nat /\ at[src][c] \in Nat
      BY <1>1, <1>3, <1>4, ReceiveAt DEF IInv, Shape
    <3> QED
      BY <3>1
  <2> QED
    BY <1>4, <2>1, <2>2 DEF MatchedReceives
<1>7. PICK x \in MatchedSends(p, src, c) : Rank(S, x) = Rank(R, u[2])
  <2>1. {Rank(S, x) : x \in MatchedSends(p, src, c)} = {Rank(R, y) : y \in MatchedReceives(src, p, c)}
    BY <1>1, <1>3 DEF IInv, SameRanks
  <2>2. Rank(R, u[2]) \in {Rank(R, y) : y \in MatchedReceives(src, p, c)}
    BY <1>6
  <2> QED
    BY <2>1, <2>2
<1>8. x = u[1]
  <2>1. x \in S /\ S \in SUBSET Position /\ IsFiniteSet(S)
    BY <1>1, ToSendShape DEF MatchedSends
  <2> HIDE DEF S, R
  <2> QED
    BY <1>4, <1>7, <2>1, RankIsOrder
<1>9. e.pos \in Open(net[p], src, c)
  BY <1>5 DEF Open
<1> QED
  BY <1>7, <1>8, <1>9 DEF MatchedSends

\* What a match of message m with receive r does to the state.
Takes(p, src, r, m, data) ==
  /\ r \in Entries(expected[p]) /\ m \in Entries(net[src]) /\ m.coll = r.coll /\ m.coll \in Index
  /\ <<m.pos, r.pos>> \in Meets(Stages, src, p)
  /\ m.cells = SentCells(coll, src, m.pos) /\ r.cells = ReceivedCells(coll, p, r.pos)
  /\ r.pos[1] \in DOMAIN Stages[p]
  /\ \A q \in Procs : Entries(expected'[q]) \subseteq Entries(expected[q])
  /\ \A q \in Procs : Entries(net'[q]) \subseteq Entries(net[q])
  /\ \A q \in Procs \ {p} : expected'[q] = expected[q]
  /\ \A d : d # m.coll => \A a : Open(expected[p], a, d) \subseteq Open(expected'[p], a, d)
  /\ AtMostCloses(expected[p], expected'[p], m.coll, src, r.pos)
  /\ Delivers(p, src, r, m, data)
  /\ UNCHANGED <<coll, eager, at>>

LEMMA MatchTakes ==
  ASSUME DataInv, NEW p \in Procs, NEW src \in Procs,
         NEW i \in DOMAIN expected[p], NEW j \in DOMAIN net[src], Match(p, src, i, j),
         NEW r, r = expected[p][i], NEW m, m = net[src][j]
  PROVE  \E data : Takes(p, src, r, m, data)
<1>1. IInv
  BY DEF DataInv
<1>2. coll \in Collectives
  BY <1>1 DEF IInv, Shape
<1>3. r \in Entries(expected[p]) /\ m \in Entries(net[src]) /\ m.coll = r.coll /\ m.coll \in Index
  BY <1>1, MatchFacts
<1>4. /\ m.pos \in ToSend(src, p) /\ r.pos \in ToReceive(p, src)
      /\ Rank(ToSend(src, p), m.pos) = Rank(ToReceive(p, src), r.pos)
  BY <1>1, MatchFacts
<1>5. m.cells = Stages[src][m.pos[1]].send[m.pos[2]].cells
  BY ONLY <1>1, <1>3, src \in Procs DEF IInv, NetIsPosted
<1>6. r.cells = Stages[p][r.pos[1]].recv[r.pos[2]].cells
  BY ONLY <1>1, <1>3, p \in Procs DEF IInv, ExpectedIsPosted
<1>7. \A q \in Procs : /\ Entries(expected'[q]) \subseteq Entries(expected[q])
                       /\ Entries(net'[q]) \subseteq Entries(net[q])
  BY <1>1, MatchFacts
<1>8. \A q \in Procs : expected'[q] = IF q = p THEN RemoveAt(expected[p], i) ELSE expected[q]
  BY <1>1, MatchFacts
<1>9. Closes(expected[p], i, src, m.coll, r.pos)
  BY <1>1, MatchFacts
<1>10. PICK data : Delivers(p, src, r, m, data)
  BY MatchedData
<1>11. <<m.pos, r.pos>> \in Meets(Stages, src, p)
  BY ONLY <1>4 DEF Meets, ToSend, ToReceive
<1>12. m.cells = SentCells(coll, src, m.pos) /\ r.cells = ReceivedCells(coll, p, r.pos)
  BY ONLY <1>5, <1>6 DEF SentCells, ReceivedCells, Stages
<1>13. r.pos[1] \in DOMAIN Stages[p]
  BY ONLY <1>2, <1>4, p \in Procs, ReceiveAt
<1>14. /\ \A d : d # m.coll => \A a : Open(expected[p], a, d) \subseteq Open(expected'[p], a, d)
       /\ AtMostCloses(expected[p], expected'[p], m.coll, src, r.pos)
       /\ \A q \in Procs \ {p} : expected'[q] = expected[q]
  <2>1. expected'[p] = RemoveAt(expected[p], i)
    BY ONLY <1>8, p \in Procs
  <2>2. \A d : d # m.coll => \A a : Open(expected'[p], a, d) = Open(expected[p], a, d)
    BY ONLY <1>9, <2>1 DEF Closes
  <2>3. \A a : Open(expected'[p], a, m.coll) =
                 IF a = src THEN Open(expected[p], a, m.coll) \ {r.pos} ELSE Open(expected[p], a, m.coll)
    BY ONLY <1>9, <2>1 DEF Closes
  <2>4. AtMostCloses(expected[p], expected'[p], m.coll, src, r.pos)
    BY ONLY <2>3 DEF AtMostCloses
  <2>5. \A q \in Procs \ {p} : expected'[q] = expected[q]
    BY ONLY <1>8
  <2> QED
    BY ONLY <2>2, <2>4, <2>5
<1>15. UNCHANGED <<coll, eager, at>>
  BY DEF Match
<1> WITNESS data
<1> QED
  BY ONLY <1>3, <1>7, <1>10, <1>11, <1>12, <1>13, <1>14, <1>15 DEF Takes

LEMMA TakesDataInv ==
  ASSUME DataInv, IInv', NEW p \in Procs, NEW src \in Procs, NEW r, NEW m, NEW data,
         Takes(p, src, r, m, data)
  PROVE  DataInv'
<1>1. PICK c : c = m.coll
  OBVIOUS
<1>2. PICK k : k = r.pos[1]
  OBVIOUS
<1>3. PICK t : t = <<m.pos, r.pos>>
  OBVIOUS
<1>4. c = m.coll /\ k = r.pos[1] /\ t = <<m.pos, r.pos>> /\ t[1] = m.pos /\ t[2] = r.pos
  BY <1>1, <1>2, <1>3
<1>5. /\ Procs = DOMAIN coll.stages /\ Stages = coll.stages
      /\ coll' = coll /\ eager' = eager /\ at' = at
      /\ Procs' = Procs /\ Stages' = Stages /\ Index' = Index
      /\ Determines(coll, Found(coll)) /\ eager \in coll.eager
  BY DEF DataInv, Procs, Stages, Index, Takes
<1>6. IInv
  BY DEF DataInv
<1>7. coll \in Collectives
  BY <1>6 DEF IInv, Shape
<1>8. /\ r \in Entries(expected[p]) /\ m \in Entries(net[src]) /\ c = r.coll /\ c \in Index
      /\ m.cells = SentCells(coll, src, t[1]) /\ r.cells = ReceivedCells(coll, p, t[2])
      /\ t \in Meets(Stages, src, p) /\ k \in DOMAIN Stages[p]
  BY ONLY <1>4, Takes(p, src, r, m, data) DEF Takes
<1>9. /\ \A q \in Procs : Entries(expected'[q]) \subseteq Entries(expected[q])
      /\ \A q \in Procs : Entries(net'[q]) \subseteq Entries(net[q])
      /\ \A q \in Procs \ {p} : expected'[q] = expected[q]
      /\ \A d : d # c => \A a : Open(expected[p], a, d) \subseteq Open(expected'[p], a, d)
      /\ AtMostCloses(expected[p], expected'[p], c, src, t[2])
  BY ONLY <1>4, Takes(p, src, r, m, data) DEF Takes
<1>10. /\ DOMAIN data = DOMAIN m.cells
       /\ \A e \in DOMAIN data : data[e] = Holds(coll, src, t[1][1])[m.cells[e]]
       /\ mem' = [mem EXCEPT ![p][c] = Write(@, r.cells, data)]
  BY ONLY <1>4, Takes(p, src, r, m, data) DEF Takes, Delivers
<1>11. k = at[p][c]
  <2>1. r.pos[1] = at[p][r.coll]
    BY <1>8 DEF DataInv
  <2> QED
    BY ONLY <1>4, <1>8, <2>1
<1>12. PICK mm : mm = mem[p][c]
  OBVIOUS
<1>13. PICK w : w = Write(mm, r.cells, data)
  OBVIOUS
<1>14. /\ mm = mem[p][c] /\ w = Write(mm, r.cells, data)
       /\ mem' = [mem EXCEPT ![p][c] = Write(@, r.cells, data)]
  BY <1>10, <1>12, <1>13
<1>15. /\ DOMAIN mem' = Procs /\ \A q \in Procs : DOMAIN mem'[q] = Index
       /\ \A q \in Procs, d \in Index : mem'[q][d] = IF q = p /\ d = c THEN w ELSE mem[q][d]
  <2>1. DOMAIN mem = Procs /\ \A q \in Procs : DOMAIN mem[q] = Index
    BY DEF DataInv
  <2> QED
    BY ONLY <1>8, <1>14, <2>1
<1>16. InStage(coll, p, k, w, expected'[p], c) /\ Lands(coll, p, k, mm, w, src, t)
  <2>1. InStage(coll, p, k, mm, expected[p], c)
    <3>1. MemoryIs(coll, p, at[p][c], mem[p][c], expected[p], c)
      BY <1>8 DEF DataInv
    <3>2. k \in DOMAIN coll.stages[p] /\ k = at[p][c] /\ mm = mem[p][c]
      BY <1>5, <1>8, <1>11, <1>12
    <3> QED
      BY ONLY <3>1, <3>2 DEF MemoryIs
  <2>2. Alone(coll, src, p, t)
    BY <1>5, <1>8, <1>7, MeetsAreUnique DEF Alone
  <2>3. AtMostCloses(expected[p], expected'[p], c, src, t[2])
    BY <1>9
  <2>4. t[2][1] = k
    BY <1>4
  <2>5. Bears(coll, src, t, data) /\ w = Write(mm, ReceivedCells(coll, p, t[2]), data)
    BY ONLY <1>8, <1>10, <1>13 DEF Bears
  <2>6. /\ p \in DOMAIN coll.stages /\ src \in DOMAIN coll.stages /\ k \in DOMAIN coll.stages[p]
        /\ t \in Meets(coll.stages, src, p) /\ Determines(coll, Found(coll))
    BY <1>5, <1>8
  <2> QED
    BY ONLY <2>1, <2>2, <2>3, <2>4, <2>5, <2>6, ArrivalWrites
<1>17. ASSUME NEW q \in Procs, NEW d \in Index
       PROVE  MemoryIs(coll, q, at[q][d], mem'[q][d], expected'[q], d)
  <2>1. CASE q = p /\ d = c
    <3>1. at[q][d] = k /\ mem'[q][d] = w
      BY <1>11, <1>15, <2>1
    <3>2. Len(Stages[p]) \in Nat /\ DOMAIN Stages[p] = 1..Len(Stages[p])
      BY <1>5, ScheduleShape, SequenceDomain
    <3>3. k # 0 /\ ~(k > Len(coll.stages[p])) /\ k \in DOMAIN coll.stages[p]
      BY <1>5, <1>8, <3>2
    <3> QED
      BY <1>16, <2>1, <3>1, <3>3 DEF MemoryIs
  <2>2. CASE ~(q = p /\ d = c)
    <3>1. mem'[q][d] = mem[q][d]
      BY <1>15, <2>2
    <3>2. MemoryIs(coll, q, at[q][d], mem[q][d], expected[q], d)
      BY DEF DataInv
    <3>3. \A a : Open(expected[q], a, d) \subseteq Open(expected'[q], a, d)
      BY <1>9, <2>2
    <3> QED
      BY <3>1, <3>2, <3>3, MemoryWithMore
  <2> QED
    BY <2>1, <2>2
<1>18. ASSUME NEW q \in Procs, NEW e \in Entries(net'[q])
       PROVE  Carries(coll, eager, q, at[q][e.coll], mem'[q][e.coll], e)
  <2>1. e \in Entries(net[q])
    BY <1>9
  <2>2. /\ e.coll \in 1..started[q] /\ e.pos \in ToSend(q, e.peer)
        /\ e.cells = Stages[q][e.pos[1]].send[e.pos[2]].cells
    BY <1>6, <2>1 DEF IInv, NetIsPosted
  <2>3. e.coll \in Index
    <3>1. coll.times \in Nat /\ started[q] \in Nat /\ started[q] <= coll.times
      BY <1>6, <1>7, ScheduleShape DEF IInv, Shape
    <3> QED
      BY ONLY <2>2, <3>1 DEF Index
  <2>4. Carries(coll, eager, q, at[q][e.coll], mem[q][e.coll], e)
    BY <2>1 DEF DataInv
  <2>5. CASE eager
    BY <2>4, <2>5 DEF Carries
  <2>6. CASE ~(q = p /\ e.coll = c)
    BY <1>15, <2>3, <2>4, <2>6
  <2>7. CASE ~eager /\ q = p /\ e.coll = c
    <3>1. /\ e.pos[1] = k
          /\ \A a \in DOMAIN e.cells :
               e.cells[a] \in DOMAIN mm /\ mm[e.cells[a]] = Holds(coll, p, k)[e.cells[a]]
      BY <1>11, <2>4, <2>7, <1>14 DEF Carries
    <3>2. ASSUME NEW a \in DOMAIN e.cells
          PROVE  e.cells[a] \in DOMAIN w /\ w[e.cells[a]] = Holds(coll, p, k)[e.cells[a]]
      <4> DEFINE z == e.cells[a]
      <4>1. z \in DOMAIN mm /\ mm[z] = Holds(coll, p, k)[z]
        BY <3>1
      <4>2. z \in DOMAIN w /\ (w[z] = mm[z] \/
              /\ w[z] = Finds(coll, p, k + 1)[z]
              /\ \E b \in DOMAIN SentCells(coll, src, t[1]) : z = ReceivedCells(coll, p, t[2])[b])
        <5> HIDE DEF z
        <5> QED
          BY <1>16, <4>1 DEF Lands
      <4>3. CASE w[z] = mm[z]
        BY <4>1, <4>2, <4>3
      <4>4. CASE w[z] # mm[z]
        <5>1. PICK b \in DOMAIN SentCells(coll, src, t[1]) : z = ReceivedCells(coll, p, t[2])[b]
          BY <4>2, <4>4
        <5>2. e.pos[2] \in DOMAIN Stages[p][k].send
          <6>1. e.pos \in ToSend(p, e.peer)
            BY <2>2, <2>7
          <6> QED
            BY ONLY <1>7, p \in Procs, <3>1, <6>1, SendAt
        <5>3. FALSE \in coll.eager
          <6>1. coll.eager \subseteq BOOLEAN
            BY <1>7, CollectivesAssumption DEF WellFormed
          <6> QED
            BY <1>5, <2>7, <6>1
        <5>4. z \in ToSet(coll.stages[p][k].send[e.pos[2]].cells)
          <6>1. e.cells = coll.stages[p][k].send[e.pos[2]].cells
            BY <1>5, <2>2, <2>7, <3>1
          <6> QED
            BY <6>1 DEF ToSet
        <5>5. t[2][1] = k
          BY <1>4
        <5>6. /\ p \in DOMAIN coll.stages /\ src \in DOMAIN coll.stages /\ k \in DOMAIN coll.stages[p]
              /\ t \in Meets(coll.stages, src, p) /\ Determines(coll, Found(coll))
              /\ e.pos[2] \in DOMAIN coll.stages[p][k].send
          BY <1>5, <1>8, <5>2
        <5>7. \/ Finds(coll, p, k + 1)[z] = Holds(coll, p, k)[z]
              \/ Answered(coll, p, src, k, e.pos[2], t[1][1])
          <6> HIDE DEF z
          <6> QED
            BY ONLY <5>1, <5>3, <5>4, <5>5, <5>6, StageKeeps
        <5>8. ASSUME NEW u \in Meets(coll.stages, p, src), u[1] = <<k, e.pos[2]>>, u[2][1] < t[1][1]
              PROVE  FALSE
          <6>1. e.pos = <<k, e.pos[2]>>
            <7>1. e.pos = <<e.pos[1], e.pos[2]>>
              <8>1. e.pos \in Position
                BY ONLY <1>7, <2>2, q \in Procs, ToSendShape
              <8> QED
                BY ONLY <8>1 DEF Position
            <7> QED
              BY <3>1, <7>1
          <6>2. t[1][1] = at[src][e.coll]
            <7>1. Carries(coll, eager, src, at[src][c], mem[src][c], m)
              BY <1>4, <1>8 DEF DataInv
            <7> QED
              BY <1>4, <2>7, <7>1 DEF Carries
          <6>3. u \in Meets(Stages, p, src) /\ u[1] = e.pos /\ u[2][1] < at[src][e.coll]
            BY <1>5, <5>8, <6>1, <6>2
          <6>4. e \in Entries(net[p])
            BY <2>1, <2>7
          <6> QED
            BY <6>3, <6>4, Unanswered
        <5>9. Finds(coll, p, k + 1)[z] = Holds(coll, p, k)[z]
          BY <5>7, <5>8 DEF Answered
        <5> QED
          BY <4>2, <4>4, <5>9
      <4> QED
        BY <4>3, <4>4
    <3>3. mem'[q][e.coll] = w /\ at[q][e.coll] = k
      BY <1>11, <1>15, <2>3, <2>7
    <3> QED
      BY <2>7, <3>1, <3>2, <3>3 DEF Carries
  <2> QED
    BY <2>5, <2>6, <2>7
<1>19. ASSUME NEW q \in Procs, NEW e \in Entries(expected'[q])
       PROVE  e.pos[1] = at[q][e.coll]
  BY <1>9 DEF DataInv
<1> QED
  BY <1>5, <1>15, <1>17, <1>18, <1>19 DEF DataInv

LEMMA NextDataInv ==
  ASSUME DataInv, [Next]_vars
  PROVE  DataInv'
<1>1. IInv /\ IInv'
  BY NextIInv DEF DataInv
<1>2. coll \in Collectives /\ \A p \in Procs : Len(Stages[p]) \in Nat
  BY <1>1, ScheduleShape, SequenceDomain DEF IInv, Shape
<1>3. CASE \E p \in Procs : Start(p)
  <2>1. PICK p \in Procs : Start(p)
    BY <1>3
  <2>2. PICK c : c = started[p] + 1
    OBVIOUS
  <2>3. NextStage(p, c, 1)
    BY <1>1, <2>1, <2>2, StartPosts
  <2>4. c \in Index /\ started[p] \in Nat /\ started[p] < c
    BY <1>1, <2>2, <2>3 DEF NextStage, IInv, Shape
  <2>5. at[p][c] <= Len(Stages[p])
    <3>1. c \in Nat
      BY <2>2, <2>4
    <3>2. at[p][c] = 0
      BY <1>1, <2>2, <2>4, <3>1 DEF IInv, Shape
    <3> QED
      BY <1>2, <3>2
  <2>6. SendsDone(p, c)
    <3>1. \A e \in Entries(net[p]) : e.coll # c
      BY <1>1, <2>2, <2>4 DEF IInv, NetIsPosted
    <3> QED
      BY <3>1 DEF SendsDone, Entries
  <2> QED
    BY ONLY DataInv, <1>1, p \in Procs, <2>3, <2>5, <2>6, PostDataInv
<1>4. CASE \E p \in Procs, c \in Index : Advance(p, c)
  <2>1. PICK p \in Procs, c \in Index : Advance(p, c)
    BY <1>4
  <2>2. PICK k : k = at[p][c] + 1
    OBVIOUS
  <2>3. NextStage(p, c, k)
    BY <1>1, <2>1, <2>2, AdvancePosts
  <2>4. at[p][c] <= Len(Stages[p])
    <3>1. c \in 1..started[p] /\ ~Done(p, c)
      BY <2>1 DEF Advance, Running
    <3>2. started[p] \in Nat /\ at[p][c] \in Nat
      BY <1>1 DEF IInv, Shape
    <3> QED
      BY <1>2, <3>1, <3>2 DEF Done
  <2>5. SendsDone(p, c)
    BY <2>1 DEF Advance, StageDone
  <2> QED
    BY ONLY DataInv, <1>1, p \in Procs, <2>3, <2>4, <2>5, PostDataInv
<1>5. CASE \E p \in Procs : MatchSome(p)
  <2>1. PICK p \in Procs, src \in Procs : \E i \in DOMAIN expected[p], j \in DOMAIN net[src] :
          Match(p, src, i, j)
    BY <1>5 DEF MatchSome
  <2>2. PICK i \in DOMAIN expected[p], j \in DOMAIN net[src] : Match(p, src, i, j)
    BY <2>1
  <2>3. PICK r, m : \E data : Takes(p, src, r, m, data)
    BY <2>2, MatchTakes
  <2>4. PICK data : Takes(p, src, r, m, data)
    BY <2>3
  <2> QED
    BY ONLY DataInv, <1>1, p \in Procs, src \in Procs, <2>4, TakesDataInv
<1>6. CASE UNCHANGED vars
  <2>1. /\ coll' = coll /\ eager' = eager /\ at' = at /\ mem' = mem
        /\ expected' = expected /\ net' = net
    BY <1>6 DEF vars
  <2>2. Procs' = Procs /\ Stages' = Stages /\ Index' = Index
    BY <2>1 DEF Procs, Stages, Index
  <2> QED
    BY <1>1, <2>1, <2>2 DEF DataInv
<1> QED
  BY <1>3, <1>4, <1>5, <1>6 DEF Next

\* The invariant of the memories holds in every behaviour of a collective whose
\* schedules determine what is in them.
THEOREM DataInvariance == Spec /\ []DataIsDetermined => []DataInv
<1>1. Init /\ DataIsDetermined => DataInv
  BY InitDataInv
<1>2. DataInv /\ [Next]_vars => DataInv'
  BY NextDataInv
<1> QED
  BY <1>1, <1>2, PTL DEF Spec

LEMMA DeterminedIsCorrect == DataInv => ResultCorrect
<1> SUFFICES ASSUME DataInv, NEW p \in Procs, NEW c \in 1..started[p], Done(p, c),
                    NEW x \in DOMAIN coll.goal[p]
             PROVE  IF coll.ordered THEN mem[p][c][x] = coll.goal[p][x]
                    ELSE /\ Len(mem[p][c][x]) = Len(coll.goal[p][x])
                         /\ ToSet(mem[p][c][x]) = ToSet(coll.goal[p][x])
  BY DEF ResultCorrect
<1>1. IInv /\ Procs = DOMAIN coll.stages /\ Stages = coll.stages
  BY DEF DataInv, Procs, Stages
<1>2. c \in Index
  BY <1>1, ScheduleShape DEF IInv, Shape, Index
<1>3. at[p][c] > Len(coll.stages[p])
  BY <1>1 DEF Done
<1>4. MemoryIs(coll, p, at[p][c], mem[p][c], expected[p], c)
  BY <1>2 DEF DataInv
<1>5. mem[p][c] = Found(coll)[p][Len(coll.stages[p]) + 1]
  BY <1>3, <1>4 DEF MemoryIs, Finds
<1>6. Determines(coll, Found(coll)) /\ p \in DOMAIN coll.stages
  BY <1>1 DEF DataInv
<1>7. LET last == Found(coll)[p][Len(coll.stages[p]) + 1]
      IN  IF coll.ordered THEN last[x] = coll.goal[p][x]
          ELSE Len(last[x]) = Len(coll.goal[p][x]) /\ ToSet(last[x]) = ToSet(coll.goal[p][x])
  BY ONLY <1>6, x \in DOMAIN coll.goal[p] DEF Determines
<1> QED
  BY <1>5, <1>7

\* A member whose collective is done has the result in its buffer, in whatever
\* order the members run and messages are matched, and whether UCP reads what
\* is sent when it is posted or only when it is matched: all that is asked of
\* the schedules is that they leave no cell to timing.
THEOREM ResultCorrectCorrect == Spec /\ []SchedulesDetermine => []ResultCorrect
<1>1. DataInv => ResultCorrect
  BY DeterminedIsCorrect
<1>2. SchedulesDetermine => DataIsDetermined
  BY DEF SchedulesDetermine, DataIsDetermined
<1> QED
  BY <1>1, <1>2, DataInvariance, PTL

-----------------------------------------------------------------------------
(* The ring allgatherv: its schedules fit together and determine the result *)
(* for every number of members.                                             *)

Gather == INSTANCE UcxAllgatherv

\* The blocks that v places somewhere else are of the same size.
RingOf(stages, n, v, inplace) ==
  /\ n \in Nat \ {0, 1}
  /\ \A p, b \in 0..(n - 1) : v[p].count[b] \in Nat /\ v[p].count[b] = v[0].count[b]
  /\ stages = [p \in 0..(n - 1) |-> Gather!AllgathervRing(n, p, v[p], inplace)]

LEMMA Wraps ==
  ASSUME NEW n \in Nat \ {0}, NEW x \in Int, -n <= x, x < 2 * n
  PROVE  x % n = IF x < 0 THEN x + n ELSE IF x < n THEN x ELSE x - n
<1> DEFINE m == x % n
           q == x \div n
<1>1. m \in 0..(n - 1) /\ q \in Int /\ x = n * q + m
  BY SMT
<1> HIDE DEF m, q
<1>2. q = -1 \/ q = 0 \/ q = 1
  <2>1. q < 2
    <3>1. SUFFICES ASSUME q >= 2 PROVE FALSE
      BY <1>1
    <3>2. n * q >= n * 2
      BY <1>1, <3>1
    <3> QED
      BY <1>1, <3>2
  <2>2. q > -2
    <3>1. SUFFICES ASSUME q <= -2 PROVE FALSE
      BY <1>1
    <3>2. n * q <= n * (-2)
      BY <1>1, <3>1
    <3> QED
      BY <1>1, <3>2
  <2> QED
    BY <1>1, <2>1, <2>2
<1>3. m = IF x < 0 THEN x + n ELSE IF x < n THEN x ELSE x - n
  BY <1>1, <1>2
<1> QED
  BY <1>3 DEF m

LEMMA Backwards ==
  ASSUME NEW n \in Nat \ {0, 1}, NEW r \in 0..(n - 1), NEW k \in 0..n
  PROVE  (r - k + n) % n = IF k <= r THEN r - k ELSE r - k + n
<1>1. r - k + n \in Int /\ -n <= r - k + n /\ r - k + n < 2 * n
  OBVIOUS
<1>2. (r - k + n) % n = IF r - k + n < 0 THEN (r - k + n) + n
                        ELSE IF r - k + n < n THEN r - k + n ELSE (r - k + n) - n
  BY ONLY n \in Nat \ {0}, <1>1, Wraps
<1> QED
  BY <1>2

\* Who sends to whom in a ring.
LEMMA RingLinks ==
  ASSUME NEW n \in Nat \ {0, 1}, NEW p \in 0..(n - 1), NEW q \in 0..(n - 1)
  PROVE  /\ (p + 1) % n \in 0..(n - 1) /\ (p - 1 + n) % n \in 0..(n - 1)
         /\ (p + 1) % n = IF p + 1 < n THEN p + 1 ELSE 0
         /\ (p + 1) % n = q <=> (q - 1 + n) % n = p
<1>1. (p + 1) % n = IF p + 1 < n THEN p + 1 ELSE 0
  <2>1. p + 1 \in Int /\ -n <= p + 1 /\ p + 1 < 2 * n
    OBVIOUS
  <2>2. (p + 1) % n = IF p + 1 < 0 THEN (p + 1) + n ELSE IF p + 1 < n THEN p + 1 ELSE (p + 1) - n
    BY ONLY n \in Nat \ {0}, <2>1, Wraps
  <2> QED
    BY <2>2
<1>2. /\ (p - 1 + n) % n = IF 1 <= p THEN p - 1 ELSE p - 1 + n
      /\ (q - 1 + n) % n = IF 1 <= q THEN q - 1 ELSE q - 1 + n
  BY 1 \in 0..n, Backwards
<1> QED
  BY <1>1, <1>2

\* The block that is sent, and the one that is received.
LEMMA RingBlocks ==
  ASSUME NEW n \in Nat \ {0, 1}, NEW p \in 0..(n - 1), NEW k \in 1..(n - 1)
  PROVE  /\ Gather!RingOut(p, k - 1, n) = IF k - 1 <= p THEN p - k + 1 ELSE p - k + 1 + n
         /\ Gather!RingIn(p, k - 1, n) = IF k <= p THEN p - k ELSE p - k + n
<1>1. (p - (k - 1) + n) % n = IF k - 1 <= p THEN p - (k - 1) ELSE p - (k - 1) + n
  BY k - 1 \in 0..n, Backwards
<1>2. p - (k - 1) - 1 + n = p - k + n
  OBVIOUS
<1>3. (p - k + n) % n = IF k <= p THEN p - k ELSE p - k + n
  BY k \in 0..n, Backwards
<1> QED
  BY <1>1, <1>2, <1>3 DEF Gather!RingOut, Gather!RingIn

\* The right neighbour receives in each stage the block that is sent in it.
LEMMA RingPasses ==
  ASSUME NEW n \in Nat \ {0, 1}, NEW p \in 0..(n - 1), NEW q \in 0..(n - 1), (p + 1) % n = q,
         NEW k \in 1..(n - 1)
  PROVE  /\ Gather!RingOut(p, k - 1, n) \in 0..(n - 1)
         /\ Gather!RingIn(q, k - 1, n) = Gather!RingOut(p, k - 1, n)
<1>1. q = IF p + 1 < n THEN p + 1 ELSE 0
  BY RingLinks
<1>2. /\ Gather!RingOut(p, k - 1, n) = IF k - 1 <= p THEN p - k + 1 ELSE p - k + 1 + n
      /\ Gather!RingIn(q, k - 1, n) = IF k <= q THEN q - k ELSE q - k + n
  BY RingBlocks
<1> QED
  BY <1>1, <1>2

LEMMA BlockLength ==
  ASSUME NEW v, NEW b, v.count[b] \in Nat
  PROVE  /\ DOMAIN Gather!Block(v, b) = 1..v.count[b] /\ Len(Gather!Block(v, b)) = v.count[b]
         /\ \A i \in 1..v.count[b] : Gather!Block(v, b)[i] = <<"r", v.displ[b] + i - 1>>
<1> DEFINE s == [i \in 1..v.count[b] |-> <<"r", v.displ[b] + i - 1>>]
<1>1. Gather!Block(v, b) = s
  <2>1. (IF v.count[b] > 0 THEN v.count[b] ELSE 0) = v.count[b]
    OBVIOUS
  <2> QED
    BY <2>1 DEF Gather!Block, Gather!Cells
<1>2. DOMAIN s = 1..v.count[b] /\ \A i \in 1..v.count[b] : s[i] = <<"r", v.displ[b] + i - 1>>
  OBVIOUS
<1>3. s = [i \in 1..v.count[b] |-> s[i]]
  OBVIOUS
<1> HIDE DEF s
<1>4. Len(s) = v.count[b]
  BY <1>2, <1>3, IndexedIsSequence
<1> QED
  BY <1>1, <1>2, <1>4

\* The stages of a member.
RingStages(s, n, p, v) ==
  /\ DOMAIN s = 1..(n - 1) /\ s = [k \in 1..(n - 1) |-> s[k]]
  /\ \A k \in 2..(n - 1) : s[k].local = <<>>
  /\ \A k \in 1..(n - 1) :
       s[k].send = <<[to |-> (p + 1) % n, cells |-> Gather!Block(v, Gather!RingOut(p, k - 1, n))]>>
  /\ \A k \in 1..(n - 1) :
       s[k].recv = <<[from |-> (p - 1 + n) % n, cells |-> Gather!Block(v, Gather!RingIn(p, k - 1, n))]>>

LEMMA RingSteps ==
  ASSUME NEW n \in Nat \ {0, 1}, NEW p \in 0..(n - 1), NEW v, NEW inplace
  PROVE  /\ RingStages(Gather!AllgathervRing(n, p, v, inplace), n, p, v)
         /\ Gather!AllgathervRing(n, p, v, inplace)[1].local = Gather!CopyOwn(v, p, inplace) \o <<>>
<1>0. PICK s : s = Gather!AllgathervRing(n, p, v, inplace)
  OBVIOUS
<1> DEFINE snd == [k \in 1..(n - 1) |->
                    <<[to |-> (p + 1) % n, cells |-> Gather!Block(v, Gather!RingOut(p, k - 1, n))]>>]
           rcv == [k \in 1..(n - 1) |->
                    <<[from |-> (p - 1 + n) % n, cells |-> Gather!Block(v, Gather!RingIn(p, k - 1, n))]>>]
           t == [k \in 1..(n - 1) |-> [local |-> <<>>, send |-> snd[k], recv |-> rcv[k]]]
           c == Gather!CopyOwn(v, p, inplace)
<1>1. s = Gather!First(c, t)
  BY <1>0 DEF Gather!AllgathervRing, Gather!Stage, Gather!Send, Gather!Recv
<1>2. 1 \in DOMAIN t /\ t # <<>>
  OBVIOUS
<1>3. s = [t EXCEPT ![1].local = c \o @]
  BY <1>1, <1>2 DEF Gather!First
<1>4. /\ \A k \in 1..(n - 1) : snd[k] =
            <<[to |-> (p + 1) % n, cells |-> Gather!Block(v, Gather!RingOut(p, k - 1, n))]>>
      /\ \A k \in 1..(n - 1) : rcv[k] =
            <<[from |-> (p - 1 + n) % n, cells |-> Gather!Block(v, Gather!RingIn(p, k - 1, n))]>>
  OBVIOUS
<1> HIDE DEF snd, rcv, c
<1>5. /\ DOMAIN t = 1..(n - 1)
      /\ \A k \in 1..(n - 1) : t[k] = [local |-> <<>>, send |-> snd[k], recv |-> rcv[k]]
  OBVIOUS
<1> HIDE DEF t
<1>6. DOMAIN s = 1..(n - 1) /\ s = [k \in 1..(n - 1) |-> s[k]]
  BY <1>3, <1>5
<1>7. 1 \in 1..(n - 1) /\ \A k \in 2..(n - 1) : k \in 1..(n - 1) /\ k # 1
  OBVIOUS
<1>8. s[1] = [t[1] EXCEPT !.local = c \o @]
  BY <1>3, <1>5, <1>7
<1>9. s[1].local = c \o <<>> /\ s[1].send = snd[1] /\ s[1].recv = rcv[1]
  <2>1. t[1] = [local |-> <<>>, send |-> snd[1], recv |-> rcv[1]]
    BY ONLY <1>5, <1>7
  <2>2. PICK d : d = c \o t[1].local
    OBVIOUS
  <2>3. s[1] = [[local |-> <<>>, send |-> snd[1], recv |-> rcv[1]] EXCEPT !.local = d]
    <3>1. s[1] = [t[1] EXCEPT !.local = d]
      BY ONLY <1>8, <2>2
    <3> QED
      BY ONLY <2>1, <3>1
  <2>4. s[1].local = d /\ s[1].send = snd[1] /\ s[1].recv = rcv[1]
    BY ONLY <2>3
  <2>5. t[1].local = <<>>
    BY ONLY <2>1
  <2> QED
    BY ONLY <2>2, <2>4, <2>5
<1>10. \A k \in 2..(n - 1) : s[k] = t[k]
  BY <1>3, <1>5, <1>7
<1>11. \A k \in 2..(n - 1) : s[k].local = <<>> /\ s[k].send = snd[k] /\ s[k].recv = rcv[k]
  BY <1>5, <1>7, <1>10
<1>12. \A k \in 1..(n - 1) : s[k].send = snd[k] /\ s[k].recv = rcv[k]
  <2>1. \A k \in 1..(n - 1) : k = 1 \/ k \in 2..(n - 1)
    OBVIOUS
  <2> QED
    BY <1>9, <1>11, <2>1
<1> QED
  BY <1>0, <1>4, <1>6, <1>9, <1>11, <1>12 DEF c, RingStages

\* A member has one message for its right neighbour in each stage, and one receive
\* for its left one.
LEMMA RingMessages ==
  ASSUME NEW n \in Nat \ {0, 1}, NEW v, NEW inplace, NEW stages,
         RingOf(stages, n, v, inplace), NEW p \in 0..(n - 1), NEW q \in 0..(n - 1)
  PROVE  /\ Sends(stages, p, q) = IF (p + 1) % n = q THEN {<<k, 1>> : k \in 1..(n - 1)} ELSE {}
         /\ Receives(stages, q, p) = IF (p + 1) % n = q THEN {<<k, 1>> : k \in 1..(n - 1)} ELSE {}
<1>1. PICK s : s = stages[p]
  OBVIOUS
<1>2. PICK r : r = stages[q]
  OBVIOUS
<1>3. RingStages(s, n, p, v[p]) /\ RingStages(r, n, q, v[q])
  BY <1>1, <1>2, RingSteps DEF RingOf
<1>4. /\ DOMAIN s = 1..(n - 1)
      /\ \A k \in 1..(n - 1) : DOMAIN s[k].send = {1} /\ s[k].send[1].to = (p + 1) % n
  <2>1. ASSUME NEW k \in 1..(n - 1)
        PROVE  DOMAIN s[k].send = {1} /\ s[k].send[1].to = (p + 1) % n
    <3>1. PICK peer : peer = (p + 1) % n
      OBVIOUS
    <3>2. PICK b : s[k].send = <<[to |-> peer, cells |-> b]>>
      BY <1>3, <3>1 DEF RingStages
    <3> QED
      BY ONLY <3>1, <3>2
  <2> QED
    BY <1>3, <2>1 DEF RingStages
<1>5. /\ DOMAIN r = 1..(n - 1)
      /\ \A k \in 1..(n - 1) : DOMAIN r[k].recv = {1} /\ r[k].recv[1].from = (q - 1 + n) % n
  <2>1. ASSUME NEW k \in 1..(n - 1)
        PROVE  DOMAIN r[k].recv = {1} /\ r[k].recv[1].from = (q - 1 + n) % n
    <3>1. PICK peer : peer = (q - 1 + n) % n
      OBVIOUS
    <3>2. PICK b : r[k].recv = <<[from |-> peer, cells |-> b]>>
      BY <1>3, <3>1 DEF RingStages
    <3> QED
      BY ONLY <3>1, <3>2
  <2> QED
    BY <1>3, <2>1 DEF RingStages
<1>6. (p + 1) % n = q <=> (q - 1 + n) % n = p
  BY RingLinks
<1> DEFINE out == (p + 1) % n
           in == (q - 1 + n) % n
<1>7. Sends(stages, p, q) = IF out = q THEN {<<k, 1>> : k \in 1..(n - 1)} ELSE {}
  <2>1. PICK o : o = out
    OBVIOUS
  <2>2. DOMAIN s = 1..(n - 1) /\ \A k \in 1..(n - 1) : DOMAIN s[k].send = {1} /\ s[k].send[1].to = o
    BY ONLY <1>4, <2>1
  <2>3. Sends(stages, p, q) = IF o = q THEN {<<k, 1>> : k \in 1..(n - 1)} ELSE {}
    BY ONLY <1>1, <2>2 DEF Sends
  <2> QED
    BY ONLY <2>1, <2>3
<1>8. Receives(stages, q, p) = IF in = p THEN {<<k, 1>> : k \in 1..(n - 1)} ELSE {}
  <2>1. PICK o : o = in
    OBVIOUS
  <2>2. DOMAIN r = 1..(n - 1) /\ \A k \in 1..(n - 1) : DOMAIN r[k].recv = {1} /\ r[k].recv[1].from = o
    BY ONLY <1>5, <2>1
  <2>3. Receives(stages, q, p) = IF o = p THEN {<<k, 1>> : k \in 1..(n - 1)} ELSE {}
    BY ONLY <1>2, <2>2 DEF Receives
  <2> QED
    BY ONLY <2>1, <2>3
<1> HIDE DEF out, in
<1> QED
  BY <1>6, <1>7, <1>8 DEF out, in

\* The ring fits together, wherever each member places the blocks.
LEMMA RingPaired ==
  ASSUME NEW n \in Nat \ {0, 1}, NEW v, NEW inplace, NEW stages, RingOf(stages, n, v, inplace)
  PROVE  Paired(stages)
<1> DEFINE M == {<<k, 1>> : k \in 1..(n - 1)}
<1>1. DOMAIN stages = 0..(n - 1)
  BY DEF RingOf
<1>2. SUFFICES ASSUME NEW p \in 0..(n - 1), NEW q \in 0..(n - 1)
      PROVE  LET S == Sends(stages, p, q)
                 R == Receives(stages, q, p)
             IN  /\ {Rank(S, x) : x \in S} = {Rank(R, y) : y \in R}
                 /\ \A x \in S, y \in R : Rank(S, x) = Rank(R, y) =>
                      Len(stages[p][x[1]].send[x[2]].cells) <= Len(stages[q][y[1]].recv[y[2]].cells)
  BY <1>1 DEF Paired
<1>3. Sends(stages, p, q) = Receives(stages, q, p)
  <2>1. /\ Sends(stages, p, q) = IF (p + 1) % n = q THEN M ELSE {}
        /\ Receives(stages, q, p) = IF (p + 1) % n = q THEN M ELSE {}
    BY RingMessages
  <2> QED
    BY ONLY <2>1
<1>4. ASSUME (p + 1) % n # q PROVE Sends(stages, p, q) = {}
  BY <1>4, RingMessages
<1>5. ASSUME (p + 1) % n = q PROVE Sends(stages, p, q) = M
  BY <1>5, RingMessages
<1>6. CASE (p + 1) % n # q
  BY <1>3, <1>4, <1>6
<1>7. CASE (p + 1) % n = q
  <2>1. M \in SUBSET Position /\ IsFiniteSet(M)
    <3>1. IsFiniteSet((1..(n - 1)) \X {1})
      <4>1. IsFiniteSet(1..(n - 1))
        BY 1 \in Int, n - 1 \in Int, FS_Interval
      <4>2. IsFiniteSet({1})
        BY FS_Singleton
      <4> QED
        BY ONLY <4>1, <4>2, FS_Product
    <3>2. IsFiniteSet(M)
      BY <3>1, FS_Subset
    <3> QED
      BY <3>2 DEF Position
  <2>2. ASSUME NEW x \in M, NEW y \in M, Rank(M, x) = Rank(M, y)
        PROVE  Len(stages[p][x[1]].send[x[2]].cells) <= Len(stages[q][y[1]].recv[y[2]].cells)
    <3>1. x = y
      <4> HIDE DEF M
      <4> QED
        BY <2>1, <2>2, RankIsOrder
    <3>2. PICK k \in 1..(n - 1) : x = <<k, 1>>
      OBVIOUS
    <3>3. stages[p][k].send = <<[to |-> (p + 1) % n,
                                 cells |-> Gather!Block(v[p], Gather!RingOut(p, k - 1, n))]>>
      BY RingSteps DEF RingOf, RingStages
    <3>4. stages[q][k].recv = <<[from |-> (q - 1 + n) % n,
                                 cells |-> Gather!Block(v[q], Gather!RingIn(q, k - 1, n))]>>
      BY RingSteps DEF RingOf, RingStages
    <3>5. PICK b : b = Gather!RingOut(p, k - 1, n)
      OBVIOUS
    <3>6. b \in 0..(n - 1) /\ b = Gather!RingIn(q, k - 1, n)
      BY <1>7, <3>5, RingPasses
    <3>7. v[p].count[b] \in Nat /\ v[q].count[b] = v[p].count[b]
      BY <3>6 DEF RingOf
    <3>8. Len(Gather!Block(v[p], b)) = v[p].count[b] /\ Len(Gather!Block(v[q], b)) = v[q].count[b]
      BY <3>7, BlockLength
    <3>9. PICK to, from :
            /\ stages[p][k].send = <<[to |-> to, cells |-> Gather!Block(v[p], b)]>>
            /\ stages[q][k].recv = <<[from |-> from, cells |-> Gather!Block(v[q], b)]>>
      BY <3>3, <3>4, <3>5, <3>6
    <3>10. Len(stages[p][k].send[1].cells) <= Len(stages[q][k].recv[1].cells)
      BY ONLY <3>7, <3>8, <3>9
    <3> QED
      BY ONLY <3>1, <3>2, <3>10
  <2>3. \A x, y \in M : Rank(M, x) = Rank(M, y) =>
          Len(stages[p][x[1]].send[x[2]].cells) <= Len(stages[q][y[1]].recv[y[2]].cells)
    BY ONLY <2>2
  <2> HIDE DEF M
  <2> QED
    BY <1>3, <1>5, <1>7, <2>3
<1> QED
  BY <1>6, <1>7

-----------------------------------------------------------------------------
(* What the ring leaves in the memories *)

\* No local step leaves the memory as it is, and one is DoLocal.
LEMMA LocalSteps ==
  ASSUME NEW m
  PROVE  AfterLocal(m, <<>>) = m /\ \A step : AfterLocal(m, <<step>>) = DoLocal(m, step)
<1> DEFINE Body(iter, S, seq) == [s \in SUBSET S |->
             IF s = {} THEN m ELSE DoLocal(iter[s \ {Max(s)}], seq[Max(s)])]
<1>1. AfterLocal(m, <<>>) = m
  <2> DEFINE it == CHOOSE g : g = Body(g, {}, <<>>)
             g0 == [s \in SUBSET {} |-> m]
  <2>1. DOMAIN <<>> = {}
    OBVIOUS
  <2>2. AfterLocal(m, <<>>) = it[{}]
    BY <2>1 DEF AfterLocal, FoldLeft, MapThenFoldSet
  <2>3. g0 = Body(g0, {}, <<>>)
    <3>1. \A s \in SUBSET {} : s = {}
      OBVIOUS
    <3> QED
      BY <3>1
  <2>4. it = Body(it, {}, <<>>)
    <3> HIDE DEF g0
    <3> QED
      BY <2>3
  <2>5. {} \in SUBSET {}
    OBVIOUS
  <2> HIDE DEF it
  <2>6. it[{}] = m
    BY <2>4, <2>5
  <2> QED
    BY <2>2, <2>6
<1>2. ASSUME NEW step PROVE AfterLocal(m, <<step>>) = DoLocal(m, step)
  <2> DEFINE it == CHOOSE g : g = Body(g, {1}, <<step>>)
             g0 == [s \in SUBSET {1} |-> IF s = {} THEN m ELSE DoLocal(m, step)]
  <2>1. DOMAIN <<step>> = {1} /\ <<step>>[1] = step
    OBVIOUS
  <2>2. AfterLocal(m, <<step>>) = it[{1}]
    BY <2>1 DEF AfterLocal, FoldLeft, MapThenFoldSet
  <2>3. Max({1}) = 1
    <3>1. \A x \in {1} : (\A y \in {1} : x >= y) <=> x = 1
      OBVIOUS
    <3> QED
      BY <3>1 DEF Max
  <2>4. \A s \in SUBSET {1} : s = {} \/ s = {1}
    OBVIOUS
  <2>5. {1} \ {1} = {} /\ {} \in SUBSET {1} /\ {1} \in SUBSET {1} /\ {1} # {}
    OBVIOUS
  <2>6. ASSUME NEW s \in SUBSET {1} PROVE g0[s] = Body(g0, {1}, <<step>>)[s]
    <3>1. CASE s = {}
      BY <3>1
    <3>2. CASE s = {1}
      <4>1. g0[{}] = m /\ g0[{1}] = DoLocal(m, step)
        BY <2>5
      <4> HIDE DEF g0
      <4>2. Body(g0, {1}, <<step>>)[{1}] = DoLocal(g0[{}], step)
        BY <2>1, <2>3, <2>5
      <4> QED
        BY <3>2, <4>1, <4>2
    <3> QED
      BY <2>4, <3>1, <3>2
  <2>7. g0 = Body(g0, {1}, <<step>>)
    BY <2>6
  <2>8. it = Body(it, {1}, <<step>>)
    <3> HIDE DEF g0
    <3> QED
      BY <2>7
  <2> HIDE DEF it
  <2>9. it[{}] = m
    BY <2>5, <2>8
  <2>10. it[{1}] = DoLocal(it[{}], step)
    BY <2>1, <2>3, <2>5, <2>8
  <2> QED
    BY <2>2, <2>9, <2>10
<1> QED
  BY <1>1, <1>2

\* Element y[2] of block y[1], where p places it.
Cell(v, p, y) == <<"r", v[p].displ[y[1]] + y[2] - 1>>

\* How far the block b has come from when it is at p.
Distance(n, p, b) == IF b <= p THEN p - b ELSE p - b + n

\* The elements of the blocks that come from less than k members away, and from
\* just k.
Near(n, v, p, k) ==
  {y \in (0..(n - 1)) \X Nat : y[2] \in 1..v[p].count[y[1]] /\ Distance(n, p, y[1]) < k}
Far(n, v, p, k) ==
  {y \in (0..(n - 1)) \X Nat : y[2] \in 1..v[p].count[y[1]] /\ Distance(n, p, y[1]) = k}

\* An allgatherv by ring: each member has its elements in its own block or in the
\* send buffer; it places blocks where it likes, but no two at one place, and
\* in the end is to have all of them.
RingGather(C, n, v, inplace, data) ==
  /\ RingOf(C.stages, n, v, inplace)
  /\ \A p, b \in 0..(n - 1) : v[p].displ[b] \in Int
  /\ \A p \in 0..(n - 1) : \A y, z \in Near(n, v, p, n) : Cell(v, p, y) = Cell(v, p, z) => y = z
  /\ \A p \in 0..(n - 1) :
       /\ IsFcn(C.init[p])
       /\ \A i \in 1..v[p].count[p] :
            LET x == IF inplace THEN Cell(v, p, <<p, i>>) ELSE <<"s", i - 1>>
            IN  x \in DOMAIN C.init[p] /\ C.init[p][x] = data[p][i]
       /\ \A x \in DOMAIN C.goal[p] : \E y \in Near(n, v, p, n) :
            x = Cell(v, p, y) /\ C.goal[p][x] = data[y[1]][y[2]]

\* p's memory when it has posted stage k.
RingMemory(C, n, v, data, p, k) ==
  [x \in DOMAIN C.init[p] \cup {Cell(v, p, y) : y \in Near(n, v, p, k)} |->
     IF \E y \in Near(n, v, p, k) : x = Cell(v, p, y)
     THEN LET y == CHOOSE y \in Near(n, v, p, k) : x = Cell(v, p, y) IN data[y[1]][y[2]]
     ELSE C.init[p][x]]

\* What is in a cell of it.
RingHolds(C, n, v, data, p, k, m) ==
  /\ IsFcn(m)
  /\ DOMAIN m = DOMAIN C.init[p] \cup {Cell(v, p, y) : y \in Near(n, v, p, k)}
  /\ \A y \in Near(n, v, p, k) : m[Cell(v, p, y)] = data[y[1]][y[2]]
  /\ \A x \in DOMAIN m : (\A y \in Near(n, v, p, k) : x # Cell(v, p, y)) => m[x] = C.init[p][x]

LEMMA NearFar ==
  ASSUME NEW n \in Nat \ {0, 1}, NEW v, NEW p \in 0..(n - 1), NEW k \in 0..n
  PROVE  /\ Near(n, v, p, k) \subseteq Near(n, v, p, n)
         /\ k < n => Near(n, v, p, k + 1) = Near(n, v, p, k) \cup Far(n, v, p, k)
<1>1. \A b \in 0..(n - 1) : Distance(n, p, b) \in 0..(n - 1)
  BY DEF Distance
<1> QED
  BY <1>1 DEF Near, Far

LEMMA RingMemoryHolds ==
  ASSUME NEW C, NEW n, NEW v, NEW inplace, NEW data, RingGather(C, n, v, inplace, data),
         NEW p \in 0..(n - 1), NEW k \in 0..n
  PROVE  RingHolds(C, n, v, data, p, k, RingMemory(C, n, v, data, p, k))
<1> DEFINE m == RingMemory(C, n, v, data, p, k)
           N == Near(n, v, p, k)
<1>1. n \in Nat \ {0, 1}
  BY DEF RingGather, RingOf
<1>2. \A y, z \in N : Cell(v, p, y) = Cell(v, p, z) => y = z
  BY <1>1, NearFar DEF RingGather
<1>3. DOMAIN m = DOMAIN C.init[p] \cup {Cell(v, p, y) : y \in N} /\ IsFcn(m)
  BY DEF RingMemory, IsFcn
<1>4. ASSUME NEW y \in N PROVE m[Cell(v, p, y)] = data[y[1]][y[2]]
  <2> DEFINE x == Cell(v, p, y)
             z == CHOOSE z \in N : x = Cell(v, p, z)
  <2>1. x \in DOMAIN m
    BY <1>3
  <2>2. z = y
    BY <1>2
  <2>3. m[x] = data[z[1]][z[2]]
    BY <2>1 DEF RingMemory
  <2> HIDE DEF z, m
  <2> QED
    BY <2>2, <2>3
<1>5. ASSUME NEW x \in DOMAIN m, \A y \in N : x # Cell(v, p, y)
      PROVE  m[x] = C.init[p][x]
  BY <1>3, <1>5 DEF RingMemory
<1> HIDE DEF m, N
<1>6. RingHolds(C, n, v, data, p, k, m)
  BY <1>3, <1>4, <1>5 DEF RingHolds, N
<1> QED
  BY <1>6 DEF m

\* Two functions that hold the same are the same.
LEMMA RingMemoryIs ==
  ASSUME NEW C, NEW n, NEW v, NEW data, NEW p, NEW k, NEW m, NEW w,
         RingHolds(C, n, v, data, p, k, m), RingHolds(C, n, v, data, p, k, w)
  PROVE  m = w
<1>1. DOMAIN m = DOMAIN w /\ IsFcn(m) /\ IsFcn(w)
  BY DEF RingHolds
<1>2. ASSUME NEW x \in DOMAIN m PROVE m[x] = w[x]
  <2>1. CASE \E y \in Near(n, v, p, k) : x = Cell(v, p, y)
    <3>1. PICK y \in Near(n, v, p, k) : x = Cell(v, p, y)
      BY <2>1
    <3> QED
      BY <3>1 DEF RingHolds
  <2>2. CASE \A y \in Near(n, v, p, k) : x # Cell(v, p, y)
    BY <1>1, <2>2 DEF RingHolds
  <2> QED
    BY <2>1, <2>2
<1> QED
  BY <1>1, <1>2 DEF IsFcn

LEMMA NearOwn ==
  ASSUME NEW n \in Nat \ {0, 1}, NEW v, NEW p \in 0..(n - 1), v[p].count[p] \in Nat
  PROVE  Near(n, v, p, 1) = {<<p, i>> : i \in 1..v[p].count[p]}
<1>1. \A b \in 0..(n - 1) : Distance(n, p, b) < 1 <=> b = p
  BY DEF Distance
<1>2. Near(n, v, p, 1) = {y \in (0..(n - 1)) \X Nat : y[2] \in 1..v[p].count[y[1]] /\ y[1] = p}
  BY <1>1 DEF Near
<1> QED
  BY <1>2

\* The own block is in its place when the first stage is posted.
LEMMA OwnBlock ==
  ASSUME NEW C, NEW n, NEW v, NEW inplace, NEW data, RingGather(C, n, v, inplace, data),
         NEW p \in 0..(n - 1)
  PROVE  AfterLocal(C.init[p], C.stages[p][1].local) = RingMemory(C, n, v, data, p, 1)
<1>1. n \in Nat \ {0, 1} /\ v[p].count[p] \in Nat
  BY DEF RingGather, RingOf
<1>2. C.stages[p][1].local = Gather!CopyOwn(v[p], p, inplace) \o <<>>
  BY <1>1, RingSteps DEF RingGather, RingOf
<1> DEFINE c == v[p].count[p]
           w == AfterLocal(C.init[p], C.stages[p][1].local)
           own(i) == Cell(v, p, <<p, i>>)
<1>3. Near(n, v, p, 1) = {<<p, i>> : i \in 1..c}
  BY <1>1, NearOwn
<1>4. IsFcn(C.init[p])
  BY DEF RingGather
<1>5. SUFFICES /\ IsFcn(w)
               /\ DOMAIN w = DOMAIN C.init[p] \cup {own(i) : i \in 1..c}
               /\ \A i \in 1..c : w[own(i)] = data[p][i]
               /\ \A x \in DOMAIN w : (\A i \in 1..c : x # own(i)) => w[x] = C.init[p][x]
  <2>1. RingHolds(C, n, v, data, p, 1, RingMemory(C, n, v, data, p, 1))
    BY <1>1, 1 \in 0..n, RingMemoryHolds
  <2>2. RingHolds(C, n, v, data, p, 1, w)
    <3> HIDE DEF w
    <3>1. \A y \in Near(n, v, p, 1) : \E i \in 1..c : y = <<p, i>> /\ y[1] = p /\ y[2] = i
      BY <1>3
    <3>2. {Cell(v, p, y) : y \in Near(n, v, p, 1)} = {own(i) : i \in 1..c}
      BY <1>3
    <3>3. \A i \in 1..c : <<p, i>> \in Near(n, v, p, 1)
      BY <1>3
    <3>4. \A y \in Near(n, v, p, 1) : w[Cell(v, p, y)] = data[y[1]][y[2]]
      <4> SUFFICES ASSUME NEW y \in Near(n, v, p, 1) PROVE w[Cell(v, p, y)] = data[y[1]][y[2]]
        OBVIOUS
      <4>1. PICK i \in 1..c : y = <<p, i>> /\ y[1] = p /\ y[2] = i
        BY <3>1
      <4>2. w[own(i)] = data[p][i]
        BY <1>5
      <4> QED
        BY <4>1, <4>2
    <3>5. ASSUME NEW x \in DOMAIN w, \A y \in Near(n, v, p, 1) : x # Cell(v, p, y)
          PROVE  w[x] = C.init[p][x]
      <4>1. \A i \in 1..c : x # own(i)
        BY <3>3, <3>5
      <4> QED
        BY <1>5, <4>1
    <3>6. DOMAIN w = DOMAIN C.init[p] \cup {Cell(v, p, y) : y \in Near(n, v, p, 1)}
      BY <1>5, <3>2
    <3>7. \A x \in DOMAIN w : (\A y \in Near(n, v, p, 1) : x # Cell(v, p, y)) => w[x] = C.init[p][x]
      BY <3>5
    <3> QED
      BY ONLY <1>5, <3>4, <3>6, <3>7 DEF RingHolds
  <2> QED
    BY <2>1, <2>2, RingMemoryIs
<1>6. CASE inplace
  <2>1. w = C.init[p]
    <3>1. C.stages[p][1].local = <<>>
      BY <1>2, <1>6 DEF Gather!CopyOwn
    <3> QED
      BY <3>1, LocalSteps
  <2>2. \A i \in 1..c : own(i) \in DOMAIN C.init[p] /\ C.init[p][own(i)] = data[p][i]
    BY <1>6 DEF RingGather
  <2> QED
    BY <1>4, <2>1, <2>2
<1>7. CASE ~inplace
  <2> DEFINE src == Gather!Cells("s", 0, c)
             dst == Gather!Block(v[p], p)
             step == [op |-> "copy", src |-> src, dst |-> dst]
  <2>1. C.stages[p][1].local = <<step>>
    BY <1>2, <1>7 DEF Gather!CopyOwn, Gather!Copy
  <2>2. w = DoLocal(C.init[p], step)
    BY <2>1, LocalSteps
  <2>3. DOMAIN dst = 1..c /\ \A i \in 1..c : dst[i] = own(i)
    BY <1>1, BlockLength DEF Cell
  <2>4. \A i \in 1..c : src[i] = <<"s", i - 1>>
    BY <1>1 DEF Gather!Cells
  <2>5. ASSUME NEW i \in 1..c PROVE C.init[p][<<"s", i - 1>>] = data[p][i]
    <3>1. PICK x : x = IF inplace THEN own(i) ELSE <<"s", i - 1>>
      OBVIOUS
    <3>2. C.init[p][x] = data[p][i]
      BY <3>1 DEF RingGather
    <3>3. x = <<"s", i - 1>>
      BY <1>7, <3>1
    <3> QED
      BY <3>2, <3>3
  <2>6. ToSet(dst) = {own(i) : i \in 1..c}
    BY <2>3 DEF ToSet
  <2>7. \A i, j \in 1..c : own(i) = own(j) => i = j
    <3>1. \A i \in 1..c : <<p, i>> \in Near(n, v, p, n)
      BY <1>1, <1>3, 1 \in 0..n, NearFar
    <3> QED
      BY <3>1 DEF RingGather
  <2> HIDE DEF src, dst, own, w
  <2>8. w = [x \in DOMAIN C.init[p] \cup ToSet(dst) |->
               IF x \in ToSet(dst)
               THEN C.init[p][src[CHOOSE i \in DOMAIN dst : dst[i] = x]]
               ELSE C.init[p][x]]
    BY <2>2 DEF DoLocal
  <2>9. ASSUME NEW i \in 1..c PROVE w[own(i)] = data[p][i]
    <3>1. own(i) \in ToSet(dst)
      BY <2>6
    <3> DEFINE h == CHOOSE h \in DOMAIN dst : dst[h] = own(i)
    <3>2. h = i
      BY <2>3, <2>7
    <3>3. w[own(i)] = C.init[p][src[h]]
      BY <2>8, <3>1
    <3> HIDE DEF h
    <3> QED
      BY <2>4, <2>5, <3>2, <3>3
  <2>10. IsFcn(w) /\ DOMAIN w = DOMAIN C.init[p] \cup {own(i) : i \in 1..c}
    BY <2>6, <2>8 DEF IsFcn
  <2>11. ASSUME NEW x \in DOMAIN w, \A i \in 1..c : x # own(i) PROVE w[x] = C.init[p][x]
    <3>1. x \notin ToSet(dst)
      BY <2>6, <2>11
    <3> QED
      BY <2>8, <2>10, <3>1
  <2> QED
    BY <2>9, <2>10, <2>11
<1> QED
  BY <1>6, <1>7

\* What is in the memories at each stage.
RingFound(C, n, v, data) ==
  [p \in 0..(n - 1) |-> [k \in 1..n |-> IF k = 1 THEN C.init[p] ELSE RingMemory(C, n, v, data, p, k)]]

LEMMA RingPosted ==
  ASSUME NEW C, NEW n, NEW v, NEW inplace, NEW data, RingGather(C, n, v, inplace, data),
         NEW p \in 0..(n - 1), NEW k \in 1..(n - 1)
  PROVE  Posted(C, RingFound(C, n, v, data), p, k) = RingMemory(C, n, v, data, p, k)
<1> DEFINE found == RingFound(C, n, v, data)
<1>1. n \in Nat \ {0, 1} /\ C.stages[p] = Gather!AllgathervRing(n, p, v[p], inplace)
  BY DEF RingGather, RingOf
<1>2. k \in 1..n
  BY <1>1
<1>3. found[p][k] = IF k = 1 THEN C.init[p] ELSE RingMemory(C, n, v, data, p, k)
  BY <1>2 DEF RingFound
<1> HIDE DEF found
<1>4. CASE k = 1
  BY <1>3, <1>4, OwnBlock DEF Posted, found
<1>5. CASE k # 1
  <2>1. RingStages(C.stages[p], n, p, v[p])
    BY <1>1, RingSteps
  <2>2. k \in 2..(n - 1)
    BY <1>1, <1>5
  <2>3. C.stages[p][k].local = <<>>
    BY <2>1, <2>2 DEF RingStages
  <2>4. AfterLocal(found[p][k], <<>>) = found[p][k]
    BY LocalSteps
  <2> QED
    BY <1>3, <1>5, <2>3, <2>4 DEF Posted, found
<1> QED
  BY <1>4, <1>5

\* The block that p receives in stage k is the one from k members away, and its left
\* neighbour has it from one member less.
LEMMA RingDistances ==
  ASSUME NEW n \in Nat \ {0, 1}, NEW p \in 0..(n - 1), NEW k \in 1..(n - 1)
  PROVE  /\ \A b \in 0..(n - 1) : Distance(n, p, b) = k <=> b = Gather!RingIn(p, k - 1, n)
         /\ \A b \in 0..(n - 1) : Distance(n, p, b) = k - 1 <=> b = Gather!RingOut(p, k - 1, n)
<1>1. /\ Gather!RingOut(p, k - 1, n) = IF k - 1 <= p THEN p - k + 1 ELSE p - k + 1 + n
      /\ Gather!RingIn(p, k - 1, n) = IF k <= p THEN p - k ELSE p - k + n
  BY RingBlocks
<1>2. ASSUME NEW b \in 0..(n - 1)
      PROVE  Distance(n, p, b) = k <=> b = Gather!RingIn(p, k - 1, n)
  BY <1>1 DEF Distance
<1>3. ASSUME NEW b \in 0..(n - 1)
      PROVE  Distance(n, p, b) = k - 1 <=> b = Gather!RingOut(p, k - 1, n)
  BY <1>1 DEF Distance
<1> QED
  BY <1>2, <1>3

\* What arrives in p's stage k.
RingArrival(n, v, p, q, k, y) ==
  [from |-> q, stage |-> k, src |-> Cell(v, q, y), dst |-> Cell(v, p, y)]

LEMMA RingMeets ==
  ASSUME NEW n \in Nat \ {0, 1}, NEW v, NEW inplace, NEW stages,
         RingOf(stages, n, v, inplace), NEW p \in 0..(n - 1), NEW q \in 0..(n - 1)
  PROVE  Meets(stages, q, p) =
           IF (q + 1) % n = p THEN {<<<<k, 1>>, <<k, 1>>>> : k \in 1..(n - 1)} ELSE {}
<1> DEFINE M == {<<k, 1>> : k \in 1..(n - 1)}
<1>1. /\ Sends(stages, q, p) = IF (q + 1) % n = p THEN M ELSE {}
      /\ Receives(stages, p, q) = IF (q + 1) % n = p THEN M ELSE {}
  BY RingMessages
<1>2. M \in SUBSET Position /\ IsFiniteSet(M)
  <2>1. IsFiniteSet(1..(n - 1))
    BY 1 \in Int, n - 1 \in Int, FS_Interval
  <2>2. IsFiniteSet({1})
    BY FS_Singleton
  <2>3. IsFiniteSet((1..(n - 1)) \X {1})
    BY ONLY <2>1, <2>2, FS_Product
  <2> QED
    BY <2>3, FS_Subset DEF Position
<1>3. \A x, y \in M : Rank(M, x) = Rank(M, y) => x = y
  <2> HIDE DEF M
  <2> QED
    BY <1>2, RankIsOrder
<1>4. CASE (q + 1) % n # p
  <2>1. Sends(stages, q, p) = {}
    BY ONLY <1>1, <1>4
  <2> QED
    BY ONLY <1>4, <2>1 DEF Meets
<1>5. CASE (q + 1) % n = p
  <2>1. Sends(stages, q, p) = M /\ Receives(stages, p, q) = M
    BY ONLY <1>1, <1>5
  <2>2. Meets(stages, q, p) = {m \in M \X M : Rank(M, m[1]) = Rank(M, m[2])}
    <3> HIDE DEF M
    <3> QED
      BY ONLY <2>1 DEF Meets
  <2>3. {m \in M \X M : Rank(M, m[1]) = Rank(M, m[2])} = {<<x, x>> : x \in M}
    <3> HIDE DEF M
    <3> QED
      BY ONLY <1>3
  <2>4. {<<x, x>> : x \in M} = {<<<<k, 1>>, <<k, 1>>>> : k \in 1..(n - 1)}
    OBVIOUS
  <2> QED
    BY ONLY <1>5, <2>2, <2>3, <2>4
<1> QED
  BY <1>4, <1>5

LEMMA RingArrivals ==
  ASSUME NEW n \in Nat \ {0, 1}, NEW v, NEW inplace, NEW stages,
         RingOf(stages, n, v, inplace), NEW p \in 0..(n - 1), NEW k \in 1..(n - 1)
  PROVE  LET q == (p - 1 + n) % n
         IN  Arrivals(stages, p, k) = {RingArrival(n, v, p, q, k, y) : y \in Far(n, v, p, k)}
<1>1. PICK left : left = (p - 1 + n) % n
  OBVIOUS
<1>2. left \in 0..(n - 1) /\ \A q \in 0..(n - 1) : (q + 1) % n = p <=> q = left
  BY <1>1, RingLinks
<1>3. PICK b : b = Gather!RingIn(p, k - 1, n)
  OBVIOUS
<1>4. b \in 0..(n - 1) /\ b = Gather!RingOut(left, k - 1, n)
  BY <1>2, <1>3, RingPasses
<1>5. PICK c : c = v[p].count[b]
  OBVIOUS
<1>6. c \in Nat /\ v[left].count[b] = c
  BY <1>2, <1>4, <1>5 DEF RingOf
<1>7. Far(n, v, p, k) = {<<b, i>> : i \in 1..c}
  <2>1. \A y1 \in 0..(n - 1) : Distance(n, p, y1) = k <=> y1 = b
    BY <1>3, RingDistances
  <2>2. Far(n, v, p, k) = {y \in (0..(n - 1)) \X Nat : y[2] \in 1..v[p].count[y[1]] /\ y[1] = b}
    BY <2>1 DEF Far
  <2> QED
    BY <1>4, <1>5, <1>6, <2>2
<1> DEFINE At(i) == RingArrival(n, v, p, left, k, <<b, i>>)
<1>8. stages[left][k].send[1].cells = Gather!Block(v[left], b)
  <2>1. RingStages(stages[left], n, left, v[left])
    BY <1>2, RingSteps DEF RingOf
  <2>2. PICK peer : peer = (left + 1) % n
    OBVIOUS
  <2>3. stages[left][k].send = <<[to |-> peer, cells |-> Gather!Block(v[left], b)]>>
    BY <1>4, <2>1, <2>2 DEF RingStages
  <2> QED
    BY ONLY <2>3
<1>9. stages[p][k].recv[1].cells = Gather!Block(v[p], b)
  <2>1. RingStages(stages[p], n, p, v[p])
    BY RingSteps DEF RingOf
  <2>2. PICK peer : peer = (p - 1 + n) % n
    OBVIOUS
  <2>3. stages[p][k].recv = <<[from |-> peer, cells |-> Gather!Block(v[p], b)]>>
    BY <1>3, <2>1, <2>2 DEF RingStages
  <2> QED
    BY ONLY <2>3
<1>10. /\ DOMAIN Gather!Block(v[left], b) = 1..c
       /\ \A i \in 1..c : Gather!Block(v[left], b)[i] = Cell(v, left, <<b, i>>)
       /\ \A i \in 1..c : Gather!Block(v[p], b)[i] = Cell(v, p, <<b, i>>)
  <2>1. v[left].count[b] \in Nat /\ v[p].count[b] \in Nat
    BY <1>5, <1>6
  <2>2. /\ DOMAIN Gather!Block(v[left], b) = 1..c
        /\ \A i \in 1..c : Gather!Block(v[left], b)[i] = <<"r", v[left].displ[b] + i - 1>>
    <3>1. PICK w : w = v[left]
      OBVIOUS
    <3>2. w.count[b] \in Nat /\ w.count[b] = c
      BY ONLY <1>6, <3>1
    <3>3. /\ DOMAIN Gather!Block(w, b) = 1..w.count[b]
          /\ \A i \in 1..w.count[b] : Gather!Block(w, b)[i] = <<"r", w.displ[b] + i - 1>>
      BY ONLY <3>2, BlockLength
    <3> QED
      BY ONLY <3>1, <3>2, <3>3
  <2>3. \A i \in 1..c : Gather!Block(v[p], b)[i] = <<"r", v[p].displ[b] + i - 1>>
    BY ONLY <1>5, <2>1, BlockLength
  <2>4. \A q : \A i \in 1..c : Cell(v, q, <<b, i>>) = <<"r", v[q].displ[b] + i - 1>>
    BY DEF Cell
  <2> QED
    BY ONLY <2>2, <2>3, <2>4
<1> DEFINE In(q, m) ==
      LET x == m[1]
          cells == stages[q][x[1]].send[x[2]].cells
      IN  {[from |-> q, stage |-> x[1], src |-> cells[i],
            dst |-> stages[p][k].recv[m[2][2]].cells[i]] : i \in DOMAIN cells}
<1>11. In(left, <<<<k, 1>>, <<k, 1>>>>) = {At(i) : i \in 1..c}
  <2>1. PICK out : out = Gather!Block(v[left], b)
    OBVIOUS
  <2>2. PICK in : in = Gather!Block(v[p], b)
    OBVIOUS
  <2>3. In(left, <<<<k, 1>>, <<k, 1>>>>) =
          {[from |-> left, stage |-> k, src |-> out[i], dst |-> in[i]] : i \in DOMAIN out}
    BY <1>8, <1>9, <2>1, <2>2
  <2>4. \A i \in 1..c : At(i) = [from |-> left, stage |-> k, src |-> out[i], dst |-> in[i]]
    BY <1>10, <2>1, <2>2 DEF RingArrival
  <2>5. DOMAIN out = 1..c
    BY <1>10, <2>1
  <2> HIDE DEF At, In
  <2> QED
    BY ONLY <2>3, <2>4, <2>5
<1>12. ASSUME NEW q \in 0..(n - 1)
       PROVE  {m \in Meets(stages, q, p) : m[2][1] = k} =
                IF q = left THEN {<<<<k, 1>>, <<k, 1>>>>} ELSE {}
  <2>1. Meets(stages, q, p) =
          IF q = left THEN {<<<<h, 1>>, <<h, 1>>>> : h \in 1..(n - 1)} ELSE {}
    BY <1>2, RingMeets
  <2> QED
    BY ONLY k \in 1..(n - 1), <2>1
<1>13. Arrivals(stages, p, k) =
         UNION {UNION {In(q, m) : m \in {m \in Meets(stages, q, p) : m[2][1] = k}} : q \in 0..(n - 1)}
  <2>1. DOMAIN stages = 0..(n - 1)
    BY DEF RingOf
  <2> QED
    BY ONLY <2>1 DEF Arrivals
<1> HIDE DEF In, At
<1>14. Arrivals(stages, p, k) = In(left, <<<<k, 1>>, <<k, 1>>>>)
  <2>1. \A q \in 0..(n - 1) :
          UNION {In(q, m) : m \in {m \in Meets(stages, q, p) : m[2][1] = k}} =
            IF q = left THEN In(left, <<<<k, 1>>, <<k, 1>>>>) ELSE {}
    BY <1>12
  <2> QED
    BY ONLY <1>2, <1>13, <2>1
<1>15. {RingArrival(n, v, p, left, k, y) : y \in Far(n, v, p, k)} = {At(i) : i \in 1..c}
  BY ONLY <1>7 DEF At
<1> QED
  BY <1>1, <1>11, <1>14, <1>15

\* No result of a ring is left to timing.
LEMMA RingDetermines ==
  ASSUME NEW C, NEW n, NEW v, NEW inplace, NEW data, RingGather(C, n, v, inplace, data)
  PROVE  Determines(C, RingFound(C, n, v, data))
<1> DEFINE found == RingFound(C, n, v, data)
           Mem(p, k) == RingMemory(C, n, v, data, p, k)
<1>1. n \in Nat \ {0, 1} /\ RingOf(C.stages, n, v, inplace)
  BY DEF RingGather, RingOf
<1>2. DOMAIN C.stages = 0..(n - 1)
  BY <1>1 DEF RingOf
<1>3. /\ \A p \in 0..(n - 1) : \A k \in 1..(n - 1) : Posted(C, found, p, k) = Mem(p, k)
      /\ \A p \in 0..(n - 1) : \A k \in 1..(n - 1) : found[p][k + 1] = Mem(p, k + 1)
      /\ \A p \in 0..(n - 1) : found[p][1] = C.init[p]
  <2>1. \A k \in 1..(n - 1) : k + 1 \in 1..n /\ k + 1 # 1
    BY <1>1
  <2>2. 1 \in 1..n
    BY <1>1
  <2> QED
    BY <2>1, <2>2, RingPosted DEF RingFound
<1>4. \A p \in 0..(n - 1) : \A k \in 0..n : RingHolds(C, n, v, data, p, k, Mem(p, k))
  BY RingMemoryHolds
<1> HIDE DEF found, Mem
<1>5. ASSUME NEW p \in 0..(n - 1), NEW k \in 1..(n - 1)
      PROVE  LET posted == Posted(C, found, p, k)
                 next == found[p][k + 1]
                 arrivals == Arrivals(C.stages, p, k)
                 send == C.stages[p][k].send
             IN  /\ IsFcn(posted) /\ IsFcn(next)
                 /\ DOMAIN next = DOMAIN posted \cup {a.dst : a \in arrivals}
                 /\ \A x \in DOMAIN posted \ {a.dst : a \in arrivals} : next[x] = posted[x]
                 /\ \A a \in arrivals : next[a.dst] = Posted(C, found, a.from, a.stage)[a.src]
                 /\ \A i \in DOMAIN send : ToSet(send[i].cells) \subseteq DOMAIN posted
                 /\ \A i \in DOMAIN send, a \in arrivals : a.dst \notin ToSet(send[i].cells)
  <2>1. PICK left : left = (p - 1 + n) % n
    OBVIOUS
  <2>2. PICK posted : posted = Mem(p, k)
    OBVIOUS
  <2>3. PICK next : next = Mem(p, k + 1)
    OBVIOUS
  <2>4. PICK arrivals : arrivals = Arrivals(C.stages, p, k)
    OBVIOUS
  <2>5. PICK theirs : theirs = Mem(left, k)
    OBVIOUS
  <2>6. PICK b : b = Gather!RingOut(p, k - 1, n)
    OBVIOUS
  <2>7. left \in 0..(n - 1) /\ (left + 1) % n = p /\ b \in 0..(n - 1)
    <3>1. left \in 0..(n - 1) /\ (left + 1) % n = p
      <4>1. left \in 0..(n - 1)
        BY <1>1, <2>1, RingLinks
      <4>2. (left + 1) % n = p <=> (p - 1 + n) % n = left
        BY ONLY <1>1, <4>1, p \in 0..(n - 1), RingLinks
      <4> QED
        BY <2>1, <4>1, <4>2
    <3>2. (p + 1) % n \in 0..(n - 1)
      BY <1>1, RingLinks
    <3> QED
      BY <1>1, <2>6, <3>1, <3>2, RingPasses
  <2>8. k \in 0..n /\ k + 1 \in 0..n /\ k < n
    BY <1>1
  <2> DEFINE N == Near(n, v, p, k)
             F == Far(n, v, p, k)
  <2>9. Near(n, v, p, k + 1) = N \cup F /\ N \cup F \subseteq Near(n, v, p, n)
    BY <1>1, <2>8, NearFar
  <2>10. RingHolds(C, n, v, data, p, k, posted) /\ RingHolds(C, n, v, data, p, k + 1, next)
    BY <1>4, <2>2, <2>3, <2>8
  <2>11. RingHolds(C, n, v, data, left, k, theirs)
    BY <1>4, <2>5, <2>7, <2>8
  <2>12. arrivals = {RingArrival(n, v, p, left, k, y) : y \in F}
    BY <1>1, <2>1, <2>4, RingArrivals
  <2>13. \A y \in F : /\ RingArrival(n, v, p, left, k, y).dst = Cell(v, p, y)
                       /\ RingArrival(n, v, p, left, k, y).src = Cell(v, left, y)
                       /\ RingArrival(n, v, p, left, k, y).from = left
                       /\ RingArrival(n, v, p, left, k, y).stage = k
    BY DEF RingArrival
  <2>14. \A y, z \in N \cup F : Cell(v, p, y) = Cell(v, p, z) => y = z
    BY <2>9 DEF RingGather
  <2>15. \A y \in F : y \in Near(n, v, left, k)
    <3>1. \A c \in 0..(n - 1) : Distance(n, p, c) = k => Distance(n, left, c) = k - 1
      <4> SUFFICES ASSUME NEW c \in 0..(n - 1), Distance(n, p, c) = k
                   PROVE  Distance(n, left, c) = k - 1
        OBVIOUS
      <4>1. c = Gather!RingIn(p, k - 1, n)
        BY <1>1, RingDistances
      <4>2. c = Gather!RingOut(left, k - 1, n)
        BY <1>1, <2>7, <4>1, RingPasses
      <4> QED
        BY <1>1, <2>7, <4>2, RingDistances
    <3>2. \A c \in 0..(n - 1) : v[p].count[c] = v[left].count[c]
      BY <2>7 DEF RingGather, RingOf
    <3>3. k - 1 < k
      OBVIOUS
    <3> QED
      BY <3>1, <3>2, <3>3 DEF Far, Near
  <2>16. {a.dst : a \in arrivals} = {Cell(v, p, y) : y \in F}
    BY <2>12, <2>13
  <2>17. C.stages[p][k].send = <<[to |-> (p + 1) % n, cells |-> Gather!Block(v[p], b)]>>
    <3>1. RingStages(C.stages[p], n, p, v[p])
      BY <1>1, RingSteps DEF RingOf
    <3> QED
      BY <2>6, <3>1 DEF RingStages
  <2>18. \A x \in ToSet(Gather!Block(v[p], b)) : \E y \in N : x = Cell(v, p, y) /\ y \notin F
    <3> SUFFICES ASSUME NEW x \in ToSet(Gather!Block(v[p], b))
                 PROVE  \E y \in N : x = Cell(v, p, y) /\ y \notin F
      OBVIOUS
    <3>1. v[p].count[b] \in Nat
      BY <2>7 DEF RingGather, RingOf
    <3>2. PICK i \in 1..v[p].count[b] : x = <<"r", v[p].displ[b] + i - 1>>
      <4>1. PICK s : s = Gather!Block(v[p], b)
        OBVIOUS
      <4>2. DOMAIN s = 1..v[p].count[b] /\ \A i \in 1..v[p].count[b] : s[i] = <<"r", v[p].displ[b] + i - 1>>
        BY ONLY <3>1, <4>1, BlockLength
      <4>3. PICK i \in DOMAIN s : x = s[i]
        BY <4>1 DEF ToSet
      <4> QED
        BY ONLY <4>2, <4>3
    <3>3. Distance(n, p, b) = k - 1
      <4>1. \A d \in 0..(n - 1) : Distance(n, p, d) = k - 1 <=> d = Gather!RingOut(p, k - 1, n)
        BY ONLY <1>1, p \in 0..(n - 1), k \in 1..(n - 1), RingDistances
      <4> QED
        BY ONLY <2>6, <2>7, <4>1
    <3>4. k - 1 < k /\ k - 1 # k /\ i \in Nat
      BY <3>1
    <3>5. <<b, i>> \in N /\ <<b, i>> \notin F
      BY <2>7, <3>2, <3>3, <3>4 DEF Near, Far
    <3>6. x = Cell(v, p, <<b, i>>)
      BY <3>2 DEF Cell
    <3> QED
      BY ONLY <3>5, <3>6
  <2> HIDE DEF N, F
  <2>19. IsFcn(posted) /\ IsFcn(next)
    BY <2>10 DEF RingHolds
  <2>20. DOMAIN next = DOMAIN posted \cup {a.dst : a \in arrivals}
    <3>1. DOMAIN posted = DOMAIN C.init[p] \cup {Cell(v, p, y) : y \in N}
      BY <2>10 DEF RingHolds, N
    <3>2. DOMAIN next = DOMAIN C.init[p] \cup {Cell(v, p, y) : y \in N \cup F}
      BY <2>9, <2>10 DEF RingHolds
    <3> QED
      BY ONLY <2>16, <3>1, <3>2
  <2>21. ASSUME NEW x \in DOMAIN posted \ {a.dst : a \in arrivals} PROVE next[x] = posted[x]
    <3>1. \A y \in F : x # Cell(v, p, y)
      BY <2>16
    <3>2. CASE \E y \in N : x = Cell(v, p, y)
      <4>1. PICK y \in N : x = Cell(v, p, y)
        BY <3>2
      <4> QED
        BY <2>9, <2>10, <4>1 DEF RingHolds, N
    <3>3. CASE \A y \in N : x # Cell(v, p, y)
      <4>1. \A y \in Near(n, v, p, k + 1) : x # Cell(v, p, y)
        BY <2>9, <3>1, <3>3
      <4> QED
        BY <2>10, <2>20, <3>3, <4>1 DEF RingHolds, N
    <3> QED
      BY <3>2, <3>3
  <2>22. ASSUME NEW a \in arrivals
         PROVE  next[a.dst] = Posted(C, found, a.from, a.stage)[a.src]
    <3>1. PICK y \in F : a = RingArrival(n, v, p, left, k, y)
      BY <2>12
    <3>2. next[Cell(v, p, y)] = data[y[1]][y[2]]
      BY <2>9, <2>10, <3>1 DEF RingHolds
    <3>3. theirs[Cell(v, left, y)] = data[y[1]][y[2]]
      BY <2>11, <2>15, <3>1 DEF RingHolds
    <3>4. Posted(C, found, left, k) = theirs
      BY <1>3, <2>5, <2>7
    <3> QED
      BY <2>13, <3>1, <3>2, <3>3, <3>4
  <2>23. ToSet(Gather!Block(v[p], b)) \subseteq DOMAIN posted
    BY <2>10, <2>18 DEF RingHolds, N
  <2>24. \A a \in arrivals : a.dst \notin ToSet(Gather!Block(v[p], b))
    BY <2>14, <2>16, <2>18
  <2>25. \A i \in DOMAIN C.stages[p][k].send :
           C.stages[p][k].send[i].cells = Gather!Block(v[p], b)
    BY <2>17
  <2>26. Posted(C, found, p, k) = posted /\ found[p][k + 1] = next
    BY <1>3, <2>2, <2>3
  <2> QED
    BY ONLY <2>4, <2>19, <2>20, <2>21, <2>22, <2>23, <2>24, <2>25, <2>26
<1>6. ASSUME NEW p \in 0..(n - 1)
      PROVE  /\ DOMAIN C.stages[p] = 1..(n - 1) /\ Len(C.stages[p]) = n - 1
             /\ \A x \in DOMAIN C.goal[p] : found[p][n][x] = C.goal[p][x]
  <2>1. RingStages(C.stages[p], n, p, v[p])
    BY <1>1, RingSteps DEF RingOf
  <2>2. DOMAIN C.stages[p] = 1..(n - 1) /\ Len(C.stages[p]) = n - 1
    BY <1>1, <2>1, IndexedIsSequence DEF RingStages
  <2>3. found[p][n] = Mem(p, n)
    <3>1. n - 1 \in 1..(n - 1) /\ (n - 1) + 1 = n
      BY <1>1
    <3> QED
      BY <1>3, <3>1
  <2>4. RingHolds(C, n, v, data, p, n, Mem(p, n))
    BY <1>1, <1>4, n \in 0..n
  <2>5. ASSUME NEW x \in DOMAIN C.goal[p] PROVE found[p][n][x] = C.goal[p][x]
    <3>1. PICK y \in Near(n, v, p, n) : x = Cell(v, p, y) /\ C.goal[p][x] = data[y[1]][y[2]]
      BY DEF RingGather
    <3> QED
      BY <2>3, <2>4, <3>1 DEF RingHolds
  <2> QED
    BY <2>2, <2>5
<1>7. \A p \in 0..(n - 1) : Len(C.stages[p]) + 1 = n
  BY <1>1, <1>6
<1>8. Determines(C, found)
  <2> SUFFICES ASSUME NEW p \in 0..(n - 1)
               PROVE  /\ \A k \in DOMAIN C.stages[p] :
                           LET posted == Posted(C, found, p, k)
                               next == found[p][k + 1]
                               arrivals == Arrivals(C.stages, p, k)
                               send == C.stages[p][k].send
                           IN  /\ IsFcn(posted) /\ IsFcn(next)
                               /\ DOMAIN next = DOMAIN posted \cup {a.dst : a \in arrivals}
                               /\ \A x \in DOMAIN posted \ {a.dst : a \in arrivals} : next[x] = posted[x]
                               /\ \A a \in arrivals : next[a.dst] = Posted(C, found, a.from, a.stage)[a.src]
                               /\ \A i \in DOMAIN send : ToSet(send[i].cells) \subseteq DOMAIN posted
                               /\ FALSE \in C.eager =>
                                    \A i \in DOMAIN send, a \in arrivals :
                                      a.dst \in ToSet(send[i].cells) =>
                                        next[a.dst] = posted[a.dst] \/ Answers(C.stages, p, k, i, a)
                      /\ LET last == found[p][Len(C.stages[p]) + 1]
                         IN  \A x \in DOMAIN C.goal[p] :
                               IF C.ordered THEN last[x] = C.goal[p][x]
                               ELSE Len(last[x]) = Len(C.goal[p][x]) /\ ToSet(last[x]) = ToSet(C.goal[p][x])
    BY <1>2, <1>3 DEF Determines
  <2>1. DOMAIN C.stages[p] = 1..(n - 1)
    BY <1>6
  <2>2. \A x \in DOMAIN C.goal[p] : found[p][Len(C.stages[p]) + 1][x] = C.goal[p][x]
    BY <1>6, <1>7
  <2> DEFINE Fine(k) ==
        LET posted == Posted(C, found, p, k)
            next == found[p][k + 1]
            arrivals == Arrivals(C.stages, p, k)
            send == C.stages[p][k].send
        IN  /\ IsFcn(posted) /\ IsFcn(next)
            /\ DOMAIN next = DOMAIN posted \cup {a.dst : a \in arrivals}
            /\ \A x \in DOMAIN posted \ {a.dst : a \in arrivals} : next[x] = posted[x]
            /\ \A a \in arrivals : next[a.dst] = Posted(C, found, a.from, a.stage)[a.src]
            /\ \A i \in DOMAIN send : ToSet(send[i].cells) \subseteq DOMAIN posted
            /\ FALSE \in C.eager =>
                 \A i \in DOMAIN send, a \in arrivals :
                   a.dst \in ToSet(send[i].cells) =>
                     next[a.dst] = posted[a.dst] \/ Answers(C.stages, p, k, i, a)
  <2>3. ASSUME NEW k \in 1..(n - 1) PROVE Fine(k)
    <3>1. PICK posted : posted = Posted(C, found, p, k)
      OBVIOUS
    <3>2. PICK next : next = found[p][k + 1]
      OBVIOUS
    <3>3. PICK arrivals : arrivals = Arrivals(C.stages, p, k)
      OBVIOUS
    <3>4. PICK send : send = C.stages[p][k].send
      OBVIOUS
    <3>5. /\ IsFcn(posted) /\ IsFcn(next)
          /\ DOMAIN next = DOMAIN posted \cup {a.dst : a \in arrivals}
          /\ \A x \in DOMAIN posted \ {a.dst : a \in arrivals} : next[x] = posted[x]
      BY <1>5, <3>1, <3>2, <3>3, <3>4
    <3>6. /\ \A a \in arrivals : next[a.dst] = Posted(C, found, a.from, a.stage)[a.src]
          /\ \A i \in DOMAIN send : ToSet(send[i].cells) \subseteq DOMAIN posted
      BY <1>5, <3>1, <3>2, <3>3, <3>4
    <3>7. \A i \in DOMAIN send, a \in arrivals : a.dst \notin ToSet(send[i].cells)
      BY <1>5, <3>1, <3>2, <3>3, <3>4
    <3> QED
      BY ONLY <3>1, <3>2, <3>3, <3>4, <3>5, <3>6, <3>7
  <2>4. \A k \in DOMAIN C.stages[p] : Fine(k)
    BY ONLY <2>1, <2>3
  <2> QED
    BY ONLY <2>2, <2>4
<1> QED
  BY <1>8 DEF found

\* An allgatherv by ring gives every member all blocks, whatever the number of the
\* members, the sizes of the blocks and the places they are to have: each
\* receive gets the message it is posted for, no block is overwritten before it
\* was sent on, and no message is left.
THEOREM RingIsCorrect ==
  ASSUME \A C \in Collectives : \E n, v, inplace, data : RingGather(C, n, v, inplace, data)
  PROVE  Spec => [](ResultCorrect /\ NoCrossMatch /\ NothingLeft)
<1>1. coll \in Collectives => DataIsDetermined /\ SchedulesPaired
  <2> SUFFICES ASSUME coll \in Collectives
               PROVE  Paired(Stages) /\ \E found : Determines(coll, found)
    BY DEF DataIsDetermined, SchedulesPaired
  <2>1. PICK C : C = coll
    OBVIOUS
  <2>2. PICK n, v, inplace, data : RingGather(C, n, v, inplace, data)
    BY <2>1
  <2>3. n \in Nat \ {0, 1} /\ RingOf(C.stages, n, v, inplace)
    BY <2>2 DEF RingGather, RingOf
  <2>4. Paired(C.stages)
    BY <2>3, RingPaired
  <2>5. Determines(C, RingFound(C, n, v, data))
    BY <2>2, RingDetermines
  <2> QED
    BY <2>1, <2>4, <2>5 DEF Stages
<1>2. Init => coll \in Collectives
  BY DEF Init
<1>3. coll \in Collectives /\ [Next]_vars => (coll \in Collectives)'
  BY ScheduleStays
<1>4. Spec => [](DataIsDetermined /\ SchedulesPaired)
  BY <1>1, <1>2, <1>3, PTL DEF Spec
<1>5. DataInv => ResultCorrect
  BY DeterminedIsCorrect
<1> QED
  BY <1>4, <1>5, DataInvariance, NoCrossMatchCorrect, NothingLeftCorrect, PTL

-----------------------------------------------------------------------------
(* The abstract barrier *)

\* Whom p knows of at a stage it has reached in its c-th barrier has entered it.
Informed ==
  \A p \in Procs, c \in Index : \A k \in 1..(Len(Stages[p]) + 1) :
    k <= at[p][c] => \A w \in Procs : w \in Known(Stages)[p][k] => c <= started[w]

BarrierInv == IInv /\ Tells(Stages, Known(Stages)) /\ Informed

LEMMA InitBarrierInv == Init /\ SchedulesInform => BarrierInv
<1> SUFFICES ASSUME Init, SchedulesInform PROVE BarrierInv
  OBVIOUS
<1>1. AllIdle
  BY DEF Init, AllIdle
<1>2. IInv
  BY <1>1, InitIInv DEF SchedulesInform, SchedulesPaired
<1>3. Informed
  BY DEF Init, Informed
<1> QED
  BY <1>1, <1>2, <1>3 DEF SchedulesInform, BarrierInv

\* A member that has the messages of a stage: their senders had posted them.
LEMMA SourcesPosted ==
  ASSUME IInv, NEW p \in Procs, NEW c \in Index, NEW k \in 1..at[p][c], RecvsDone(p, c),
         NEW s \in Sources(Stages, p, k)
  PROVE  /\ s[1] \in Procs /\ s[2] \in DOMAIN Stages[s[1]] /\ s[2] \in Nat
         /\ s[2] <= at[s[1]][c]
<1>1. PICK q \in Procs : \E x \in ToSend(q, p) : \E y \in ToReceive(p, q) :
        /\ s = <<q, x[1]>> /\ y[1] = k
        /\ Rank(ToSend(q, p), x) = Rank(ToReceive(p, q), y)
  BY DEF Sources, ToSend, ToReceive, Procs
<1>2. PICK x \in ToSend(q, p), y \in ToReceive(p, q) :
        /\ s = <<q, x[1]>> /\ y[1] = k
        /\ Rank(ToSend(q, p), x) = Rank(ToReceive(p, q), y)
  BY <1>1
<1> DEFINE S == ToSend(q, p)
           R == ToReceive(p, q)
<1>3. coll \in Collectives
  BY DEF IInv, Shape
<1>4. y \in MatchedReceives(p, q, c)
  <2>1. y \notin Open(expected[p], q, c)
    BY DEF RecvsDone, Open, Entries
  <2> QED
    BY <1>2, <2>1 DEF MatchedReceives
<1>5. Rank(S, x) \in {Rank(S, z) : z \in MatchedSends(q, p, c)}
  <2>1. {Rank(S, z) : z \in MatchedSends(q, p, c)} = {Rank(R, z) : z \in MatchedReceives(p, q, c)}
    BY DEF IInv, SameRanks
  <2> HIDE DEF S, R
  <2> QED
    BY <1>2, <1>4, <2>1 DEF S, R
<1>6. PICK z \in MatchedSends(q, p, c) : Rank(S, z) = Rank(S, x)
  BY <1>5
<1>7. S \in SUBSET Position /\ IsFiniteSet(S) /\ z \in S /\ x \in S
  BY <1>2, <1>3, ToSendShape DEF MatchedSends
<1>8. z = x
  <2> HIDE DEF S
  <2> QED
    BY <1>6, <1>7, RankIsOrder
<1>9. x[1] <= at[q][c]
  BY <1>8 DEF MatchedSends
<1>10. x[1] \in Nat /\ x[1] \in DOMAIN Stages[q]
  BY <1>2, <1>3, SendAt
<1> QED
  BY <1>2, <1>9, <1>10

LEMMA NextInformed ==
  ASSUME BarrierInv, [Next]_vars
  PROVE  Informed'
<1>1. /\ IInv /\ IInv' /\ coll \in Collectives /\ coll' = coll
      /\ Procs' = Procs /\ Stages' = Stages /\ Index' = Index
  BY ScheduleStays, NextIInv DEF BarrierInv, IInv, Shape
<1>2. started \in [Procs -> Nat] /\ at \in [Procs -> [Index -> Nat]]
  BY DEF BarrierInv, IInv, Shape
<1>3. \A p \in Procs : Len(Stages[p]) \in Nat /\ DOMAIN Stages[p] = 1..Len(Stages[p])
  BY <1>1, ScheduleShape, SequenceDomain
<1>4. \A c \in Index : c \in Nat
  BY <1>1, ScheduleShape DEF Index
<1>5. /\ DOMAIN Stages = Procs
      /\ \A p \in Procs :
           /\ Known(Stages)[p][1] \subseteq {p}
           /\ \A k \in DOMAIN Stages[p] :
                Known(Stages)[p][k + 1] \subseteq
                  Known(Stages)[p][k] \cup UNION {Known(Stages)[s[1]][s[2]] : s \in Sources(Stages, p, k)}
  BY DEF BarrierInv, Tells, Procs
<1>6. ASSUME NEW p \in Procs, NEW c \in Index
      PROVE  /\ started[p] <= started'[p]
             /\ \/ at'[p][c] = at[p][c]
                \/ /\ at'[p][c] = at[p][c] + 1 /\ c <= started'[p]
                   /\ at[p][c] # 0 => RecvsDone(p, c)
  <2>1. CASE \E q \in Procs : Start(q)
    <3>1. PICK q \in Procs : Start(q)
      BY <2>1
    <3>2. started' = [started EXCEPT ![q] = @ + 1]
      BY <3>1 DEF Start
    <3>3. at' = [at EXCEPT ![q][started[q] + 1] = 1]
      BY <3>1 DEF Start, PostStage
    <3>4. p = q => at[p][started[p] + 1] = 0 \/ started[p] + 1 \notin Index
      BY <1>2 DEF BarrierInv, IInv, Shape
    <3> QED
      BY <1>2, <1>4, <3>2, <3>3, <3>4
  <2>2. CASE \E q \in Procs, d \in Index : Advance(q, d)
    <3>1. PICK q \in Procs, d \in Index : Advance(q, d)
      BY <2>2
    <3>2. started' = started /\ d <= started[q] /\ RecvsDone(q, d)
      BY <1>2, <3>1 DEF Advance, Running, StageDone
    <3>3. at' = [at EXCEPT ![q][d] = at[q][d] + 1]
      BY <3>1 DEF Advance, PostStage
    <3> QED
      BY <1>2, <1>4, <3>2, <3>3
  <2>3. CASE \E q \in Procs : MatchSome(q)
    BY <1>2, <2>3 DEF MatchSome, Match
  <2>4. CASE UNCHANGED vars
    BY <1>2, <2>4 DEF vars
  <2> QED
    BY <2>1, <2>2, <2>3, <2>4 DEF Next
<1>7. SUFFICES ASSUME NEW p \in Procs, NEW c \in Index, NEW k \in 1..(Len(Stages[p]) + 1),
                      k <= at'[p][c], NEW w \in Procs, w \in Known(Stages)[p][k]
               PROVE  c <= started'[w]
  BY <1>1 DEF Informed
<1>8. \A q \in Procs : \A j \in 1..(Len(Stages[q]) + 1) :
        j <= at[q][c] /\ w \in Known(Stages)[q][j] => c <= started'[w]
  <2> SUFFICES ASSUME NEW q \in Procs, NEW j \in 1..(Len(Stages[q]) + 1),
                      j <= at[q][c], w \in Known(Stages)[q][j]
               PROVE  c <= started'[w]
    OBVIOUS
  <2>1. c <= started[w]
    BY DEF BarrierInv, Informed
  <2>2. started[w] \in Nat /\ started'[w] \in Nat /\ started[w] <= started'[w]
    BY <1>1, <1>2, <1>6 DEF IInv, Shape
  <2> QED
    BY <1>4, <2>1, <2>2
<1>9. CASE k <= at[p][c]
  BY <1>7, <1>8, <1>9
<1>10. CASE ~(k <= at[p][c])
  <2>1. at[p][c] \in Nat /\ k = at[p][c] + 1 /\ c <= started'[p] /\ (at[p][c] # 0 => RecvsDone(p, c))
    BY <1>2, <1>3, <1>6, <1>7, <1>10
  <2>2. CASE at[p][c] = 0
    BY <1>5, <1>7, <2>1, <2>2
  <2>3. CASE at[p][c] # 0
    <3> DEFINE j == at[p][c]
    <3>1. j \in DOMAIN Stages[p] /\ j \in 1..(Len(Stages[p]) + 1) /\ k = j + 1 /\ j \in 1..j
      BY <1>3, <2>1, <2>3
    <3>2. w \in Known(Stages)[p][j] \/
            \E s \in Sources(Stages, p, j) : w \in Known(Stages)[s[1]][s[2]]
      BY <1>5, <1>7, <3>1
    <3>3. CASE w \in Known(Stages)[p][j]
      BY <1>8, <2>1, <3>1, <3>3
    <3>4. ASSUME NEW s \in Sources(Stages, p, j), w \in Known(Stages)[s[1]][s[2]]
          PROVE  c <= started'[w]
      <4>1. /\ s[1] \in Procs /\ s[2] \in DOMAIN Stages[s[1]] /\ s[2] \in Nat
            /\ s[2] <= at[s[1]][c]
        BY <1>1, <2>1, <2>3, <3>1, SourcesPosted
      <4>2. s[2] \in 1..(Len(Stages[s[1]]) + 1)
        BY <1>3, <4>1
      <4> QED
        BY <1>8, <3>4, <4>1, <4>2
    <3> QED
      BY <3>2, <3>3, <3>4
  <2> QED
    BY <2>2, <2>3
<1> QED
  BY <1>9, <1>10

LEMMA NextBarrierInv ==
  ASSUME BarrierInv, [Next]_vars
  PROVE  BarrierInv'
<1>1. Stages' = Stages
  BY ScheduleStays
<1> QED
  BY <1>1, NextIInv, NextInformed DEF BarrierInv

LEMMA InitBarrier ==
  ASSUME Init, BarrierInv
  PROVE  B!Init
<1>1. /\ \A c \in Index : c > 0
      /\ \A p \in Procs : started[p] = 0
  BY ScheduleShape DEF Init, Index
<1>2. \A p \in Procs : 1..started[p] = {}
  BY <1>1
<1>3. \A p \in Procs : {c \in Index : Done(p, c)} = {}
  BY <1>1 DEF Done, Index
<1> QED
  BY <1>2, <1>3 DEF B!Init

\* Starting a collective enters its barrier, posting nothing after the last
\* stage leaves it, and the other steps are none of the barrier.
LEMMA StepBarrier ==
  ASSUME BarrierInv, [Next]_vars
  PROVE  [B!Next]_(B!vars)
<1>1. /\ IInv /\ coll \in Collectives /\ coll' = coll
      /\ Procs' = Procs /\ Stages' = Stages /\ Index' = Index
  BY ScheduleStays DEF BarrierInv, IInv, Shape
<1>2. started \in [Procs -> Nat] /\ at \in [Procs -> [Index -> Nat]] /\ coll.times \in Nat
  BY <1>1, ScheduleShape DEF IInv, Shape
<1>3. \A p \in Procs : Len(Stages[p]) \in Nat /\ Len(Stages[p]) > 0
  <2> TAKE p \in Procs
  <2>1. Sequence(Stages[p]) /\ Stages[p] # <<>>
    BY <1>1, ScheduleShape DEF BarrierInv, Tells, Procs
  <2>2. Len(Stages[p]) \in Nat
    BY <2>1, SequenceDomain
  <2> QED
    BY <2>1, <2>2 DEF Sequence
<1> DEFINE entered == [p \in Procs |-> 1..started[p]]
           left == [p \in Procs |-> {c \in Index : Done(p, c)}]
<1>4. /\ Index \in SUBSET Starts
      /\ \A c \in Index : c \in Nat
  BY <1>1, <1>2 DEF Starts, Index
<1>5. ASSUME started' = started, at' = at PROVE entered' = entered /\ left' = left
  BY <1>1, <1>5 DEF Done
<1>6. ASSUME NEW p \in Procs, Start(p) PROVE B!Next
  <2>1. PICK b \in Index : b = started[p] + 1
    BY <1>2, <1>6 DEF Start, Index
  <2>2. started' = [started EXCEPT ![p] = b] /\ at' = [at EXCEPT ![p][b] = 1]
    BY <1>6, <2>1 DEF Start, PostStage
  <2>3. b \notin entered[p] /\ entered' = [entered EXCEPT ![p] = @ \cup {b}]
    <3>1. 1..b = (1..started[p]) \cup {b} /\ b \notin 1..started[p]
      BY <1>2, <2>1
    <3>2. entered' = [q \in Procs |-> IF q = p THEN 1..b ELSE 1..started[q]]
      BY <1>1, <1>2, <2>2
    <3> QED
      BY <3>1, <3>2
  <2>4. left' = left
    <3>1. ASSUME NEW q \in Procs, NEW c \in Index PROVE Done(q, c)' <=> Done(q, c)
      <4>1. CASE q = p /\ c = b
        <5>1. at'[q][c] = 1 /\ ~(c <= started[q])
          BY <1>2, <2>1, <2>2, <4>1
        <5> QED
          BY <1>1, <1>3, <5>1 DEF Done
      <4>2. CASE ~(q = p /\ c = b)
        <5>1. at'[q][c] = at[q][c]
          BY <1>2, <2>2, <4>2
        <5>2. c <= started'[q] <=> c <= started[q]
          <6>1. CASE q = p
            <7>1. started'[q] = started[q] + 1 /\ c # started[q] + 1
              BY <1>2, <2>1, <2>2, <4>2, <6>1
            <7> QED
              BY <1>2, <1>4, <7>1
          <6>2. CASE q # p
            BY <1>2, <2>2, <6>2
          <6> QED
            BY <6>1, <6>2
        <5> QED
          BY <1>1, <5>1, <5>2 DEF Done
      <4> QED
        BY <4>1, <4>2
    <3> QED
      BY <1>1, <3>1
  <2>5. B!Enter(p, b)
    BY <1>1, <2>3, <2>4 DEF B!Enter
  <2> QED
    BY <1>4, <2>1, <2>5 DEF B!Next
<1>7. ASSUME NEW p \in Procs, NEW b \in Index, Advance(p, b) PROVE B!Next \/ UNCHANGED B!vars
  <2>1. /\ started' = started /\ at' = [at EXCEPT ![p][b] = at[p][b] + 1]
        /\ b \in 1..started[p] /\ ~Done(p, b) /\ b \in Nat
        /\ at[p][b] \in Nat /\ at[p][b] <= Len(Stages[p])
    BY <1>2, <1>3, <1>4, <1>7 DEF Advance, PostStage, Running, Done
  <2>2. entered' = entered
    BY <1>1, <2>1
  <2>3. ASSUME NEW q \in Procs, NEW c \in Index, ~(q = p /\ c = b) PROVE Done(q, c)' <=> Done(q, c)
    <3>1. at'[q][c] = at[q][c]
      BY <1>2, <2>1, <2>3
    <3> QED
      BY <1>1, <2>1, <3>1 DEF Done
  <2>4. at'[p][b] = at[p][b] + 1
    BY <1>2, <2>1
  <2>5. CASE at[p][b] < Len(Stages[p])
    <3>1. ~Done(p, b)'
      BY <1>1, <1>3, <2>1, <2>4, <2>5 DEF Done
    <3>2. left' = left
      BY <1>1, <2>1, <2>3, <3>1
    <3> QED
      BY <1>1, <2>2, <3>2 DEF B!vars
  <2>6. CASE at[p][b] = Len(Stages[p])
    <3> DEFINE last == Len(Stages[p]) + 1
    <3>1. Done(p, b)'
      BY <1>1, <1>3, <2>1, <2>4, <2>6 DEF Done
    <3>2. left' = [left EXCEPT ![p] = @ \cup {b}]
      BY <1>1, <2>3, <3>1
    <3>3. ASSUME NEW q \in Procs PROVE b <= started[q]
      <4>1. Informed' /\ last \in 1..last /\ last <= at'[p][b]
        BY <1>3, <2>4, <2>6, NextInformed
      <4>2. q \in Known(Stages)[p][last]
        BY DEF BarrierInv, Tells, Procs
      <4> QED
        BY <1>1, <2>1, <4>1, <4>2 DEF Informed
    <3>4. b \in entered[p] \ left[p] /\ \A q \in Procs : b \in entered[q]
      BY <1>2, <2>1, <3>3
    <3>5. B!Leave(p, b)
      BY <1>1, <2>2, <3>2, <3>4 DEF B!Leave
    <3> QED
      BY <1>4, <3>5 DEF B!Next
  <2> QED
    BY <1>3, <2>1, <2>5, <2>6
<1>8. ASSUME NEW p \in Procs, MatchSome(p) PROVE UNCHANGED B!vars
  BY <1>1, <1>5, <1>8 DEF MatchSome, Match, B!vars
<1>9. CASE UNCHANGED vars
  BY <1>1, <1>5, <1>9 DEF vars, B!vars
<1> QED
  BY <1>6, <1>7, <1>8, <1>9 DEF Next

\* When the schedules of the members fit together and every member ends with a
\* chain of messages from every other, no member leaves a barrier before all
\* have entered it, however the barriers overlap and request ids wrap around.
THEOREM ImplementsBarrierCorrect == Spec /\ []SchedulesInform => ImplementsBarrier
<1>1. Init /\ SchedulesInform => BarrierInv
  BY InitBarrierInv
<1>2. BarrierInv /\ [Next]_vars => BarrierInv'
  BY NextBarrierInv
<1>3. Init /\ BarrierInv => B!Init
  BY InitBarrier
<1>4. BarrierInv /\ [Next]_vars => [B!Next]_(B!vars)
  BY StepBarrier
<1> QED
  BY <1>1, <1>2, <1>3, <1>4, PTL DEF Spec, ImplementsBarrier, B!Spec
=============================================================================
