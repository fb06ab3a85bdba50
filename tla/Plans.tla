------------------------------- MODULE Plans --------------------------------
(***************************************************************************)
(* The plan container of a group (core/ucg_plan.c): for one collective and *)
(* one memory type, a list of first-class plans sorted by the range of     *)
(* message sizes they serve, each with a list of fallback plans sorted by  *)
(* score.  Plan components add plans whose ranges overlap in any way; the  *)
(* container splits plans at each other's borders, orders the plans of     *)
(* each piece and joins neighbouring pieces that have become equal.        *)
(*                                                                         *)
(* The three loops of an add (normalise, add, compact) are taken one       *)
(* iteration at a time, because every split may fail to allocate.  `exist' *)
(* is the position of the iterator in the list `head' the loops work on:   *)
(* the container's own list for ucg_plans_add, a new one for               *)
(* ucg_plans_merge.                                                        *)
(*                                                                         *)
(* A plan's prepare function stands for the pair (prepare, vgroup): a      *)
(* prepare function belongs to one plan component and a group has one      *)
(* vgroup per component.  Names, domains and ids only appear in logs.      *)
(***************************************************************************)
EXTENDS Integers, Sequences, SequencesExt, FiniteSetsExt, Bags

CONSTANTS
    Containers,     \* plan containers
    Target,         \* the container that others are merged into
    Kinds,          \* pairs of a prepare function and a score that plans have
    MaxSize,        \* message sizes are 0..MaxSize-1
    MaxAdds,        \* bound: plans added over all containers
    MaxMerges       \* bound: merges of containers

ASSUME PlansAssumption ==
    /\ Target \in Containers
    /\ MaxSize \in Nat \ {0}
    /\ \A k \in Kinds : k[2] \in Nat
    /\ MaxAdds \in Nat
    /\ MaxMerges \in Nat

VARIABLES
    list,     \* container -> its list of first-class plans
    pc,       \* "idle", or the loop that runs
    what,     \* the call that runs: "add" or "merge", its container, its input
    head,     \* the list the loops work on
    new,      \* new_head: the pieces of the plan that is being added
    exist,    \* position of exist_plan, or of plan in the compact loop
    todo,     \* plans of the source that a merge has still to add
    want,     \* history: container -> size -> bag of plans added for that size
    adds,     \* plans added so far
    merges    \* merges so far

vars == <<list, pc, what, head, new, exist, todo, want, adds, merges>>

Sizes == 0 .. MaxSize - 1

Prepares == {k[1] : k \in Kinds}

Attr == {[prepare |-> k[1], score |-> k[2], lo |-> r[1], hi |-> r[2]] :
            k \in Kinds, r \in (0 .. MaxSize) \X (0 .. MaxSize)}

Key(p) == <<p.prepare, p.score>>

NoOp == [kind |-> "none"]

-----------------------------------------------------------------------------
(* Operators on plans. A first-class plan has a list of fallbacks fb. *)

\* ucg_plan_create
NewPlan(a) ==
    [prepare |-> a.prepare, score |-> a.score, lo |-> a.lo, hi |-> a.hi, fb |-> <<>>]

\* ucg_plan_attr_check
Valid(a) == a.lo < a.hi

\* A fallback has no fallbacks of its own.
AsFallback(p) == [prepare |-> p.prepare, score |-> p.score, lo |-> p.lo, hi |-> p.hi]

\* Insert before the first fallback with a lower score, or at the end.
InsertFallback(fbs, f) ==
    LET lower == {i \in DOMAIN fbs : f.score > fbs[i].score}
    IN  IF lower = {} THEN Append(fbs, f) ELSE InsertAt(fbs, Min(lower), f)

\* The fallbacks of q go to p one by one, then q itself.
AddFallback(p, q) ==
    [p EXCEPT !.fb = InsertFallback(FoldLeft(InsertFallback, @, q.fb), AsFallback(q))]

\* Where p1 has to be split because of p2; 0 if it has not.
SplitPos(p1, p2) ==
    IF p2.lo > p1.lo /\ p2.lo < p1.hi THEN p2.lo
    ELSE IF p2.hi > p1.lo /\ p2.hi < p1.hi THEN p2.hi
    ELSE 0

\* The two halves of a split: plan and fallbacks.
LowerPart(p, mid) ==
    [p EXCEPT !.hi = mid, !.fb = [i \in DOMAIN @ |-> [@[i] EXCEPT !.hi = mid]]]

\* Mutant: the fallbacks of the new plan keep their range.
UpperPart_NoFallback(p, mid) == [p EXCEPT !.lo = mid]

UpperPart(p, mid) ==
    [p EXCEPT !.lo = mid, !.fb = [i \in DOMAIN @ |-> [@[i] EXCEPT !.lo = mid]]]

\* l with its i-th plan split at mid, or unchanged if mid is 0.
SplitAt(l, i, mid) ==
    IF mid = 0 THEN l
    ELSE SubSeq(l, 1, i - 1) \o <<LowerPart(l[i], mid), UpperPart(l[i], mid)>>
         \o SubSeq(l, i + 1, Len(l))

Adjoins(p1, p2) == Key(p1) = Key(p2) /\ p1.hi = p2.lo

Compactible(p1, p2) ==
    /\ Adjoins(p1, p2)
    /\ Len(p1.fb) = Len(p2.fb)
    /\ \A i \in DOMAIN p1.fb : Adjoins(p1.fb[i], p2.fb[i])

Compact(p1, p2) ==
    [p1 EXCEPT !.hi = p2.hi,
               !.fb = [i \in DOMAIN @ |-> [@[i] EXCEPT !.hi = p2.fb[i].hi]]]

-----------------------------------------------------------------------------
Init ==
    /\ list = [c \in Containers |-> <<>>]
    /\ pc = "idle"
    /\ what = NoOp
    /\ head = <<>> /\ new = <<>> /\ exist = 1 /\ todo = <<>>
    /\ want = [c \in Containers |-> [s \in Sizes |-> EmptyBag]]
    /\ adds = 0 /\ merges = 0

\* ucg_plans_add up to the first loop.  One that refuses an invalid plan, drops
\* a deprecated one or cannot allocate it returns with no state changed.  Bound:
\* the containers do not meet before they are merged, so of all orders of adds
\* only those that fill the target last are taken.
Add(c, a) ==
    /\ pc = "idle" /\ adds < MaxAdds
    /\ c # Target => list[Target] = <<>>
    /\ Valid(a)
    /\ what' = [kind |-> "add", dst |-> c, attr |-> a]
    /\ head' = list[c]
    /\ new' = <<NewPlan(a)>>
    /\ exist' = 1
    /\ pc' = "normalise"
    /\ adds' = adds + 1
    /\ UNCHANGED <<list, todo, want, merges>>

\* ucg_plans_merge: the plans of dst are duplicated into a new container, and
\* those of src are added to it one after the other.  Merging a container with
\* itself returns at once; a merge that cannot allocate the new container or its
\* copy of dst changes nothing.
Merge(s) ==
    /\ pc = "idle" /\ merges < MaxMerges
    /\ s # Target
    /\ what' = [kind |-> "merge", dst |-> Target, src |-> s]
    /\ head' = list[Target]
    /\ todo' = list[s]
    /\ pc' = "take"
    /\ merges' = merges + 1
    /\ UNCHANGED <<list, new, exist, want, adds>>

Take ==
    /\ pc = "take" /\ todo # <<>>
    /\ new' = <<Head(todo)>>
    /\ todo' = Tail(todo)
    /\ exist' = 1
    /\ pc' = "normalise"
    /\ UNCHANGED <<list, what, head, want, adds, merges>>

TakeEnd ==
    /\ pc = "take" /\ todo = <<>>
    /\ exist' = 1
    /\ pc' = "compact"
    /\ UNCHANGED <<list, what, head, new, todo, want, adds, merges>>

\* The plan being normalised and the position where exist_plan is split by it.
\* The new plan, the last of `new', is then split by what is left of exist_plan.
NewPiece == Last(new)

ExistSplit == SplitPos(head[exist], NewPiece)

SplitHead == SplitAt(head, exist, ExistSplit)

NewSplit == SplitPos(NewPiece, SplitHead[exist])

\* Mutant: split_pos keeps the value of an earlier iteration.
NextExist_Again == IF Len(new) > 1 \/ ExistSplit # 0 \/ NewSplit # 0 THEN exist ELSE exist + 1

\* A split plan is looked at again: next_plan = exist_plan.
NextExist == IF ExistSplit # 0 \/ NewSplit # 0 THEN exist ELSE exist + 1

NormaliseGoesOn == exist <= Len(head) /\ NewPiece.hi > head[exist].lo

Normalise ==
    /\ pc = "normalise" /\ NormaliseGoesOn
    /\ head' = SplitHead
    /\ new' = SplitAt(new, Len(new), NewSplit)
    /\ exist' = NextExist
    /\ UNCHANGED <<list, pc, what, todo, want, adds, merges>>

NormaliseEnd ==
    /\ pc = "normalise" /\ ~NormaliseGoesOn
    /\ exist' = 1
    /\ pc' = "add"
    /\ UNCHANGED <<list, what, head, new, todo, want, adds, merges>>

\* The loop of ucg_plans_add_one.
MayAdd == pc = "add" /\ exist <= Len(head) /\ new # <<>>

AddSameRange ==
    /\ MayAdd /\ Head(new).lo = head[exist].lo
    /\ head' = [head EXCEPT ![exist] =
                  IF Head(new).score > @.score THEN AddFallback(Head(new), @)
                  ELSE AddFallback(@, Head(new))]
    /\ new' = Tail(new)
    /\ exist' = exist + 1
    /\ UNCHANGED <<list, pc, what, todo, want, adds, merges>>

AddBefore ==
    /\ MayAdd /\ Head(new).lo < head[exist].lo
    /\ head' = InsertAt(head, exist, Head(new))
    /\ new' = Tail(new)
    /\ exist' = exist + 1
    /\ UNCHANGED <<list, pc, what, todo, want, adds, merges>>

AddSkip ==
    /\ MayAdd /\ Head(new).lo > head[exist].lo
    /\ exist' = exist + 1
    /\ UNCHANGED <<list, pc, what, head, new, todo, want, adds, merges>>

AddEnd ==
    /\ pc = "add" /\ (exist > Len(head) \/ new = <<>>)
    /\ head' = head \o new
    /\ new' = <<>>
    /\ exist' = 1
    /\ pc' = IF what.kind = "add" THEN "compact" ELSE "take"
    /\ UNCHANGED <<list, what, todo, want, adds, merges>>

\* The loop of ucg_plans_compact_one.
CompactJoin ==
    /\ pc = "compact" /\ exist < Len(head)
    /\ Compactible(head[exist], head[exist + 1])
    /\ head' = RemoveAt([head EXCEPT ![exist] = Compact(@, head[exist + 1])], exist + 1)
    /\ UNCHANGED <<list, pc, what, new, exist, todo, want, adds, merges>>

CompactSkip ==
    /\ pc = "compact" /\ exist < Len(head)
    /\ ~Compactible(head[exist], head[exist + 1])
    /\ exist' = exist + 1
    /\ UNCHANGED <<list, pc, what, head, new, todo, want, adds, merges>>

\* History: what the call that ends now has promised for every size.
Promised ==
    [want EXCEPT ![what.dst] = [s \in Sizes |->
        IF what.kind = "merge" THEN @[s] (+) want[what.src][s]
        ELSE IF what.attr.lo <= s /\ s < what.attr.hi THEN @[s] (+) SetToBag({Key(what.attr)})
        ELSE @[s]]]

Reset ==
    /\ pc' = "idle" /\ what' = NoOp
    /\ head' = <<>> /\ new' = <<>> /\ exist' = 1 /\ todo' = <<>>
    /\ UNCHANGED <<adds, merges>>

\* The call returns UCG_OK.
Return ==
    /\ pc = "compact" /\ exist >= Len(head)
    /\ list' = [list EXCEPT ![what.dst] = head]
    /\ want' = Promised
    /\ Reset

\* Mutant: a merge works on the container of its destination.
Fail_InPlace(h) ==
    /\ list' = [list EXCEPT ![what.dst] = h]
    /\ want' = want
    /\ Reset

\* The call returns an error: an add has worked in place and leaves what it
\* split, a merge throws its new container away.
Fail(h) ==
    /\ list' = IF what.kind = "add" THEN [list EXCEPT ![what.dst] = h] ELSE list
    /\ want' = want
    /\ Reset

\* ucg_plan_dup returns NULL for a plan of the source or for a split.
TakeFails == pc = "take" /\ todo # <<>> /\ Fail(head)

ExistSplitFails ==
    /\ pc = "normalise" /\ NormaliseGoesOn /\ ExistSplit # 0
    /\ Fail(head)

NewSplitFails ==
    /\ pc = "normalise" /\ NormaliseGoesOn /\ NewSplit # 0
    /\ Fail(SplitHead)

Loops ==
    \/ Take \/ TakeEnd
    \/ Normalise \/ NormaliseEnd
    \/ AddSameRange \/ AddBefore \/ AddSkip \/ AddEnd
    \/ CompactJoin \/ CompactSkip
    \/ Return

NoMemory == TakeFails \/ ExistSplitFails \/ NewSplitFails

Next ==
    \/ \E c \in Containers, a \in Attr : Add(c, a)
    \/ \E s \in Containers : Merge(s)
    \/ Loops
    \/ NoMemory

\* A call, once made, runs to its end: its thread does nothing else.
Spec == Init /\ [][Next]_vars /\ WF_vars(Loops)

-----------------------------------------------------------------------------
(* ucg_plans_prepare *)

NotFound == <<>>

\* The positions of l the search for size s stops at with found = 1.
FoundAt(l, s) ==
    {i \in DOMAIN l : /\ l[i].lo <= s /\ s < l[i].hi
                      /\ \A j \in 1 .. i - 1 : s >= l[j].lo}

\* The first fallback of p that can prepare the arguments.  One with the
\* prepare function of p is not tried again.
PrepareFallback(p, ok) ==
    LET able == {i \in DOMAIN p.fb : p.fb[i].prepare # p.prepare /\ p.fb[i].prepare \in ok}
    IN  IF able = {} THEN NotFound ELSE Key(p.fb[Min(able)])

\* Select for size s, where the functions in ok can prepare the arguments.
\* alltoallv (reselect) starts again with size 0 before it takes a fallback.
PrepareFrom(l, s, ok) ==
    LET p == l[Min(FoundAt(l, s))]
    IN  IF FoundAt(l, s) = {} THEN NotFound
        ELSE IF p.prepare \in ok THEN Key(p)
        ELSE PrepareFallback(p, ok)

FirstFails(l, s, ok) ==
    FoundAt(l, s) # {} /\ l[Min(FoundAt(l, s))].prepare \notin ok

\* Mutant: fallbacks are those of the message's own size.
Prepare_NoReselect(l, s, ok, reselect) == PrepareFrom(l, s, ok)

Prepare(l, s, ok, reselect) ==
    PrepareFrom(l, IF reselect /\ FirstFails(l, s, ok) THEN 0 ELSE s, ok)

-----------------------------------------------------------------------------
(* Properties *)

\* The plans the list l offers for size s.
Offered(l, s) ==
    LET covering == {i \in DOMAIN l : l[i].lo <= s /\ s < l[i].hi}
        keys(p)  == <<Key(p)>> \o [i \in DOMAIN p.fb |-> Key(p.fb[i])]
        all      == FoldSet(LAMBDA i, acc : acc \o keys(l[i]), <<>>, covering)
    IN  FoldSeq(LAMBDA k, bag : bag (+) SetToBag({k}), EmptyBag, all)

(* Whatever ranges and scores were added, merged or failed half-way: for    *)
(* every message size the container offers exactly the plans that were      *)
(* successfully added for it, none lost, none twice, none for a size its    *)
(* owner did not ask for (ucg_plans_add_one, ucg_plan_split, ucg_plan_      *)
(* compact, and the roll-back of ucg_plans_merge).                          *)
OffersWhatWasAdded ==
    pc = "idle" => \A c \in Containers, s \in Sizes : Offered(list[c], s) = want[c][s]

(* Between calls first-class ranges are sorted and do not overlap, the      *)
(* fallbacks of a plan have its range, and scores never rise from a plan to *)
(* its fallbacks: what the search of ucg_plans_prepare and the asserts of   *)
(* ucg_plans_add_one rely on.                                               *)
Normal(l) ==
    /\ \A i, j \in DOMAIN l : i < j => l[i].hi <= l[j].lo
    /\ \A i \in DOMAIN l :
          LET fb == l[i].fb
          IN  /\ l[i].lo < l[i].hi
              /\ \A k \in DOMAIN fb :
                    /\ fb[k].lo = l[i].lo /\ fb[k].hi = l[i].hi
                    /\ fb[k].score <= IF k = 1 THEN l[i].score ELSE fb[k - 1].score

SortedAndDisjoint == pc = "idle" => \A c \in Containers : Normal(list[c])

(* k is a best plan for size s of container c among those that can prepare. *)
Best(c, s, ok, k) ==
    LET able == {e \in BagToSet(want[c][s]) : e[1] \in ok}
    IN  IF able = {} THEN k = NotFound
        ELSE k \in able /\ \A e \in able : e[2] <= k[2]

(* Whichever prepare functions accept the arguments, ucg_plans_prepare      *)
(* finds a plan if any plan added for the message size accepts them, and    *)
(* takes one with the highest score; alltoallv does so for size 0 once the  *)
(* first choice has failed, so that members with different sizes that fall  *)
(* back agree ("confirm all ranks fallback to the same algo").              *)
PreparesTheBest ==
    pc = "idle" => \A c \in Containers, s \in Sizes, ok \in SUBSET Prepares :
        /\ Best(c, s, ok, Prepare(list[c], s, ok, FALSE))
        /\ FirstFails(list[c], s, ok) => Best(c, 0, ok, Prepare(list[c], s, ok, TRUE))
        /\ \A t \in Sizes : FirstFails(list[c], s, ok) /\ FirstFails(list[c], t, ok)
              => Prepare(list[c], s, ok, TRUE) = Prepare(list[c], t, ok, TRUE)

(* A call that adds or merges plans returns: the loops that look at a split *)
(* plan again (next_plan = exist_plan, next_plan = plan) make progress.     *)
CallsReturn == pc # "idle" ~> pc = "idle"
=============================================================================
