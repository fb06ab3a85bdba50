------------------------------- MODULE Steps -------------------------------
(***************************************************************************)
(* The vocabulary in which constructors and destructors are written down.  *)
(* A step is a record:                                                     *)
(*   do    "get": a resource is acquired, or a part's constructor called;  *)
(*         "put": it is released, or the part's destructor called;         *)
(*         "ask": a call that keeps nothing                                *)
(*   res   the resource or part                                            *)
(*   fails "may", "not", or "iff": exactly when its condition does not hold;*)
(*         a "put" that may fail is one that need not happen               *)
(*   undo  what the code releases when this step fails                     *)
(*   on    "back": undo and report the error; "skip": go on without it;    *)
(*         "claim": undo and report success all the same                   *)
(*   if,   the step is taken only when all of "if" and none of "no" is     *)
(*   no    held                                                            *)
(***************************************************************************)
EXTENDS Sequences

Get(r, undo) == [do |-> "get", res |-> r, fails |-> "may", undo |-> undo,
                 on |-> "back", if |-> {}, no |-> {}]
Ask(undo)    == [Get("", undo) EXCEPT !.do = "ask"]
Sure(r)      == [Get(r, <<>>) EXCEPT !.fails = "not"]
Try(r)       == [Get(r, <<>>) EXCEPT !.on = "skip"]
Claim(r, undo) == [Get(r, undo) EXCEPT !.on = "claim"]
NeedAny(s, undo) == [Ask(undo) EXCEPT !.fails = "iff", !.no = s]  \* fails if none of s is held
Put(r)       == [Sure(r) EXCEPT !.do = "put"]
When(c, s)   == [s EXCEPT !.if = c]
Unless(c, s) == [s EXCEPT !.no = c]
Opt(r)       == When({r}, Put(r))                \* if (r != NULL) free(r)
\* if (memory->table != NULL) release(r), where table is set only when r is there
Stray(memory, r) == [Put(r) EXCEPT !.fails = "may", !.if = {memory}, !.no = {r}]
Puts(s)      == [i \in DOMAIN s |-> Put(s[i])]
Part(make, drop) == [make |-> make, drop |-> drop]
=============================================================================
