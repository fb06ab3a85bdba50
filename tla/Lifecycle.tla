----------------------------- MODULE Lifecycle -----------------------------
(***************************************************************************)
(* How the library's objects are constructed and torn down.  A C           *)
(* constructor acquires one resource after the other and, when one of them *)
(* cannot be had, jumps to a label that releases some of those before it;  *)
(* a destructor releases a list.  A constructor is a sequence of steps and *)
(* a destructor a sequence of releases; both may name another object, whose*)
(* own constructor or destructor then runs.  Any step may fail.  The tables*)
(* of steps (module Steps) are in the modules named *Objects and UcxOps.   *)
(***************************************************************************)
EXTENDS Steps, Naturals, FiniteSets

CONSTANTS Objects,    \* name -> [make |-> steps, drop |-> releases]
          Parent,     \* root object -> the root it lives in, or "none"
          Needs,      \* root object -> what must be held when it is begun
          Keeps,      \* root object -> what it may leave to its parent
          Lent,       \* resources that belong to the application
          Lendings,   \* the sets of them it may lend
          Uses,       \* pairs <<user, used>>: user needs used while it is held
          MaxBegun,   \* bound on the root objects begun in a behaviour
          MaxFaults   \* bound on the failing steps of a behaviour

ASSUME LifecycleAssumption ==
    /\ DOMAIN Parent \subseteq DOMAIN Objects
    /\ DOMAIN Needs = DOMAIN Parent /\ DOMAIN Keeps = DOMAIN Parent
    /\ Lendings \subseteq SUBSET Lent
    /\ MaxBegun \in Nat /\ MaxFaults \in Nat

VARIABLES held,     \* the resources that exist
          stack,    \* the constructors and destructors under way
          before,   \* what was held when the call under way was made
          live,     \* root object -> what was held when it was begun
          begun,    \* how many root objects have been begun
          faults,   \* how many steps have failed
          leaked,   \* <<object, resource>>: left behind with nobody to free it
          bad,      \* <<object, resource>>: released without being there
          early     \* <<used, user>>: released while its user was still there

vars == <<held, stack, before, live, begun, faults, leaked, bad, early>>

Roots == DOMAIN Parent

(* A frame is at step pc of its list: the constructor, the destructor, or
   what the constructor undoes since its step "at" failed. *)
Frame(o, mode) == [obj |-> o, mode |-> mode, pc |-> 1, at |-> 1]
List(f) ==
    IF f.mode \in {"make", "drop"} THEN Objects[f.obj][f.mode] ELSE Objects[f.obj].make[f.at].undo
Current(f) == List(f)[f.pc]

Idle  == stack = <<>>
Top   == stack[Len(stack)]
Below == SubSeq(stack, 1, Len(stack) - 1)
Advance(s) == IF s = <<>> THEN s ELSE [s EXCEPT ![Len(s)].pc = @ + 1]

IsPart(step)  == step.res \in DOMAIN Objects
Taken(step)   == step.if \subseteq held /\ step.no \cap held = {}
Failing(step) == /\ Top.mode = "make" /\ step.do # "put" /\ Taken(step)
                 /\ step.fails = "may" => faults < MaxFaults
                 /\ step.fails # "not"

(* The application has lent some of its own resources, or none. *)
Init ==
    /\ held \in Lendings /\ stack = <<>> /\ before = {} /\ live = <<>> /\ begun = 0 /\ faults = 0
    /\ leaked = {} /\ bad = {} /\ early = {}

(***************************************************************************)
(* The application begins a root object, or ends one nothing lives in.     *)
(* Bound: a root has one child at a time.                                  *)
(***************************************************************************)
Begin(o) ==
    /\ Idle /\ \A c \in DOMAIN live : Parent[c] # Parent[o]
    /\ Parent[o] = "none" \/ Parent[o] \in DOMAIN live
    /\ Needs[o] \subseteq held
    /\ stack' = <<Frame(o, "make")>> /\ before' = held
    /\ begun < MaxBegun /\ begun' = begun + 1
    /\ leaked' = {} /\ bad' = {} /\ early' = {}
    /\ UNCHANGED <<held, live, faults>>

End(o) ==
    /\ Idle /\ o \in DOMAIN live
    /\ \A c \in DOMAIN live : Parent[c] # o
    /\ stack' = <<Frame(o, "drop")>> /\ before' = live[o]
    /\ leaked' = {} /\ bad' = {} /\ early' = {}
    /\ UNCHANGED <<held, live, begun, faults>>

(***************************************************************************)
(* One step of the constructor or destructor on top of the stack.          *)
(***************************************************************************)
Skipped(step) == ~Taken(step) \/ (step.do = "put" /\ step.fails = "may")
Pass(step) ==
    /\ Skipped(step)
    /\ stack' = Advance(stack)
    /\ UNCHANGED <<held, before, live, begun, faults, leaked, bad, early>>

(* A resource is acquired; one already held under that name is lost. *)
Acquire(step) ==
    /\ Taken(step) /\ step.do # "put" /\ step.fails # "iff"
    /\ held' = held \cup ({step.res} \ {""})
    /\ leaked' = IF step.res \in held THEN leaked \cup {<<stack[1].obj, step.res>>} ELSE leaked
    /\ stack' = Advance(stack)
    /\ UNCHANGED <<before, live, begun, faults, bad, early>>

(* The constructor or the destructor of a part is called. *)
Enter(step) ==
    /\ Taken(step)
    /\ stack' = IF step.do = "get" THEN Append(stack, Frame(step.res, "make"))
                                   ELSE Append(Advance(stack), Frame(step.res, "drop"))
    /\ UNCHANGED <<held, before, live, begun, faults, leaked, bad, early>>

(* One resource is released. *)
Release(step) ==
    /\ Taken(step) /\ step.do = "put"
    /\ stack' = Advance(stack)
    /\ held' = held \ ({step.res} \ Lent)
    /\ bad' = IF step.res \in held \ Lent THEN bad ELSE bad \cup {<<Top.obj, step.res>>}
    /\ early' = early \cup {<<step.res, u>> : u \in {v \in held : <<v, step.res>> \in Uses}}
    /\ UNCHANGED <<before, live, begun, faults, leaked>>

(* What becomes of the constructor on top of s when its current step fails. *)
Failed(s, step) ==
    IF step.on = "skip" THEN Advance(s)
    ELSE [s EXCEPT ![Len(s)].mode = IF step.on = "claim" THEN "claim" ELSE "undo",
                   ![Len(s)].at = s[Len(s)].pc, ![Len(s)].pc = 1]

(* A pointer that is overwritten is overwritten by a failure, too. *)
Fault(step) ==
    /\ Failing(step)
    /\ faults' = IF step.fails = "may" THEN faults + 1 ELSE faults
    /\ stack' = Failed(stack, step)
    /\ held' = held \ {step.res}
    /\ leaked' = leaked \cup {<<stack[1].obj, r>> : r \in held \cap {step.res}}
    /\ UNCHANGED <<before, live, begun, bad, early>>

(***************************************************************************)
(* When the call on a root object returns, whatever it acquired and        *)
(* neither released nor keeps is lost: no pointer to it is left.           *)
(***************************************************************************)
Lose(o) ==
    LET left == (held \ before) \ Keeps[o]
    IN /\ leaked' = leaked \cup {<<o, r>> : r \in left}
       /\ held' = held \ left

(* A constructor returns success. *)
Built ==
    /\ Top.mode \in {"make", "claim"}
    /\ stack' = Advance(Below)
    /\ live' = IF Below # <<>> THEN live
               ELSE [o \in DOMAIN live \cup {Top.obj} |-> IF o = Top.obj THEN before ELSE live[o]]
    /\ UNCHANGED <<held, before, begun, faults, leaked, bad, early>>

(* The error labels are done: the caller sees the error. *)
Undone ==
    /\ Top.mode = "undo"
    /\ IF Below = <<>>
       THEN stack' = <<>> /\ Lose(Top.obj)
       ELSE stack' = Failed(Below, Current(Below[Len(Below)])) /\ UNCHANGED <<held, leaked>>
    /\ UNCHANGED <<before, live, begun, faults, bad, early>>

(* A destructor returns. *)
Dropped ==
    /\ Top.mode = "drop"
    /\ stack' = Below
    /\ IF Below = <<>>
       THEN /\ Lose(Top.obj)
            /\ live' = [o \in DOMAIN live \ {Top.obj} |-> live[o]]
       ELSE UNCHANGED <<held, live, leaked>>
    /\ UNCHANGED <<before, begun, faults, bad, early>>

Call ==
    /\ ~Idle
    /\ IF Top.pc > Len(List(Top)) THEN Built \/ Undone \/ Dropped
       ELSE \E step \in {Current(Top)} :
               \/ Pass(step)
               \/ IF IsPart(step) THEN Enter(step) ELSE Acquire(step) \/ Release(step) \/ Fault(step)

Next == Call \/ \E o \in Roots : Begin(o) \/ End(o)

Spec == Init /\ [][Next]_vars
=============================================================================
