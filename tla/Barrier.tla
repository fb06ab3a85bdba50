------------------------------- MODULE Barrier -------------------------------
(***************************************************************************)
(* What a barrier promises, over consecutive barriers that may overlap     *)
(* (MPI_Barrier and MPI_Ibarrier): a member leaves a barrier only after    *)
(* every member has entered it.                                            *)
(***************************************************************************)
EXTENDS Integers

CONSTANT Barriers

VARIABLES
  members,   \* the group
  entered,   \* entered[p]: the barriers p has entered
  left       \* left[p]: the barriers p has left

vars == <<members, entered, left>>

Init ==
  /\ entered = [p \in members |-> {}]
  /\ left = [p \in members |-> {}]

Enter(p, b) ==
  /\ b \notin entered[p]
  /\ entered' = [entered EXCEPT ![p] = @ \cup {b}]
  /\ UNCHANGED <<members, left>>

Leave(p, b) ==
  /\ b \in entered[p] \ left[p]
  /\ \A q \in members : b \in entered[q]
  /\ left' = [left EXCEPT ![p] = @ \cup {b}]
  /\ UNCHANGED <<members, entered>>

Next == \E p \in members, b \in Barriers : Enter(p, b) \/ Leave(p, b)

Spec == Init /\ [][Next]_vars
=============================================================================
