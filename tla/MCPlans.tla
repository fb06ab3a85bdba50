------------------------------ MODULE MCPlans -------------------------------
(***************************************************************************)
(* Plan containers for TLC: two prepare functions, one of them with two    *)
(* scores, so that plans tie, outrank each other and come twice.           *)
(***************************************************************************)
EXTENDS Plans

CONSTANTS prepA, prepB

MCKinds == {<<prepA, 1>>, <<prepB, 1>>, <<prepB, 2>>}
=============================================================================
