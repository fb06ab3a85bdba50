------------------------------ MODULE MCKnTree ------------------------------
(* Instances of KnTree for TLC. *)
EXTENDS KnTree

TreeSizes == 2..12
TreeDegrees == 0..6
=============================================================================
