------------------------------ MODULE MCUcxP2P ------------------------------
(* Instance of UcxP2P for TLC. *)
EXTENDS UcxP2P, TLC

AllOutcomes == {"null", "err", "pending", "doneptr"}
AnyStatus == {"OK", "IO_ERROR"}

\* UCP request objects and op objects are interchangeable.
Sym == Permutations(Ops) \cup Permutations(Reqs)
=============================================================================
