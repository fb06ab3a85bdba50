----------------------------- MODULE MCUcgRequest -----------------------------
(* Instances of UcgRequest for TLC. *)
EXTENDS UcgRequest

\* The outcomes of the op->trigger functions when their local copy of the
\* send buffer succeeds.
RegularOutcomes == {<<"OK", "INPROGRESS">>, <<"OK", "OK">>, <<"ERR", "ERR">>}

\* ... and when it fails: the op was reset to UCG_INPROGRESS and stays there.
AllOutcomes == RegularOutcomes \cup {<<"ERR", "INPROGRESS">>}
=============================================================================
