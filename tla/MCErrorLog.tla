----------------------------- MODULE MCErrorLog -----------------------------
(***************************************************************************)
(* Three callers over the time of three lines.                             *)
(***************************************************************************)
EXTENDS ErrorLog, TLC

CONSTANTS g1, g2, g3

ThreeCallers == {g1, g2, g3}

AlikeCallers == Permutations(Callers)
=============================================================================
