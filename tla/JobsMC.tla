------------------------------- MODULE JobsMC -------------------------------
(***************************************************************************)
(* Symmetry for the safety runs of Jobs: one job is like another.          *)
(***************************************************************************)
EXTENDS Jobs, TLC

Alike == Permutations(Jobs)
=============================================================================
