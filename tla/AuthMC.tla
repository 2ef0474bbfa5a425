------------------------------- MODULE AuthMC -------------------------------
(***************************************************************************)
(* Symmetry for the runs of Auth: requests are alike, and so are tokens.   *)
(***************************************************************************)
EXTENDS Auth, TLC

Alike == Permutations(Procs) \cup Permutations(Tokens)
=============================================================================
