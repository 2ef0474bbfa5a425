---------------------------- MODULE AssessmentMC ----------------------------
(***************************************************************************)
(* Values for the runs of Assessment: one certificate that two examiners   *)
(* can grant, each on an assessment of her own.                            *)
(***************************************************************************)
EXTENDS Assessment, TLC

CONSTANTS a1, a2, e1, e2, c1

OneCertificate == [a \in Assessments |-> c1]
EachHerOwn == [a \in Assessments |-> IF a = a1 THEN e1 ELSE e2]

Alike == Permutations(Procs)
=============================================================================
