----------------------------- MODULE TrainingMC -----------------------------
(***************************************************************************)
(* Values for the runs of Training: three enrollments, of which one is of  *)
(* another session, and two groups of one session with a coach each.       *)
(***************************************************************************)
EXTENDS Training

CONSTANTS g1, g2, c1, c2, s1, s2, n3

FirstSession == [g \in Groups |-> s1]
CoachEach == [g \in Groups |-> IF g = g1 THEN c1 ELSE c2]
OnePlaceTwoPlaces == [g \in Groups |-> IF g = g1 THEN 1 ELSE 2]
ThirdElsewhere == [n \in Enrollments |-> IF n = n3 THEN s2 ELSE s1]
=============================================================================
