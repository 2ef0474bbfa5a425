---------------------------- MODULE EnrollmentMC ----------------------------
(***************************************************************************)
(* Values for the runs of Enrollment: students, of whom one is a minor and *)
(* all are old enough for every session, and symmetry.                     *)
(***************************************************************************)
EXTENDS Enrollment, TLC

CONSTANT kid

TwoSeats == [s \in Sessions |-> 2]
EveryPair == Pairs
KidPairs == {kid} \X Sessions

\* The minor's consent and certification and the coach's qualification change.
KidFacts == ({"consent", "certified"} \X KidPairs) \cup ({"qualified"} \X Sessions)

\* Requests and keys are alike, and so are the other students.
Alike == Permutations(Procs) \cup Permutations(Keys) \cup Permutations(Students \ {kid})
=============================================================================
