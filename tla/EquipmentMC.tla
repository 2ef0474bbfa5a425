---------------------------- MODULE EquipmentMC -----------------------------
(***************************************************************************)
(* Values for the runs of Equipment: what fits whom, and symmetry.          *)
(***************************************************************************)
EXTENDS Equipment, TLC

CONSTANT st1

EverythingSuits == Items \X Students \X Sessions
FirstStudentFits == Items \X {st1} \X Sessions
Alike == Permutations(Procs)
=============================================================================
