---- MODULE MCArrAcquisition ----
(* Three releases that nothing distinguishes.                               *)
EXTENDS ArrAcquisition, TLC
AnyOrder == Permutations(Releases)
====
