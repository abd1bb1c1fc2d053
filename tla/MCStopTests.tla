---- MODULE MCStopTests ----
(***************************************************************************)
(* Small instances of StopTests; pids are interchangeable.                   *)
(***************************************************************************)
EXTENDS StopTests, TLC

CONSTANTS p1, p2, p3, p4

AllLines == {"runner", "other", "stopper"}
ThreePids == {p1, p2, p3}
FourPids == {p1, p2, p3, p4}
PidSymmetry == Permutations(FourPids)
====
