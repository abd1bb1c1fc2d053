---- MODULE MCTreeKill ----
(***************************************************************************)
(* Small instances of TreeKill; pids are interchangeable.                   *)
(***************************************************************************)
EXTENDS TreeKill, TLC

CONSTANTS p1, p2, p3

CommandLines == {"ours", "other", "blank"}
OurLines == {"ours"}
TwoPids == {p1, p2}
ThreePids == {p1, p2, p3}
PidSymmetry == Permutations(ThreePids)
BothSources == {"launch", "call"}
KeptDate == {"launch"}
====
