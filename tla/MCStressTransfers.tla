---- MODULE MCStressTransfers ----
(***************************************************************************)
(* Small instances of StressTransfers.                                     *)
(***************************************************************************)
EXTENDS StressTransfers, TLC

CONSTANTS h1, h2, t1, t2

TwoHashes == {h1, h2}
OneTask == {t1}
TwoTasks == {t1, t2}
Interchangeable == Permutations(TwoHashes)
====
