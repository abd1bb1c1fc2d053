---- MODULE MCActionTracker ----
(***************************************************************************)
(* Small instances of ActionTracker: a download that both clients list      *)
(* under its hash, and searches of one term that compete for each other.   *)
(***************************************************************************)
EXTENDS ActionTracker, TLC

CONSTANTS r1, r2, m1, m2   \* search ids of the Rust and of the MFC client

Row(c, k, i, q) == [client |-> c, kind |-> k, id |-> i, key |-> q]
Downloads == {Row(c, "download", "hash", "hash") : c \in Client}

(* Two searches of one term on each client, whose ids are unique and          *)
(* interchangeable, and the two halves of a download, which share an id.     *)
PairingRows ==
  {Row("rust", "search", i, "term") : i \in {r1, r2}}
    \cup {Row("mfc", "search", i, "term") : i \in {m1, m2}} \cup Downloads
Interchangeable == {p @@ q : p \in Permutations({r1, r2}), q \in Permutations({m1, m2})}

(* A download, which both clients list under its hash, and a search that one *)
(* client repeats.                                                          *)
MixedRows ==
  Downloads \cup {Row("mfc", "search", i, "term") : i \in {m1, m2}}
MixedBefore == {row \in MixedRows : row.client = "mfc" /\ row.id \in {"hash", m1}}
MixedGone == {row \in MixedRows : row.id = m1}
SearchLists == {<<"mfc", "search">>}
====
