---- MODULE MCSoakDriver ----
(***************************************************************************)
(* Small instances of SoakDriver: downloads whose row id is the hash, as   *)
(* the clients list them.                                                  *)
(***************************************************************************)
EXTENDS SoakDriver

TransferRows(hashes) ==
  [client : Client, kind : {"download"}, id : hashes, key : hashes]
OneFile == {row \in TransferRows({"f"}) : TRUE}
RustFile == {row \in OneFile : row.client = "rust"}
TransferList == {<<"mfc", "download">>}
OneHash == {"f"}
====
