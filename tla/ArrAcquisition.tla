---- MODULE ArrAcquisition ----
(***************************************************************************)
(* radarr-sonarr-emulebb-live.py, the acquisition: a release is requested    *)
(* through Radarr or Sonarr, or, when these have none to offer or do not      *)
(* answer, found with Prowlarr and added to eMule directly; the transfer     *)
(* that appears is taken for it, and either stopped and deleted ("handoff")  *)
(* or waited for ("complete").  A request may be carried out although the    *)
(* script sees an error or a timeout, and a transfer appears some time after *)
(* the request for it was accepted.                                         *)
(***************************************************************************)
EXTENDS Integers, FiniteSets

CONSTANTS
  Releases,     \* the releases the searches may find
  None,         \* no release
  MaxStrays,    \* bound: requests carried out that the script gave up on
  MaxSearches   \* bound: rounds of the Prowlarr loop, whose deadline is a time

ASSUME ArrAssumption == None \notin Releases /\ MaxStrays \in Nat /\ MaxSearches \in Nat

VARIABLES
  pc,        \* where the acquisition is
  proof,     \* --download-proof-mode
  untried,   \* ranked releases not yet requested
  before,    \* before_hashes
  magnet,    \* the release the accepted grab itself names, or None
  hash,      \* release_grab["hash"]
  tolerant,  \* an add whose RuntimeError sends the loop round again
  seen,      \* observed_transfer
  searches,  \* rounds of the Prowlarr loop
  listed,    \* transfers eMule lists in the category
  coming,    \* accepted requests not yet turned into transfers, per release
  finished,  \* transfers that are complete
  strays     \* requests carried out that the script does not count on

script == <<proof, untried, before, magnet, hash, tolerant, seen, searches>>
emule == <<listed, coming, finished>>
vars == <<pc, script, emule, strays>>

Init ==
  /\ pc = "start" /\ proof \in {"handoff", "complete"}
  /\ untried = {} /\ before = {} /\ magnet = None /\ hash = None
  /\ tolerant = FALSE /\ seen = FALSE /\ searches = 0
  /\ listed = {} /\ coming = [r \in Releases |-> 0] /\ finished = {} /\ strays = 0

----------------------------------------------------------------------------
(* eMule, and the download client Radarr or Sonarr talk to.                  *)
Arrive(r) ==
  /\ coming[r] > 0
  /\ coming' = [coming EXCEPT ![r] = @ - 1]
  /\ listed' = listed \cup {r}
  /\ finished' = finished \cap listed
  /\ UNCHANGED <<pc, script, strays>>

Complete(r) ==
  /\ r \in listed \ finished
  /\ finished' = finished \cup {r}
  /\ UNCHANGED <<pc, script, listed, coming, strays>>

ClearCompleted(r) ==
  /\ r \in listed \cap finished
  /\ listed' = listed \ {r} /\ finished' = finished \ {r}
  /\ UNCHANGED <<pc, script, coming, strays>>

Accept(r) == coming' = [coming EXCEPT ![r] = @ + 1] /\ UNCHANGED <<listed, finished>>
(* The script gives the request up; it was carried out, or it was not.        *)
Stray(r) == strays < MaxStrays /\ strays' = strays + 1 /\ Accept(r)
GivenUp(r) == Stray(r) \/ UNCHANGED <<emule, strays>>

----------------------------------------------------------------------------
Goto(label) == pc' = label
(* An error nothing in the acquisition catches.                             *)
Breaks(label) == pc = label /\ Goto("failed") /\ UNCHANGED <<script, emule, strays>>

(* Radarr and Sonarr.  transfer_hashes() comes before anything is requested. *)
ArrUsable ==
  /\ pc = "start" /\ Goto("search") /\ before' = listed
  /\ UNCHANGED <<proof, untried, magnet, hash, tolerant, seen, searches, emule, strays>>
ArrUnusable == pc = "start" /\ Goto("fallback") /\ UNCHANGED <<script, emule, strays>>

ArrFinds ==
  /\ pc = "search" /\ Goto("grab")
  /\ untried' \in SUBSET Releases \ {{}}
  /\ UNCHANGED <<proof, before, magnet, hash, tolerant, seen, searches, emule, strays>>
(* No row before the deadline, none that ranks, or a request out of time.      *)
ArrFindsNothing == pc = "search" /\ Goto("fallback") /\ UNCHANGED <<script, emule, strays>>

Grab(r) ==
  /\ pc = "grab" /\ r \in untried
  /\ Goto("confirm") /\ Accept(r)
  /\ magnet' \in {r, None}
  /\ UNCHANGED <<proof, untried, before, hash, tolerant, seen, searches, strays>>

GrabRejected(r) ==
  /\ pc = "grab" /\ r \in untried
  /\ GivenUp(r)
  /\ untried' = untried \ {r}
  /\ Goto(IF untried' = {} THEN "failed" ELSE "grab")
  /\ UNCHANGED <<proof, before, magnet, hash, tolerant, seen, searches>>

GrabTimesOut(r) ==
  /\ pc = "grab" /\ r \in untried
  /\ GivenUp(r)
  /\ Goto("fallback") /\ UNCHANGED script

(* A lost answer counted as transient: the request is sent once more.         *)
GrabRepeated(r) ==
  /\ pc = "grab" /\ r \in untried
  /\ Stray(r)
  /\ UNCHANGED <<pc, script>>

GrabBreaks(r) ==
  /\ pc = "grab" /\ r \in untried
  /\ GivenUp(r)
  /\ Goto("failed") /\ UNCHANGED script

(* wait_for_new_transfer_category(): any transfer that was not there before.  *)
New == listed \ before
Confirm ==
  /\ pc \in {"confirm", "confirmAdd"} /\ Goto("resume")
  /\ hash' \in New
  /\ UNCHANGED <<proof, untried, before, magnet, tolerant, seen, searches, emule, strays>>

(* Nothing new in time, or the poll raises, with something new listed or not:  *)
(* what the grab's own link names will do.                                  *)
KeepMagnet == IF magnet = None THEN Goto("failed") /\ UNCHANGED hash
              ELSE hash' = magnet /\ Goto("await")
ConfirmLate ==
  /\ pc = "confirm"
  /\ KeepMagnet
  /\ UNCHANGED <<proof, untried, before, magnet, tolerant, seen, searches, emule, strays>>

Await ==
  /\ pc = "await"
  /\ Goto(IF hash \in listed THEN "resume" ELSE "failed")
  /\ UNCHANGED <<script, emule, strays>>

----------------------------------------------------------------------------
(* Prowlarr, with a snapshot of its own.                                    *)
Fallback ==
  /\ pc = "fallback" /\ Goto("prowlarr") /\ before' = listed
  /\ UNCHANGED <<proof, untried, magnet, hash, tolerant, seen, searches, emule, strays>>

Round == searches < MaxSearches /\ searches' = searches + 1

(* Rows of the indexer, or, after a refusal of it, of eMule's own Torznab.    *)
ProwlarrFinds ==
  /\ pc = "prowlarr" /\ Round /\ Goto("add")
  /\ \E r \in Releases : untried' = {r}
  /\ tolerant' \in BOOLEAN
  /\ UNCHANGED <<proof, before, magnet, hash, seen, emule, strays>>
ProwlarrFindsNothing ==
  /\ pc = "prowlarr" /\ Round
  /\ UNCHANGED <<pc, proof, untried, before, magnet, hash, tolerant, seen, emule, strays>>

Add(r) ==
  /\ pc = "add" /\ r \in untried
  /\ Goto("confirmAdd") /\ Accept(r)
  /\ UNCHANGED <<script, strays>>
AddRepeated(r) ==
  /\ pc = "add" /\ r \in untried
  /\ Stray(r)
  /\ UNCHANGED <<pc, script>>

AddFails(r) ==
  /\ pc = "add" /\ r \in untried
  /\ GivenUp(r)
  /\ \/ Goto("failed")
     \/ tolerant /\ Goto("prowlarr")
  /\ UNCHANGED script

(* The request was accepted, and nothing new appears in time, or the poll      *)
(* raises.                                                                  *)
ConfirmAddLate ==
  /\ pc = "confirmAdd"
  /\ IF tolerant THEN strays < MaxStrays /\ strays' = strays + 1 /\ Goto("prowlarr")
                 ELSE Goto("failed") /\ UNCHANGED strays
  /\ UNCHANGED <<script, emule>>

----------------------------------------------------------------------------
(* The proof.                                                               *)
Resume ==
  /\ pc = "resume" /\ Goto(IF proof = "handoff" THEN "stop" ELSE "wait")
  /\ UNCHANGED <<script, emule, strays>>

(* The stop was accepted and the transfer is still there.                     *)
Stop ==
  /\ pc = "stop" /\ hash \in listed /\ Goto("delete")
  /\ UNCHANGED <<script, emule, strays>>

MayDelete == listed' \in {listed, listed \ {hash}} /\ UNCHANGED <<coming, finished>>
(* An accepted delete may take effect at once, later, or never.              *)
Delete ==
  /\ pc = "delete" /\ Goto("absent")
  /\ MayDelete /\ UNCHANGED <<script, strays>>
DeletedLater ==
  /\ pc = "absent" /\ listed' = listed \ {hash} /\ listed' # listed
  /\ UNCHANGED <<pc, script, coming, finished, strays>>

(* The `finally` of the handoff, when the delete was not accepted.            *)
NativeDelete ==
  /\ pc \in {"stop", "delete"} /\ Goto("failed")
  /\ MayDelete /\ UNCHANGED <<script, strays>>

TakenForAbsent == Goto("passed")
AbsentInTime == Goto(IF hash \in listed THEN "failed" ELSE "passed")
Absent ==
  /\ pc = "absent" /\ AbsentInTime
  /\ UNCHANGED <<script, emule, strays>>

(* A transfer that was seen and is gone counts as complete.                   *)
Completion ==
  /\ pc = "wait"
  /\ IF hash \in listed THEN seen' = TRUE /\ Goto(IF hash \in finished THEN "passed" ELSE "wait")
                        ELSE seen' = seen /\ Goto(IF seen THEN "passed" ELSE "failed")
  /\ UNCHANGED <<proof, untried, before, magnet, hash, tolerant, searches, emule, strays>>

Requested(r) == Arrive(r) \/ Complete(r) \/ ClearCompleted(r) \/ Grab(r) \/ GrabRejected(r)
                \/ GrabTimesOut(r) \/ GrabRepeated(r) \/ GrabBreaks(r)
                \/ Add(r) \/ AddRepeated(r) \/ AddFails(r)
(* The places where an unexpected answer ends the run: every poll and request *)
(* but those above.                                                         *)
Errors == \E label \in {"start", "search", "confirm", "await", "fallback", "prowlarr",
                        "confirmAdd", "resume", "absent", "wait"} : Breaks(label)
Next == \/ \E r \in Releases : Requested(r)
        \/ ArrUsable \/ ArrUnusable \/ ArrFinds \/ ArrFindsNothing \/ Confirm \/ ConfirmLate
        \/ Await \/ Fallback \/ ProwlarrFinds \/ ProwlarrFindsNothing \/ ConfirmAddLate
        \/ Resume \/ Stop \/ Delete \/ DeletedLater \/ NativeDelete \/ Absent \/ Completion
        \/ Errors
Spec == Init /\ [][Next]_vars

----------------------------------------------------------------------------
(* Every variable has its type, and from the resume on a release is named.    *)
TypeOK ==
  /\ pc \in {"start", "search", "grab", "confirm", "await", "fallback", "prowlarr", "add",
             "confirmAdd", "resume", "stop", "delete", "absent", "wait", "passed", "failed"}
  /\ proof \in {"handoff", "complete"}
  /\ untried \subseteq Releases /\ before \subseteq Releases
  /\ magnet \in Releases \cup {None} /\ hash \in Releases \cup {None}
  /\ tolerant \in BOOLEAN /\ seen \in BOOLEAN /\ searches \in Nat
  /\ listed \subseteq Releases /\ finished \subseteq Releases /\ coming \in [Releases -> Nat]
  /\ strays \in Nat
  /\ pc \in {"await", "resume", "stop", "delete", "absent", "wait", "passed"} => hash \in Releases

(* What a passed acquisition leaves in eMule, now or when the last request has  *)
(* come through: the transfer it proved when it waits for it, nothing when it   *)
(* hands it off, and at most one for each request it had to give up on without   *)
(* knowing that it was carried out, whichever transfer it took for its own.      *)
Remaining == {r \in Releases : r \in listed \/ coming[r] > 0}
LeftoversExcused ==
  pc = "passed" =>
    Cardinality(Remaining) <= strays + (IF proof = "complete" THEN 1 ELSE 0)
====
