---- MODULE Termination ----
(***************************************************************************)
(* What terminating a process tree promises: the processes to go are        *)
(* chosen once, all of them running; only these are ever killed; and the     *)
(* call reports success only when every one of them has gone, after which   *)
(* none comes back.                                                        *)
(***************************************************************************)
CONSTANT Instance

VARIABLES
  past,     \* instances that ever ran
  live,     \* instances that run
  doomed,   \* instances chosen
  killed,   \* instances killed
  outcome   \* what the call came to

vars == <<past, live, doomed, killed, outcome>>

Init == past = {} /\ live = {} /\ doomed = {} /\ killed = {} /\ outcome = "none"

Start(i) ==
  /\ i \in Instance \ past
  /\ past' = past \cup {i} /\ live' = live \cup {i}
  /\ UNCHANGED <<doomed, killed, outcome>>

Exit(i) ==
  /\ i \in live
  /\ live' = live \ {i}
  /\ UNCHANGED <<past, doomed, killed, outcome>>

Choose(targets) ==
  /\ outcome = "none" /\ targets # {}
  /\ doomed' = targets /\ outcome' = "killing"
  /\ UNCHANGED <<past, live, killed>>

Decline ==
  /\ outcome = "none" /\ outcome' = "declined"
  /\ UNCHANGED <<past, live, doomed, killed>>

Kill(i) ==
  /\ outcome = "killing" /\ i \in doomed \cap live
  /\ killed' = killed \cup {i}
  /\ UNCHANGED <<past, live, doomed, outcome>>

Succeed ==
  /\ outcome = "killing" /\ doomed \cap live = {}
  /\ outcome' = "done"
  /\ UNCHANGED <<past, live, doomed, killed>>

Fail ==
  /\ outcome = "killing" /\ outcome' = "failed"
  /\ UNCHANGED <<past, live, doomed, killed>>

Next ==
  \/ \E i \in Instance : Start(i) \/ Exit(i) \/ Kill(i)
  \/ \E targets \in SUBSET live : Choose(targets)
  \/ Decline \/ Succeed \/ Fail

Spec == Init /\ [][Next]_vars
====
