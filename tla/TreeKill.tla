---- MODULE TreeKill ----
(***************************************************************************)
(* terminate_process_tree() of emule_test_harness/windows_processes.py and   *)
(* its callers: the caller knows one of its processes by pid, perhaps by the *)
(* creation date and markers of its command line; the call looks at the      *)
(* processes once, checks the root, terminates the tree it saw children      *)
(* first, and waits for its members to go.  Processes come and go meanwhile. *)
(***************************************************************************)
EXTENDS Processes

CONSTANTS
  DateSources  \* expected_root_creation_date: kept since "launch", or looked up at the "call"

ASSUME TreeKillAssumption ==
  /\ DateSources \subseteq {"launch", "call"}
  /\ Lines \subseteq {"ours", "other", "blank"}

VARIABLES
  stage,     \* where the call is
  dateFrom,  \* where this caller's expected_root_creation_date comes from
  meant,     \* the process the caller means, 0 before it decides to end it
  expected,  \* expected_root_creation_date, 0 is ""
  root,      \* the root row of the snapshot
  targets,   \* the tree of the snapshot, once the root is accepted
  todo,      \* targets still to be terminated
  remaining  \* remaining targets as last looked up

call == <<stage, dateFrom, meant, expected, root, targets, todo, remaining>>
vars == <<processes, call>>

Init ==
  /\ ProcessesInit
  /\ stage = "idle" /\ dateFrom \in DateSources /\ meant = 0 /\ expected = 0 /\ root = 0
  /\ targets = {} /\ todo = {} /\ remaining = {}

----------------------------------------------------------------------------
(* A caller decides to end a process of its own, whose command line names its  *)
(* profile or script unless it cannot be read.                              *)
Decide(i) ==
  /\ stage = "idle" /\ i \in live /\ line[i] # "other"
  /\ meant' = i
  /\ expected' = IF dateFrom = "launch" THEN i ELSE 0
  /\ stage' = IF dateFrom = "call" THEN "date" ELSE "collect"
  /\ UNCHANGED <<processes, dateFrom, root, targets, todo, remaining>>

(* terminate_pid_tree(): process_creation_date(pid), if the pid exists at all. *)
LookUpDate ==
  /\ stage = "date"
  /\ IF Holder(pidOf[meant]) = {}
     THEN stage' = "gone" /\ UNCHANGED expected
     ELSE expected' \in Holder(pidOf[meant]) /\ stage' = "collect"
  /\ UNCHANGED <<processes, dateFrom, meant, root, targets, todo, remaining>>

----------------------------------------------------------------------------
(* The root's creation date and markers; a command line that cannot be read    *)
(* passes the markers if the date was expected and is right.                 *)
DateIgnored(r) == FALSE
DateDiffers(r) == expected # 0 /\ expected # r
MarkersDiffer(r) == line[r] # "ours"
Bypassed(r) == MarkersDiffer(r) /\ ~DateDiffers(r) /\ expected # 0 /\ line[r] = "blank"

AcceptedByDate(r) == ~DateDiffers(r)
Accepted(r) == ~DateDiffers(r) /\ (MarkersDiffer(r) => Bypassed(r))

Gone ==
  /\ stage = "collect" /\ Holder(pidOf[meant]) = {}
  /\ stage' = "gone"
  /\ UNCHANGED <<processes, dateFrom, meant, expected, root, targets, todo, remaining>>

Refuse(r) ==
  /\ stage = "collect" /\ r \in Holder(pidOf[meant]) /\ ~Accepted(r)
  /\ root' = r /\ stage' = "refused"
  /\ UNCHANGED <<processes, dateFrom, meant, expected, targets, todo, remaining>>

Accept(r) ==
  /\ stage = "collect" /\ r \in Holder(pidOf[meant]) /\ Accepted(r)
  /\ ~Endless(Tree(live, r))
  /\ root' = r
  /\ targets' = Tree(live, r) /\ todo' = targets' /\ remaining' = targets'
  /\ stage' = "killing"
  /\ UNCHANGED <<processes, dateFrom, meant, expected>>

(* depth() recurses for ever when reused pids close a circle of parents.       *)
TooDeep(r) ==
  /\ stage = "collect" /\ r \in Holder(pidOf[meant]) /\ Accepted(r)
  /\ Endless(Tree(live, r))
  /\ root' = r /\ stage' = "raised"
  /\ UNCHANGED <<processes, dateFrom, meant, expected, targets, todo, remaining>>

(* terminate_process(): the process that holds the pid now, if it was created  *)
(* when the target was.  It may deny, or the call may raise.                 *)
TurnRootFirst(i) == stage = "killing" /\ i \in todo /\ \A j \in todo : Depth(targets, i) >= Depth(targets, j)
Turn(i) == stage = "killing" /\ i \in todo /\ \A j \in todo : Depth(targets, i) <= Depth(targets, j)
HoldsPid(i) == Holder(pidOf[i])
Verified(i) == Holder(pidOf[i]) \cap {i}

TerminateTarget(i, kill) ==
  /\ Turn(i)
  /\ todo' = todo \ {i}
  /\ killed' = IF kill THEN killed \cup Verified(i) ELSE killed
  /\ UNCHANGED <<born, live, pidOf, parent, line, stage, dateFrom, meant, expected, root, targets, remaining>>

TerminateRaises(i) ==
  /\ Turn(i) /\ Verified(i) # {}
  /\ stage' = "failed"
  /\ UNCHANGED <<processes, dateFrom, meant, expected, root, targets, todo, remaining>>

(* remaining_target_pids(): the targets whose instances still run, looked up   *)
(* once at least and again until none is left or the time is over.           *)
PidStillHeld == UNION {Holder(pidOf[i]) : i \in targets}
StillLive == targets \cap live

LookUpRemaining ==
  /\ stage \in {"killing", "waiting"} /\ todo = {} /\ remaining # {}
  /\ remaining' = StillLive
  /\ stage' = "waiting"
  /\ UNCHANGED <<processes, dateFrom, meant, expected, root, targets, todo>>

Return ==
  /\ stage = "waiting"
  /\ stage' = IF remaining = {} THEN "done" ELSE "failed"
  /\ UNCHANGED <<processes, dateFrom, meant, expected, root, targets, todo, remaining>>

----------------------------------------------------------------------------
CallStep ==
  \/ LookUpDate \/ Gone
  \/ \E r \in Instances : Refuse(r) \/ Accept(r) \/ TooDeep(r)
  \/ \E i \in Instances, kill \in BOOLEAN : TerminateTarget(i, kill)
  \/ \E i \in Instances : TerminateRaises(i)
  \/ LookUpRemaining \/ Return

Next ==
  \/ Machine /\ UNCHANGED call
  \/ \E i \in Instances : Decide(i)
  \/ CallStep

Spec == Init /\ [][Next]_vars

----------------------------------------------------------------------------
Ends == {"gone", "refused", "done", "failed", "raised"}
TypeOK ==
  /\ ProcessesTypeOK
  /\ stage \in {"idle", "date", "collect", "killing", "waiting"} \cup Ends
  /\ dateFrom \in DateSources /\ meant \in 0..born /\ expected \in 0..born /\ root \in 0..born
  /\ targets \subseteq 1..born /\ todo \subseteq targets /\ remaining \subseteq targets

(* A call implements the promise of Termination: only the instances of the     *)
(* accepted snapshot are killed, however pids are reused between the snapshot *)
(* and each termination, and success means that every one of them has gone.   *)
Outcome ==
  CASE stage \in {"idle", "date", "collect"} -> "none"
    [] stage \in {"gone", "refused", "raised"} -> "declined"
    [] stage \in {"killing", "waiting"} -> "killing"
    [] stage = "done" -> "done"
    [] OTHER -> "failed"

Promise == INSTANCE Termination WITH
  Instance <- Instances, past <- 1..born, doomed <- targets, outcome <- Outcome
KeepsPromise == Promise!Spec

(* "Children first": when a target is killed, everything the snapshot shows    *)
(* below it has had its turn, so no child is left without its supervisor.     *)
ChildrenFirst ==
  \A i \in targets \ todo : Kids(targets, i) \cap todo = {}

(* A caller that kept the creation date ends its own process or nothing: a     *)
(* stranger that took over the pid is never the root.                        *)
RootIsMeant == targets # {} /\ dateFrom = "launch" => root = meant

(* terminate_pid_tree() looks the date up by the pid it distrusts, so only the  *)
(* markers are left: a stranger that took over the pid is ended only if its    *)
(* command line cannot be read.                                             *)
StrangersStay ==
  targets # {} => \/ root = meant \/ line[root] = "ours"
                  \/ dateFrom = "call" /\ line[root] = "blank"

====
