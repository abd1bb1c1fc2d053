---- MODULE StopTests ----
(***************************************************************************)
(* scripts/stop-running-tests.py: it selects the processes whose command    *)
(* line shows that they are test runners or helpers of the workspace, and    *)
(* stops the tree of each selected one whose parent is not selected.  Before *)
(* each tree it looks and selects again, and it stops only the selected      *)
(* members of the tree, children first.                                    *)
(***************************************************************************)
EXTENDS Processes

ASSUME LinesAssumption == Lines \subseteq {"runner", "helper", "other", "stopper"}

VARIABLES
  stage,     \* where the script is
  self,      \* its own process
  wanted,    \* history: the processes selected when the script began
  roots,     \* pids of termination_roots still to be stopped
  begun,     \* history: the instances of those roots
  targets,   \* the current tree's selected members
  todo,      \* targets still to be terminated
  code       \* the largest return code so far

script == <<stage, self, wanted, roots, begun, targets, todo, code>>
vars == <<processes, script>>

Init ==
  /\ ProcessesInit
  /\ stage = "idle" /\ self = 0 /\ wanted = {} /\ roots = {} /\ begun = {}
  /\ targets = {} /\ todo = {} /\ code = 0

----------------------------------------------------------------------------
(* select_test_processes(): a runner by its own evidence, another process by    *)
(* its own evidence too, whether or not a runner created it.  The script is    *)
(* not among them.                                                          *)
Selected == {i \in live : line[i] \in {"runner", "helper"}}

(* termination_roots().                                                     *)
TerminationRoots == {i \in Selected : ParentPid(i) \notin {pidOf[j] : j \in Selected}}

(* current_stop_targets() for the pid a root had.                            *)
WholeTree(pid) ==
  IF Holder(pid) \cap Selected = {} THEN {}
  ELSE UNION {Tree(live, i) : i \in Holder(pid)}
StopTargets(pid) ==
  IF Holder(pid) \cap Selected = {} THEN {}
  ELSE Selected \cap UNION {Tree(live, i) : i \in Holder(pid)}

Survey(me) ==
  /\ stage = "idle" /\ me \in live /\ line[me] = "stopper"
  /\ self' = me
  /\ wanted' = Selected
  /\ begun' = TerminationRoots
  /\ roots' = {pidOf[i] : i \in TerminationRoots}
  /\ stage' = "roots"
  /\ UNCHANGED <<processes, targets, todo, code>>

(* stop_process_tree().                                                     *)
NotSelectedAnyMore(pid) ==
  /\ stage = "roots" /\ pid \in roots /\ StopTargets(pid) = {}
  /\ roots' = roots \ {pid} /\ code' = 1
  /\ UNCHANGED <<processes, stage, self, wanted, begun, targets, todo>>

StopTree(pid) ==
  /\ stage = "roots" /\ pid \in roots /\ StopTargets(pid) # {}
  /\ ~Endless(StopTargets(pid))
  /\ roots' = roots \ {pid}
  /\ targets' = StopTargets(pid) /\ todo' = targets'
  /\ stage' = "killing"
  /\ UNCHANGED <<processes, self, wanted, begun, code>>

TooDeep(pid) ==
  /\ stage = "roots" /\ pid \in roots /\ Endless(StopTargets(pid))
  /\ stage' = "raised"
  /\ UNCHANGED <<processes, self, wanted, roots, begun, targets, todo, code>>

Turn(i) == stage = "killing" /\ i \in todo /\ \A j \in todo : Depth(targets, i) <= Depth(targets, j)

TerminateTarget(i, kill) ==
  /\ Turn(i)
  /\ todo' = todo \ {i}
  /\ killed' = IF kill THEN killed \cup (live \cap {i}) ELSE killed
  /\ UNCHANGED <<born, live, pidOf, parent, line, stage, self, wanted, roots, begun, targets, code>>

TerminateRaises(i) ==
  /\ Turn(i) /\ i \in live
  /\ stage' = "raised"
  /\ UNCHANGED <<processes, self, wanted, roots, begun, targets, todo, code>>

(* The wait for the targets, which may run out of time.                       *)
TreeStoppedAtOnce ==
  /\ stage = "killing" /\ todo = {}
  /\ UNCHANGED code
  /\ stage' = "roots"
  /\ UNCHANGED <<processes, self, wanted, roots, begun, targets, todo>>

TreeStopped ==
  /\ stage = "killing" /\ todo = {}
  /\ \/ targets \cap live = {} /\ UNCHANGED code
     \/ targets \cap live # {} /\ code' = 1
  /\ stage' = "roots"
  /\ UNCHANGED <<processes, self, wanted, roots, begun, targets, todo>>

Finish ==
  /\ stage = "roots" /\ roots = {}
  /\ stage' = "ended"
  /\ UNCHANGED <<processes, self, wanted, roots, begun, targets, todo, code>>

----------------------------------------------------------------------------
Next ==
  \/ \E i \in Instances : Survey(i)
  \/ \E pid \in Pids : NotSelectedAnyMore(pid) \/ StopTree(pid) \/ TooDeep(pid)
  \/ \E i \in Instances, kill \in BOOLEAN : TerminateTarget(i, kill)
  \/ \E i \in Instances : TerminateRaises(i)
  \/ TreeStopped \/ Finish
  \/ Machine /\ self \notin live \ live' /\ UNCHANGED script

Spec == Init /\ [][Next]_vars

----------------------------------------------------------------------------
TypeOK ==
  /\ ProcessesTypeOK
  /\ stage \in {"idle", "roots", "killing", "ended", "raised"}
  /\ self \in 0..born /\ wanted \subseteq 1..born /\ begun \subseteq wanted
  /\ roots \subseteq Pids /\ targets \subseteq 1..born /\ todo \subseteq targets
  /\ code \in {0, 1}

(* Only processes with evidence of their own are killed, never the script       *)
(* itself nor a bystander below a runner, whatever pids are reused between     *)
(* the selection and the termination.                                       *)
OnlyEvident == killed \subseteq {i \in 1..born : line[i] \in {"runner", "helper"}} \ {self}

(* When the script reports success, each process that headed a tree when it     *)
(* began has gone, although trees were looked at one after the other.         *)
RootsAreGone == stage = "ended" /\ code = 0 => begun \cap live = {}
====
