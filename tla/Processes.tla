---- MODULE Processes ----
(***************************************************************************)
(* The Windows processes that the harness's process helpers look at        *)
(* (emule_test_harness/windows_processes.py).  An instance is numbered in   *)
(* the order of creation, so its number stands for its WMI creation date.   *)
(* A pid is free again once its instance has gone, and a child keeps its    *)
(* parent's pid when the parent is long gone and the pid another's.         *)
(***************************************************************************)
EXTENDS Integers, FiniteSets

CONSTANTS
  Pids,        \* process ids; 0 stands for a parent that is none of these
  Lines,       \* what a command line shows
  MaxInstance  \* bound: instances that are ever created

ASSUME ProcessesAssumption == 0 \notin Pids /\ Lines # {} /\ MaxInstance \in Nat \ {0}

VARIABLES
  born,     \* number of instances created so far
  live,     \* instances that run
  pidOf,    \* instance -> pid
  parent,   \* instance -> the instance that created it, 0 for none of these
  line,     \* instance -> its command line
  killed    \* instances that were told to terminate

processes == <<born, live, pidOf, parent, line, killed>>
Instances == 1..MaxInstance

ProcessesInit ==
  /\ born = 0 /\ live = {} /\ killed = {}
  /\ pidOf = [i \in Instances |-> 0] /\ parent = [i \in Instances |-> 0]
  /\ line = [i \in Instances |-> CHOOSE text \in Lines : TRUE]

Spawn(creator, pid, text) ==
  /\ born < MaxInstance
  /\ creator \in (live \ killed) \cup {0}
  /\ \A i \in live : pidOf[i] # pid
  /\ born' = born + 1
  /\ live' = live \cup {born'}
  /\ pidOf' = [pidOf EXCEPT ![born'] = pid]
  /\ parent' = [parent EXCEPT ![born'] = creator]
  /\ line' = [line EXCEPT ![born'] = text]
  /\ UNCHANGED killed

Exit(i) ==
  /\ i \in live
  /\ live' = live \ {i}
  /\ UNCHANGED <<born, pidOf, parent, line, killed>>

Machine ==
  \/ \E creator \in Instances \cup {0}, pid \in Pids, text \in Lines :
       Spawn(creator, pid, text)
  \/ \E i \in Instances : Exit(i)

----------------------------------------------------------------------------
(* A row of collect_processes() shows an instance's pid, its parent's pid,     *)
(* command line and creation date.                                          *)
ParentPid(i) == IF parent[i] = 0 THEN 0 ELSE pidOf[parent[i]]
Holder(pid) == {i \in live : pidOf[i] = pid}

(* children_by_parent(): children by what their rows say.                     *)
Kids(rows, i) == {j \in rows : ParentPid(j) = pidOf[i]}

(* collect_process_tree(): the root and whatever is below it.                 *)
Closed(rows, members) == \A i \in members : Kids(rows, i) \subseteq members
Tree(rows, root) ==
  {i \in rows : /\ root \in rows
                /\ \A members \in SUBSET rows :
                     (root \in members /\ Closed(rows, members)) => i \in members}

(* depth(): how long a chain of children hangs below a target.  Endless        *)
(* chains exceed the recursion limit.                                       *)
Above(targets, n) ==
  {i \in targets : \E chain \in [0..n -> targets] :
     chain[0] = i /\ \A k \in 1..n : chain[k] \in Kids(targets, chain[k - 1])}
Depth(targets, i) == Cardinality({n \in 1..MaxInstance : i \in Above(targets, n)})
Endless(targets) == Above(targets, MaxInstance) # {}

ProcessesTypeOK ==
  /\ born \in 0..MaxInstance /\ live \subseteq 1..born /\ killed \subseteq 1..born
  /\ pidOf \in [Instances -> Pids \cup {0}] /\ parent \in [Instances -> 0..MaxInstance]
  /\ line \in [Instances -> Lines]
  /\ \A i, j \in live : pidOf[i] = pidOf[j] => i = j
====
