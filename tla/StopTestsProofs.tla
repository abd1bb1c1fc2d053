---- MODULE StopTestsProofs ----
(***************************************************************************)
(* stop-running-tests.py kills only what its own evidence selects, and a     *)
(* success means that the trees it found have lost their roots, for any      *)
(* number of processes, pids and command lines.                             *)
(***************************************************************************)
EXTENDS StopTests, TLAPS

USE ProcessesAssumption, LinesAssumption

(* One step of the machine keeps the process table's types.                   *)
LEMMA MachineTypes ==
  ASSUME ProcessesTypeOK, Machine
  PROVE  ProcessesTypeOK' /\ born' \in Int /\ born' >= born /\ killed' = killed
<1>0. born \in Int /\ 0 <= born /\ MaxInstance \in Int
  BY DEF ProcessesTypeOK
<1>1. ASSUME NEW creator \in Instances \cup {0}, NEW pid \in Pids, NEW text \in Lines,
             Spawn(creator, pid, text)
      PROVE  ProcessesTypeOK' /\ born' \in Int /\ born' >= born /\ killed' = killed
  <2>1. born' = born + 1 /\ born' \in 0..MaxInstance /\ born' \in Instances /\ killed' = killed
    BY <1>0, <1>1 DEF Spawn, ProcessesTypeOK, Instances
  <2>2. 1..born \subseteq 1..born' /\ born' \in 1..born' /\ born' \notin 1..born
    BY <1>0, <2>1
  <2>3. live' \subseteq 1..born' /\ killed' \subseteq 1..born'
    BY <1>1, <2>1, <2>2 DEF Spawn, ProcessesTypeOK
  <2>4. pidOf' \in [Instances -> Pids \cup {0}] /\ line' \in [Instances -> Lines]
    BY <1>1 DEF Spawn, ProcessesTypeOK
  <2>5. parent' \in [Instances -> 0..MaxInstance]
    <3>1. creator \in 0..MaxInstance
      BY <1>0 DEF Instances
    <3> QED
      BY <1>1, <3>1 DEF Spawn, ProcessesTypeOK
  <2>6. \A i, j \in live' : pidOf'[i] = pidOf'[j] => i = j
    <3>1. \A i \in live : i \in Instances /\ i # born'
      BY <1>0, <2>1, <2>2 DEF ProcessesTypeOK, Instances
    <3>2. \A i \in live : pidOf'[i] = pidOf[i] /\ pidOf'[born'] = pid /\ pidOf[i] # pid
      BY <1>1, <2>1, <3>1 DEF Spawn, ProcessesTypeOK
    <3>3. live' = live \cup {born'}
      BY <1>1 DEF Spawn
    <3> QED
      BY <2>1, <3>2, <3>3, <1>1 DEF ProcessesTypeOK, Spawn
  <2> QED
    BY <1>0, <2>1, <2>3, <2>4, <2>5, <2>6 DEF ProcessesTypeOK
<1>2. ASSUME NEW i \in Instances, Exit(i)
      PROVE  ProcessesTypeOK' /\ born' \in Int /\ born' >= born /\ killed' = killed
  BY <1>0, <1>2 DEF Exit, ProcessesTypeOK
<1> QED
  BY <1>1, <1>2 DEF Machine

(* The machine's steps create processes only under new numbers: what there was   *)
(* keeps its pid and its command line, and nothing comes back.                 *)
LEMMA MachineKeeps ==
  ASSUME ProcessesTypeOK, Machine
  PROVE  /\ \A i \in 1..born : pidOf'[i] = pidOf[i] /\ line'[i] = line[i]
         /\ live' \cap (1..born) \subseteq live
         /\ \A i \in live' \ live : pidOf'[i] \in Pids
         /\ 1..born \subseteq 1..born' /\ 0..born \subseteq 0..born'
<1>0. born \in Int /\ 0 <= born /\ born' \in Int /\ born' >= born /\ 1..born \subseteq Instances
  BY MachineTypes DEF ProcessesTypeOK, Instances
<1>1. ASSUME NEW creator \in Instances \cup {0}, NEW pid \in Pids, NEW text \in Lines,
             Spawn(creator, pid, text)
      PROVE  /\ \A i \in 1..born : pidOf'[i] = pidOf[i] /\ line'[i] = line[i]
             /\ live' \cap (1..born) \subseteq live
             /\ \A i \in live' \ live : pidOf'[i] \in Pids
  <2>1. born + 1 \notin 1..born /\ born + 1 \in Instances
    BY <1>0, <1>1 DEF Spawn, Instances, ProcessesTypeOK
  <2> QED
    BY <1>0, <1>1, <2>1 DEF Spawn, ProcessesTypeOK
<1>2. ASSUME NEW i \in Instances, Exit(i)
      PROVE  /\ \A j \in 1..born : pidOf'[j] = pidOf[j] /\ line'[j] = line[j]
             /\ live' \cap (1..born) \subseteq live
             /\ \A j \in live' \ live : pidOf'[j] \in Pids
  BY <1>2 DEF Exit
<1>3. 1..born \subseteq 1..born' /\ 0..born \subseteq 0..born'
  BY <1>0
<1> QED
  BY <1>1, <1>2, <1>3 DEF Machine

----------------------------------------------------------------------------
(* The script is a process of its own kind, and its targets and the roots it      *)
(* began with are all processes with evidence.                                *)
Evident == {i \in 1..born : line[i] \in {"runner", "helper"}}
Evidence ==
  /\ stage = "idle" => self = 0 /\ killed = {} /\ begun = {}
  /\ stage # "idle" => self \in 1..born /\ line[self] = "stopper"
  /\ killed \subseteq Evident /\ targets \subseteq Evident /\ begun \subseteq Evident

(* While nothing has gone wrong, a root that still runs is still to be visited,    *)
(* or a target of the tree that is being stopped.                             *)
RootsAhead ==
  stage # "raised" /\ code = 0 =>
    \A root \in begun \cap live : pidOf[root] \in roots \/ (stage = "killing" /\ root \in targets)

(* What runs has a pid, and a script that has ended has visited its roots.        *)
LivePids == \A i \in live : pidOf[i] \in Pids
Visited == stage = "ended" => roots = {}
IInv == TypeOK /\ LivePids /\ Evidence /\ RootsAhead /\ Visited

LEMMA InitInv == Init => IInv
<1> SUFFICES ASSUME Init PROVE IInv
  OBVIOUS
<1>1. (CHOOSE text \in Lines : TRUE) \in Lines
  OBVIOUS
<1>2. ProcessesTypeOK
  BY <1>1 DEF Init, ProcessesInit, ProcessesTypeOK, Instances
<1> QED
  BY <1>2 DEF Init, ProcessesInit, IInv, TypeOK, LivePids, Evidence, Evident,
              RootsAhead, Visited

(* The machine's steps leave the script alone.                                    *)
LEMMA MachineInv ==
  ASSUME IInv, Machine, UNCHANGED script
  PROVE  IInv'
<1> USE DEF script
<1>1. ProcessesTypeOK' /\ killed' = killed
  BY MachineTypes DEF IInv, TypeOK
<1>2. /\ \A i \in 1..born : pidOf'[i] = pidOf[i] /\ line'[i] = line[i]
      /\ live' \cap (1..born) \subseteq live
      /\ 1..born \subseteq 1..born' /\ 0..born \subseteq 0..born'
  BY MachineKeeps DEF IInv, TypeOK
<1>9. \A i \in live' \ live : pidOf'[i] \in Pids
  BY MachineKeeps DEF IInv, TypeOK
<1>3. TypeOK'
  BY <1>1, <1>2 DEF IInv, TypeOK
<1>4. Evident \subseteq Evident'
  BY <1>2 DEF Evident
<1>5. Evidence'
  BY <1>1, <1>2, <1>4 DEF IInv, Evidence
<1>6. begun \subseteq 1..born
  BY DEF IInv, TypeOK
<1>7. RootsAhead'
  BY <1>2, <1>6 DEF IInv, RootsAhead
<1>8. LivePids' /\ Visited'
  BY <1>9, <1>2 DEF IInv, TypeOK, ProcessesTypeOK, LivePids, Visited
<1> QED
  BY <1>3, <1>5, <1>7, <1>8 DEF IInv

(* The tree of a process that runs is made of processes that run, itself among   *)
(* them: collect_process_tree().                                            *)
LEMMA TreeOfLive ==
  ASSUME NEW rows, NEW r \in rows
  PROVE  Tree(rows, r) \subseteq rows /\ r \in Tree(rows, r)
BY DEF Tree

(* What is selected runs and has evidence, and what is to be stopped is selected; *)
(* a selected process that holds the pid is to be stopped.                     *)
LEMMA SelectedAreEvident ==
  ASSUME ProcessesTypeOK, NEW pid \in Pids
  PROVE  /\ TerminationRoots \subseteq Selected /\ Selected \subseteq Evident /\ Selected \subseteq live
         /\ StopTargets(pid) \subseteq Selected
         /\ \A i \in live \cap Evident : pidOf[i] = pid => i \in StopTargets(pid)
<1>1. live \subseteq 1..born
  BY DEF ProcessesTypeOK
<1>2. TerminationRoots \subseteq Selected /\ Selected \subseteq Evident /\ Selected \subseteq live
  BY <1>1 DEF TerminationRoots, Selected, Evident
<1>3. StopTargets(pid) \subseteq Selected
  BY DEF StopTargets
<1>4. ASSUME NEW i \in live \cap Evident, pidOf[i] = pid
      PROVE  i \in StopTargets(pid)
  <2>1. i \in Holder(pid) /\ i \in Selected
    BY <1>4 DEF Holder, Selected, Evident
  <2>2. i \in Tree(live, i)
    BY TreeOfLive
  <2> QED
    BY <2>1, <2>2 DEF StopTargets
<1> QED
  BY <1>2, <1>3, <1>4

(* The survey: each root's pid is noted.                                          *)
LEMMA SurveyInv ==
  ASSUME IInv, NEW me \in Instances, Survey(me)
  PROVE  IInv'
<1>1. UNCHANGED <<processes, targets, todo, code>> /\ stage = "idle" /\ stage' = "roots"
      /\ me \in live /\ line[me] = "stopper" /\ self' = me /\ wanted' = Selected
      /\ begun' = TerminationRoots /\ roots' = {pidOf[i] : i \in TerminationRoots}
  BY DEF Survey
<1>2. ProcessesTypeOK /\ ProcessesTypeOK'
  BY <1>1 DEF IInv, TypeOK, ProcessesTypeOK, processes
<1>3. live \subseteq 1..born /\ me \in 1..born /\ 1..born \subseteq 0..born /\ me \in 0..born
  BY <1>1, <1>2 DEF ProcessesTypeOK
<1>4. TerminationRoots \subseteq Selected /\ Selected \subseteq live /\ Selected \subseteq Evident
  BY <1>3 DEF TerminationRoots, Selected, Evident
<1>5. roots' \subseteq Pids
  BY <1>1, <1>4 DEF IInv, LivePids
<1>6. TypeOK'
  BY <1>1, <1>2, <1>3, <1>4, <1>5 DEF IInv, TypeOK, processes
<1>7. LivePids' /\ Visited' /\ Evident' = Evident
  BY <1>1 DEF IInv, LivePids, Visited, Evident, processes
<1>8. Evidence'
  BY <1>1, <1>3, <1>4, <1>7 DEF IInv, Evidence, processes
<1>9. RootsAhead'
  BY <1>1 DEF RootsAhead, processes
<1> QED
  BY <1>6, <1>7, <1>8, <1>9 DEF IInv

(* A tree is looked up again: its root, if it still runs, is among the targets.      *)
LEMMA StopTreeInv ==
  ASSUME IInv, NEW pid \in Pids, StopTree(pid)
  PROVE  IInv'
<1>1. UNCHANGED <<processes, self, wanted, begun, code>> /\ stage = "roots" /\ stage' = "killing"
      /\ pid \in roots /\ roots' = roots \ {pid} /\ targets' = StopTargets(pid) /\ todo' = targets'
  BY DEF StopTree
<1>2. ProcessesTypeOK /\ ProcessesTypeOK'
  BY <1>1 DEF IInv, TypeOK, ProcessesTypeOK, processes
<1>3. /\ StopTargets(pid) \subseteq Evident
      /\ \A i \in live \cap Evident : pidOf[i] = pid => i \in StopTargets(pid)
  BY <1>2, SelectedAreEvident
<1>4. StopTargets(pid) \subseteq 1..born
  BY <1>3 DEF Evident
<1>5. TypeOK'
  BY <1>1, <1>2, <1>4 DEF IInv, TypeOK, processes
<1>6. LivePids' /\ Visited' /\ Evident' = Evident
  BY <1>1 DEF IInv, LivePids, Visited, Evident, processes
<1>7. Evidence'
  BY <1>1, <1>3, <1>6 DEF IInv, Evidence, processes
<1>8. RootsAhead'
  <2>1. ASSUME NEW root \in begun \cap live, code = 0
        PROVE  pidOf[root] \in roots \ {pid} \/ root \in StopTargets(pid)
    <3>1. pidOf[root] \in roots /\ root \in Evident
      BY <1>1, <2>1 DEF IInv, RootsAhead, Evidence
    <3> QED
      BY <1>3, <3>1
  <2> QED
    BY <1>1, <2>1 DEF RootsAhead, processes
<1> QED
  BY <1>5, <1>6, <1>7, <1>8 DEF IInv

LEMMA StepInv == IInv /\ [Next]_vars => IInv'
<1> SUFFICES ASSUME IInv, [Next]_vars PROVE IInv'
  OBVIOUS
<1>t. ASSUME UNCHANGED processes
      PROVE  ProcessesTypeOK' /\ LivePids' /\ Evident' = Evident
  BY <1>t DEF processes, IInv, TypeOK, ProcessesTypeOK, LivePids, Evident
<1>1. ASSUME NEW i \in Instances, Survey(i) PROVE IInv'
  BY <1>1, SurveyInv
<1>2. ASSUME NEW pid \in Pids, NotSelectedAnyMore(pid) PROVE IInv'
  <2> USE DEF processes
  <2>1. TypeOK' /\ Visited'
    BY <1>2, <1>t DEF NotSelectedAnyMore, IInv, TypeOK, Visited
  <2>2. Evidence' /\ RootsAhead'
    BY <1>2, <1>t DEF NotSelectedAnyMore, IInv, Evidence, RootsAhead
  <2> QED
    BY <1>2, <1>t, <2>1, <2>2 DEF NotSelectedAnyMore, IInv
<1>3. ASSUME NEW pid \in Pids, StopTree(pid) PROVE IInv'
  BY <1>3, StopTreeInv
<1>4. ASSUME NEW pid \in Pids, TooDeep(pid) PROVE IInv'
  <2> USE DEF processes
  <2>1. TypeOK' /\ Visited'
    BY <1>4, <1>t DEF TooDeep, IInv, TypeOK, Visited
  <2>2. Evidence' /\ RootsAhead'
    BY <1>4, <1>t DEF TooDeep, IInv, Evidence, RootsAhead
  <2> QED
    BY <1>4, <1>t, <2>1, <2>2 DEF TooDeep, IInv
<1>5. ASSUME NEW i \in Instances, NEW kill \in BOOLEAN, TerminateTarget(i, kill) PROVE IInv'
  <2>1. UNCHANGED <<born, live, pidOf, parent, line, stage, self, wanted, roots, begun, targets, code>>
        /\ stage = "killing" /\ todo' = todo \ {i} /\ i \in todo
        /\ killed' \subseteq killed \cup {i}
    BY <1>5 DEF TerminateTarget, Turn
  <2>2. i \in Evident /\ i \in targets /\ Evident' = Evident /\ Evident \subseteq 1..born
    BY <2>1 DEF IInv, TypeOK, Evidence, Evident
  <2>3. ProcessesTypeOK' /\ LivePids'
    BY <2>1, <2>2 DEF IInv, TypeOK, ProcessesTypeOK, LivePids
  <2>4. TypeOK' /\ Visited'
    BY <2>1, <2>3 DEF IInv, TypeOK, Visited
  <2>5. Evidence' /\ RootsAhead'
    BY <2>1, <2>2 DEF IInv, Evidence, RootsAhead
  <2> QED
    BY <2>3, <2>4, <2>5 DEF IInv
<1>6. ASSUME NEW i \in Instances, TerminateRaises(i) PROVE IInv'
  <2> USE DEF processes
  <2>1. TypeOK' /\ Visited'
    BY <1>6, <1>t DEF TerminateRaises, Turn, IInv, TypeOK, Visited
  <2>2. Evidence' /\ RootsAhead'
    BY <1>6, <1>t DEF TerminateRaises, Turn, IInv, Evidence, RootsAhead
  <2> QED
    BY <1>6, <1>t, <2>1, <2>2 DEF TerminateRaises, IInv
<1>7. CASE TreeStopped
  <2> USE DEF processes
  <2>1. TypeOK' /\ Visited'
    BY <1>7, <1>t DEF TreeStopped, IInv, TypeOK, Visited
  <2>2. Evidence'
    BY <1>7, <1>t DEF TreeStopped, IInv, Evidence
  <2>3. RootsAhead'
    <3>1. CASE targets \cap live = {} /\ UNCHANGED code
      BY <1>7, <3>1 DEF TreeStopped, IInv, RootsAhead
    <3>2. CASE code' = 1
      BY <3>2 DEF RootsAhead
    <3> QED
      BY <1>7, <3>1, <3>2 DEF TreeStopped
  <2> QED
    BY <1>7, <1>t, <2>1, <2>2, <2>3 DEF TreeStopped, IInv
<1>8. CASE Finish
  <2> USE DEF processes
  <2>1. TypeOK' /\ Visited'
    BY <1>8, <1>t DEF Finish, IInv, TypeOK, Visited
  <2>2. Evidence' /\ RootsAhead'
    BY <1>8, <1>t DEF Finish, IInv, Evidence, RootsAhead
  <2> QED
    BY <1>8, <1>t, <2>1, <2>2 DEF Finish, IInv
<1>9. CASE Machine /\ UNCHANGED script
  BY <1>9, MachineInv
<1>10. CASE UNCHANGED vars
  <2> USE DEF processes, script, vars
  <2>1. TypeOK' /\ Visited'
    BY <1>10, <1>t DEF IInv, TypeOK, Visited
  <2>2. Evidence' /\ RootsAhead'
    BY <1>10, <1>t DEF IInv, Evidence, RootsAhead
  <2> QED
    BY <1>10, <1>t, <2>1, <2>2 DEF IInv
<1> QED
  BY <1>1, <1>2, <1>3, <1>4, <1>5, <1>6, <1>7, <1>8, <1>9, <1>10 DEF Next

LEMMA Inductive == Spec => []IInv
BY InitInv, StepInv, PTL DEF Spec

----------------------------------------------------------------------------
(* The process table and the script keep their types; in particular the return      *)
(* code is a success or one failure, however many trees went wrong.             *)
THEOREM TypeCorrect == Spec => []TypeOK
<1>1. IInv => TypeOK
  BY DEF IInv
<1> QED
  BY <1>1, Inductive, PTL

(* Only processes with evidence of their own are told to terminate, and the         *)
(* script is never one of them, whatever pids are reused meanwhile.             *)
THEOREM OnlyEvidentKilled == Spec => []OnlyEvident
<1>1. IInv => OnlyEvident
  <2> SUFFICES ASSUME IInv PROVE OnlyEvident
    OBVIOUS
  <2>1. killed \subseteq Evident /\ (stage # "idle" => line[self] = "stopper")
        /\ (stage = "idle" => killed = {})
    BY DEF IInv, Evidence
  <2>2. stage # "idle" => self \notin Evident
    BY <2>1 DEF Evident
  <2> QED
    BY <2>1, <2>2 DEF OnlyEvident, Evident
<1> QED
  BY <1>1, Inductive, PTL

(* A success means that each process that headed a tree when the script began        *)
(* has gone.                                                                  *)
THEOREM RootsGone == Spec => []RootsAreGone
<1>1. IInv => RootsAreGone
  BY DEF IInv, Visited, RootsAhead, RootsAreGone
<1> QED
  BY <1>1, Inductive, PTL
====
