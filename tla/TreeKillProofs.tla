---- MODULE TreeKillProofs ----
(***************************************************************************)
(* TreeKill keeps its types, takes the root it should, and implements        *)
(* Termination, children first, for any number of processes, pids and lines. *)
(***************************************************************************)
EXTENDS TreeKill, FiniteSetTheorems, TLAPS

(* The tree of a process that runs is made of processes that run, itself among  *)
(* them: collect_process_tree().                                            *)
LEMMA TreeOfLive ==
  ASSUME NEW rows, NEW r \in rows
  PROVE  Tree(rows, r) \subseteq rows /\ r \in Tree(rows, r)
BY DEF Tree

USE ProcessesAssumption, TreeKillAssumption

(* One step of the machine keeps the process table's types.                   *)
LEMMA MachineTypes ==
  ASSUME ProcessesTypeOK, Machine
  PROVE  ProcessesTypeOK' /\ born' \in Int /\ born' >= born /\ killed' = killed
<1>0. born \in Int /\ 0 <= born /\ MaxInstance \in Int
  BY DEF ProcessesTypeOK
<1>1. ASSUME NEW creator \in Instances \cup {0}, NEW pid \in Pids, NEW text \in Lines,
             Spawn(creator, pid, text)
      PROVE  ProcessesTypeOK' /\ born' \in Int /\ born' >= born /\ killed' = killed
  <2>1. born' = born + 1 /\ born' \in 0..MaxInstance /\ born' \in Instances /\ killed' = killed
    BY <1>0, <1>1 DEF Spawn, ProcessesTypeOK, Instances
  <2>2. 1..born \subseteq 1..born' /\ born' \in 1..born' /\ born' \notin 1..born
    BY <1>0, <2>1
  <2>3. live' \subseteq 1..born' /\ killed' \subseteq 1..born'
    BY <1>1, <2>1, <2>2 DEF Spawn, ProcessesTypeOK
  <2>4. pidOf' \in [Instances -> Pids \cup {0}] /\ line' \in [Instances -> Lines]
    BY <1>1 DEF Spawn, ProcessesTypeOK
  <2>5. parent' \in [Instances -> 0..MaxInstance]
    <3>1. creator \in 0..MaxInstance
      BY <1>0 DEF Instances
    <3> QED
      BY <1>1, <3>1 DEF Spawn, ProcessesTypeOK
  <2>6. \A i, j \in live' : pidOf'[i] = pidOf'[j] => i = j
    <3>1. \A i \in live : i \in Instances /\ i # born'
      BY <1>0, <2>1, <2>2 DEF ProcessesTypeOK, Instances
    <3>2. \A i \in live : pidOf'[i] = pidOf[i] /\ pidOf'[born'] = pid /\ pidOf[i] # pid
      BY <1>1, <2>1, <3>1 DEF Spawn, ProcessesTypeOK
    <3>3. live' = live \cup {born'}
      BY <1>1 DEF Spawn
    <3> QED
      BY <2>1, <3>2, <3>3, <1>1 DEF ProcessesTypeOK, Spawn
  <2> QED
    BY <1>0, <2>1, <2>3, <2>4, <2>5, <2>6 DEF ProcessesTypeOK
<1>2. ASSUME NEW i \in Instances, Exit(i)
      PROVE  ProcessesTypeOK' /\ born' \in Int /\ born' >= born /\ killed' = killed
  BY <1>0, <1>2 DEF Exit, ProcessesTypeOK
<1> QED
  BY <1>1, <1>2 DEF Machine

----------------------------------------------------------------------------
(* Nothing is chosen before the root is accepted; a caller that kept the date   *)
(* expects its own process; the root is one that ran, and passed the checks;    *)
(* and while the call waits, what still runs is among what it last looked up.  *)
Early == stage \in {"idle", "date", "collect"} => targets = {}
Expecting == (dateFrom = "launch" /\ stage # "idle") =>
               (expected = meant /\ meant # 0 /\ stage # "date")
RootRan == targets # {} => root \in 1..born
Watched == stage = "waiting" => targets \cap live \subseteq remaining
IInv == TypeOK /\ Early /\ Expecting /\ RootRan /\ RootIsMeant /\ StrangersStay /\ Watched

LEMMA InitInv == Init => IInv
<1> SUFFICES ASSUME Init PROVE IInv
  OBVIOUS
<1>1. (CHOOSE text \in Lines : TRUE) \in Lines
  OBVIOUS
<1>2. ProcessesTypeOK
  BY <1>1 DEF Init, ProcessesInit, ProcessesTypeOK, Instances
<1> QED
  BY <1>2 DEF Init, ProcessesInit, IInv, TypeOK, Early, Expecting, RootRan, RootIsMeant,
              StrangersStay, Watched

(* The machine's steps leave the call alone, and a new process is none of its   *)
(* targets.                                                                 *)
LEMMA MachineInv ==
  ASSUME IInv, Machine, UNCHANGED call
  PROVE  IInv'
<1> USE DEF call
<1>1. ProcessesTypeOK' /\ born' \in Int /\ born' >= born /\ born \in Int /\ 0 <= born
  BY MachineTypes DEF IInv, TypeOK, ProcessesTypeOK
<1>2. 1..born \subseteq 1..born' /\ 0..born \subseteq 0..born'
  BY <1>1
<1>3. TypeOK'
  BY <1>1, <1>2 DEF IInv, TypeOK
<1>4. targets \cap live' \subseteq live
  <2>1. ASSUME NEW creator \in Instances \cup {0}, NEW pid \in Pids, NEW text \in Lines,
               Spawn(creator, pid, text)
        PROVE  targets \cap live' \subseteq live
    <3>1. born + 1 \notin 1..born
      BY <1>1
    <3> QED
      BY <2>1, <3>1 DEF Spawn, IInv, TypeOK
  <2> QED
    BY <2>1 DEF Machine, Exit
<1>5. \A r \in 1..born : line'[r] = line[r]
  <2>1. ASSUME NEW creator \in Instances \cup {0}, NEW pid \in Pids, NEW text \in Lines,
               Spawn(creator, pid, text), NEW r \in 1..born
        PROVE  line'[r] = line[r]
    <3>1. r # born + 1 /\ r \in Instances /\ line \in [Instances -> Lines]
      BY <1>1 DEF IInv, TypeOK, ProcessesTypeOK, Instances
    <3> QED
      BY <2>1, <3>1 DEF Spawn
  <2> QED
    BY <2>1 DEF Machine, Exit
<1> QED
  BY <1>2, <1>3, <1>4, <1>5 DEF IInv, Early, Expecting, RootRan, RootIsMeant, StrangersStay, Watched

(* Accepting a root: it holds the pid, and its date and markers passed.          *)
LEMMA AcceptInv ==
  ASSUME IInv, NEW r \in Instances, Accept(r)
  PROVE  IInv'
<1>1. r \in live /\ live \subseteq 1..born /\ r \in 1..born /\ UNCHANGED processes
  BY DEF Accept, Holder, IInv, TypeOK, ProcessesTypeOK
<1>2. targets' \subseteq live /\ targets' \subseteq 1..born /\ root' = r
  BY <1>1, TreeOfLive DEF Accept
<1>3. UNCHANGED <<dateFrom, meant, expected>> /\ stage = "collect" /\ stage' = "killing"
      /\ todo' = targets' /\ remaining' = targets'
  BY DEF Accept
<1>4. ProcessesTypeOK'
  BY <1>1 DEF processes, IInv, TypeOK, ProcessesTypeOK
<1>5. TypeOK'
  BY <1>1, <1>2, <1>3, <1>4 DEF processes, IInv, TypeOK
<1>6. dateFrom = "launch" => r = meant
  BY <1>3 DEF Accept, Accepted, DateDiffers, IInv, Expecting
<1>7. line[r] = "ours" \/ line[r] = "blank"
  BY DEF Accept, Accepted, MarkersDiffer, Bypassed
<1>8. dateFrom \in {"launch", "call"}
  BY DEF IInv, TypeOK
<1> QED
  BY <1>1, <1>2, <1>3, <1>5, <1>6, <1>7, <1>8
     DEF processes, IInv, Early, Expecting, RootRan, RootIsMeant, StrangersStay, Watched

LEMMA StepInv == IInv /\ [Next]_vars => IInv'
<1> SUFFICES ASSUME IInv, [Next]_vars PROVE IInv'
  OBVIOUS
<1> USE DEF IInv, TypeOK, Ends, Early, Expecting, RootRan, RootIsMeant, StrangersStay, Watched
<1>t. ASSUME UNCHANGED processes PROVE ProcessesTypeOK'
  BY <1>t DEF processes, ProcessesTypeOK
<1>b. live \subseteq 1..born /\ killed \subseteq 1..born /\ 1..born \subseteq 0..born /\ 0 \in 0..born
  BY DEF ProcessesTypeOK
<1>1. CASE Machine /\ UNCHANGED call
  BY <1>1, MachineInv
<1>2. ASSUME NEW i \in Instances, Decide(i) PROVE IInv'
  <2>1. i \in 0..born /\ i # 0
    BY <1>2, <1>b DEF Decide, ProcessesTypeOK
  <2>2. dateFrom \in {"launch", "call"}
    OBVIOUS
  <2> QED
    BY <1>2, <1>t, <1>b, <2>1, <2>2 DEF Decide, processes
<1>3. CASE LookUpDate
  <2>1. Holder(pidOf[meant]) \subseteq 0..born
    BY <1>b DEF Holder
  <2> QED
    BY <1>3, <1>t, <2>1 DEF LookUpDate, processes
<1>4. CASE Gone
  BY <1>4, <1>t DEF Gone, processes
<1>5. ASSUME NEW r \in Instances, Refuse(r) \/ TooDeep(r) PROVE IInv'
  <2>1. r \in 0..born
    BY <1>5, <1>b DEF Refuse, TooDeep, Holder
  <2> QED
    BY <1>5, <1>t, <2>1 DEF Refuse, TooDeep, processes
<1>6. ASSUME NEW r \in Instances, Accept(r) PROVE IInv'
  BY <1>6, AcceptInv
<1>7. ASSUME NEW i \in Instances, NEW kill \in BOOLEAN, TerminateTarget(i, kill) PROVE IInv'
  <2>1. killed' \subseteq 1..born
    BY <1>7, <1>b DEF TerminateTarget, Verified, Holder
  <2>2. ProcessesTypeOK'
    BY <1>7, <2>1 DEF TerminateTarget, ProcessesTypeOK
  <2> QED
    BY <1>7, <2>2 DEF TerminateTarget, Turn
<1>8. ASSUME NEW i \in Instances, TerminateRaises(i) PROVE IInv'
  BY <1>8, <1>t DEF TerminateRaises, Turn, processes
<1>9. CASE LookUpRemaining
  BY <1>9, <1>t DEF LookUpRemaining, StillLive, processes
<1>10. CASE Return
  BY <1>10, <1>t DEF Return, processes
<1>11. CASE UNCHANGED vars
  BY <1>11, <1>t DEF vars, call, processes
<1> QED
  BY <1>1, <1>2, <1>3, <1>4, <1>5, <1>6, <1>7, <1>8, <1>9, <1>10, <1>11 DEF Next, CallStep

LEMMA Inductive == Spec => []IInv
BY InitInv, StepInv, PTL DEF Spec

----------------------------------------------------------------------------
(* The process table and the call keep their types.                            *)
THEOREM TypeCorrect == Spec => []TypeOK
<1>1. IInv => TypeOK
  BY DEF IInv
<1> QED
  BY <1>1, Inductive, PTL

(* A caller that kept the creation date since the launch never ends another's   *)
(* tree, however often its pid is reused.                                   *)
THEOREM RootIsTheirs == Spec => []RootIsMeant
<1>1. IInv => RootIsMeant
  BY DEF IInv
<1> QED
  BY <1>1, Inductive, PTL

(* A stranger's tree is ended only under its own markers, or under a command    *)
(* line that cannot be read when the date was looked up at the call.          *)
THEOREM StrangersAreSpared == Spec => []StrangersStay
<1>1. IInv => StrangersStay
  BY DEF IInv
<1> QED
  BY <1>1, Inductive, PTL

----------------------------------------------------------------------------
(* Processes that start and go do so in the promise as well.                    *)
LEMMA MachineRefines ==
  ASSUME IInv, Machine, UNCHANGED call
  PROVE  Promise!Next
<1> USE DEF call
<1>1. born \in Int /\ 0 <= born /\ MaxInstance \in Int /\ Outcome' = Outcome
  BY DEF IInv, TypeOK, ProcessesTypeOK, Outcome
<1>2. ASSUME NEW creator \in Instances \cup {0}, NEW pid \in Pids, NEW text \in Lines,
             Spawn(creator, pid, text)
      PROVE  Promise!Next
  <2>1. born' = born + 1 /\ live' = live \cup {born'} /\ killed' = killed
    BY <1>2 DEF Spawn
  <2>2. born' \in Instances \ (1..born) /\ 1..born' = (1..born) \cup {born'}
    BY <1>1, <1>2, <2>1 DEF Spawn, Instances
  <2>3. Promise!Start(born')
    BY <1>1, <2>1, <2>2 DEF Promise!Start
  <2> QED
    BY <2>2, <2>3 DEF Promise!Next
<1>3. ASSUME NEW i \in Instances, Exit(i)
      PROVE  Promise!Next
  <2>1. Promise!Exit(i)
    BY <1>1, <1>3 DEF Exit, Promise!Exit
  <2> QED
    BY <2>1 DEF Promise!Next
<1> QED
  BY <1>2, <1>3 DEF Machine

(* Every step of the call is one of the promise, or none: the tree it saw is     *)
(* what it chose, it ends what it chose, and "waiting" with nothing left to     *)
(* look up means that nothing of it runs.                                   *)
LEMMA StepRefines == IInv /\ [Next]_vars => [Promise!Next]_(Promise!vars)
<1> SUFFICES ASSUME IInv, [Next]_vars PROVE Promise!Next \/ UNCHANGED Promise!vars
  BY DEF Promise!vars
<1> USE DEF Promise!vars, Outcome, processes
<1>1. CASE Machine /\ UNCHANGED call
  BY <1>1, MachineRefines
<1>2. ASSUME NEW i \in Instances, Decide(i) PROVE UNCHANGED Promise!vars
  BY <1>2 DEF Decide
<1>3. CASE LookUpDate
  <2>1. CASE stage' = "gone"
    <3>1. Promise!Decline
      BY <1>3, <2>1 DEF LookUpDate, Promise!Decline
    <3> QED
      BY <3>1 DEF Promise!Next
  <2>2. CASE stage' = "collect"
    BY <1>3, <2>2 DEF LookUpDate
  <2> QED
    BY <1>3, <2>1, <2>2 DEF LookUpDate
<1>4. CASE Gone
  <2>1. Promise!Decline
    BY <1>4 DEF Gone, Promise!Decline
  <2> QED
    BY <2>1 DEF Promise!Next
<1>5. ASSUME NEW r \in Instances, Refuse(r) \/ TooDeep(r) PROVE Promise!Next
  <2>1. Promise!Decline
    BY <1>5 DEF Refuse, TooDeep, Promise!Decline
  <2> QED
    BY <2>1 DEF Promise!Next
<1>6. ASSUME NEW r \in Instances, Accept(r) PROVE Promise!Next
  <2>1. r \in live
    BY <1>6 DEF Accept, Holder
  <2>2. Tree(live, r) \subseteq live /\ Tree(live, r) # {}
    BY <2>1, TreeOfLive
  <2>3. Promise!Choose(Tree(live, r))
    BY <1>6, <2>2 DEF Accept, Promise!Choose
  <2> QED
    BY <2>2, <2>3 DEF Promise!Next
<1>7. ASSUME NEW i \in Instances, NEW kill \in BOOLEAN, TerminateTarget(i, kill)
      PROVE  Promise!Next \/ UNCHANGED Promise!vars
  <2>1. CASE kill /\ Verified(i) # {}
    <3>1. i \in live /\ Verified(i) = {i}
      BY <2>1 DEF Verified, Holder
    <3>2. i \in targets /\ stage = "killing"
      BY <1>7 DEF TerminateTarget, Turn, IInv, TypeOK
    <3>3. Promise!Kill(i)
      BY <1>7, <2>1, <3>1, <3>2 DEF TerminateTarget, Promise!Kill
    <3> QED
      BY <3>3 DEF Promise!Next
  <2>2. CASE ~(kill /\ Verified(i) # {})
    BY <1>7, <2>2 DEF TerminateTarget
  <2> QED
    BY <2>1, <2>2
<1>8. ASSUME NEW i \in Instances, TerminateRaises(i) PROVE Promise!Next
  <2>1. Promise!Fail
    BY <1>8 DEF TerminateRaises, Turn, Promise!Fail
  <2> QED
    BY <2>1 DEF Promise!Next
<1>9. CASE LookUpRemaining
  BY <1>9 DEF LookUpRemaining
<1>10. CASE Return
  <2>1. CASE remaining = {}
    <3>1. targets \cap live = {}
      BY <1>10, <2>1 DEF Return, IInv, Watched
    <3>2. Promise!Succeed
      BY <1>10, <2>1, <3>1 DEF Return, Promise!Succeed
    <3> QED
      BY <3>2 DEF Promise!Next
  <2>2. CASE remaining # {}
    <3>1. Promise!Fail
      BY <1>10, <2>2 DEF Return, Promise!Fail
    <3> QED
      BY <3>1 DEF Promise!Next
  <2> QED
    BY <2>1, <2>2
<1>11. CASE UNCHANGED vars
  BY <1>11 DEF vars, call
<1> QED
  BY <1>1, <1>2, <1>3, <1>4, <1>5, <1>6, <1>7, <1>8, <1>9, <1>10, <1>11 DEF Next, CallStep

(* terminate_process_tree() implements Termination: it ends only processes of   *)
(* the tree it accepted, and reports success only when all of them have gone.  *)
THEOREM ImplementsTermination == Spec => KeepsPromise
<1>1. Init => Promise!Init
  BY DEF Init, ProcessesInit, Promise!Init, Outcome
<1> QED
  BY <1>1, Inductive, StepRefines, PTL DEF Spec, KeepsPromise, Promise!Spec
----------------------------------------------------------------------------
(* A chain of children below a child is one longer below its parent, ...         *)
LEMMA LongerAbove ==
  ASSUME NEW members, NEW i \in members, NEW j \in Kids(members, i), NEW n \in Nat,
         j \in Above(members, n)
  PROVE  i \in Above(members, n + 1)
<1>1. PICK chain \in [0..n -> members] :
        chain[0] = j /\ \A k \in 1..n : chain[k] \in Kids(members, chain[k - 1])
  BY DEF Above
<1> DEFINE longer == [k \in 0..(n + 1) |-> IF k = 0 THEN i ELSE chain[k - 1]]
<1>2. longer \in [0..(n + 1) -> members] /\ longer[0] = i
  BY <1>1
<1>3. ASSUME NEW k \in 1..(n + 1)
      PROVE  longer[k] \in Kids(members, longer[k - 1])
  <2>1. longer[k] = chain[k - 1] /\ k - 1 \in 0..(n + 1)
    OBVIOUS
  <2>2. CASE k = 1
    BY <1>1, <2>1, <2>2
  <2>3. CASE k # 1
    <3>1. k - 1 \in 1..n /\ longer[k - 1] = chain[(k - 1) - 1]
      BY <2>3
    <3> QED
      BY <1>1, <2>1, <3>1
  <2> QED
    BY <2>2, <2>3
<1> HIDE DEF longer
<1> QED
  BY <1>2, <1>3 DEF Above

(* ... so that depth() puts a child strictly before its parent, unless chains    *)
(* without end make it raise.                                               *)
LEMMA ChildIsShallower ==
  ASSUME NEW members, NEW i \in members, NEW j \in Kids(members, i), ~Endless(members)
  PROVE  Depth(members, i) \in Int /\ Depth(members, j) \in Int
         /\ Depth(members, j) < Depth(members, i)
<1> DEFINE Lengths(x) == {n \in 1..MaxInstance : x \in Above(members, n)}
<1>1. MaxInstance \in Nat /\ 1 \in 1..MaxInstance
  OBVIOUS
<1>2. \A x : Lengths(x) \in SUBSET (1..MaxInstance) /\ IsFiniteSet(Lengths(x))
  <2>1. IsFiniteSet(1..MaxInstance)
    BY <1>1, FS_Interval
  <2>2. \A x : Lengths(x) \in SUBSET (1..MaxInstance)
    OBVIOUS
  <2> QED
    BY <2>1, <2>2, FS_Subset
<1>3. j \in members /\ j \in Above(members, 0)
  <2>1. j \in members
    BY DEF Kids
  <2>2. [k \in 0..0 |-> j] \in [0..0 -> members] /\ [k \in 0..0 |-> j][0] = j
    BY <2>1
  <2>3. \A k \in 1..0 : FALSE
    OBVIOUS
  <2> QED
    BY <2>1, <2>2, <2>3 DEF Above
<1>4. i \in Above(members, 1)
  <2>1. i \in Above(members, 0 + 1)
    BY <1>3, LongerAbove
  <2> QED
    BY <2>1
<1>5. \A n \in Lengths(j) : n + 1 \in Lengths(i) \ {1}
  <2> SUFFICES ASSUME NEW n \in 1..MaxInstance, j \in Above(members, n)
               PROVE  n + 1 \in Lengths(i) \ {1}
    OBVIOUS
  <2>1. n # MaxInstance
    BY DEF Endless
  <2>2. n \in Nat /\ n + 1 \in 1..MaxInstance /\ n + 1 # 1
    BY <1>1, <2>1
  <2> QED
    BY <2>2, LongerAbove
<1>6. 1 \in Lengths(i)
  BY <1>1, <1>4
<1> DEFINE shift == [n \in Lengths(j) |-> n + 1]
<1>7. shift \in Injection(Lengths(j), Lengths(i) \ {1})
  <2>1. shift \in [Lengths(j) -> Lengths(i) \ {1}]
    BY <1>5
  <2>2. \A m, n \in Lengths(j) : shift[m] = shift[n] => m = n
    OBVIOUS
  <2> QED
    BY <2>1, <2>2, Zenon DEF Injection, IsInjective
<1> HIDE DEF Lengths, shift
<1>8. IsFiniteSet(Lengths(i) \ {1}) /\ Cardinality(Lengths(i) \ {1}) = Cardinality(Lengths(i)) - 1
  BY <1>2, <1>6, FS_RemoveElement
<1>9. Cardinality(Lengths(j)) <= Cardinality(Lengths(i) \ {1})
  BY <1>7, <1>8, FS_Injection
<1>10. Cardinality(Lengths(i)) \in Nat /\ Cardinality(Lengths(j)) \in Nat
  BY <1>2, FS_CardinalityType
<1>11. Depth(members, i) = Cardinality(Lengths(i)) /\ Depth(members, j) = Cardinality(Lengths(j))
  BY DEF Depth, Lengths
<1> QED
  BY <1>8, <1>9, <1>10, <1>11

(* What a snapshot shows of its members does not change: their rows say the pid  *)
(* and the parent's pid of their creation.                                  *)
Lineage == \A i \in 1..born : parent[i] \in 0..born
Ending == stage = "killing" => ~Endless(targets)
OrderInv == Lineage /\ Ending /\ ChildrenFirst

(* The machine writes the rows of new processes only.                          *)
LEMMA OldRowsStay ==
  ASSUME IInv, Lineage, Machine
  PROVE  /\ Lineage'
         /\ \A members : members \subseteq 1..born =>
              /\ \A i \in members : Kids(members, i)' = Kids(members, i)
              /\ \A n \in Nat : Above(members, n)' = Above(members, n)
<1>0. born \in Int /\ 0 <= born /\ MaxInstance \in Int /\ born <= MaxInstance
  BY DEF IInv, TypeOK, ProcessesTypeOK
<1>1. /\ Lineage'
      /\ \A i \in 1..born : pidOf'[i] = pidOf[i] /\ parent'[i] = parent[i]
  <2>1. ASSUME NEW creator \in Instances \cup {0}, NEW pid \in Pids, NEW text \in Lines,
               Spawn(creator, pid, text)
        PROVE  /\ Lineage'
               /\ \A i \in 1..born : pidOf'[i] = pidOf[i] /\ parent'[i] = parent[i]
    <3>1. born' = born + 1 /\ creator \in 0..born /\ born' \in Instances
      BY <1>0, <2>1 DEF Spawn, IInv, TypeOK, ProcessesTypeOK, Instances
    <3>2. \A i \in 1..born : i \in Instances /\ i # born'
      BY <1>0, <3>1 DEF Instances
    <3>3. pidOf' = [pidOf EXCEPT ![born'] = pid] /\ parent' = [parent EXCEPT ![born'] = creator]
      BY <2>1 DEF Spawn
    <3>4. DOMAIN pidOf = Instances /\ DOMAIN parent = Instances
      BY DEF IInv, TypeOK, ProcessesTypeOK
    <3>5. \A i \in 1..born : pidOf'[i] = pidOf[i] /\ parent'[i] = parent[i]
      BY <3>2, <3>3, <3>4
    <3>6. parent'[born'] = creator
      BY <3>1, <3>3, <3>4
    <3>7. \A i \in 1..born' : i \in 1..born \/ i = born'
      BY <1>0, <3>1
    <3>8. 0..born \subseteq 0..born'
      BY <1>0, <3>1
    <3> QED
      BY <3>1, <3>5, <3>6, <3>7, <3>8 DEF Lineage
  <2> QED
    BY <2>1 DEF Machine, Exit, Lineage
<1>2. \A i \in 1..born : ParentPid(i)' = ParentPid(i)
  <2> SUFFICES ASSUME NEW i \in 1..born PROVE ParentPid(i)' = ParentPid(i)
    OBVIOUS
  <2>1. parent[i] = 0 \/ parent[i] \in 1..born
    BY <1>0 DEF Lineage
  <2> QED
    BY <1>1, <2>1 DEF ParentPid
<1> SUFFICES ASSUME NEW members, members \subseteq 1..born
             PROVE  /\ \A i \in members : Kids(members, i)' = Kids(members, i)
                    /\ \A n \in Nat : Above(members, n)' = Above(members, n)
  BY <1>1
<1>3. \A i \in members : Kids(members, i)' = Kids(members, i)
  BY <1>1, <1>2 DEF Kids
<1>4. ASSUME NEW n \in Nat PROVE Above(members, n)' = Above(members, n)
  <2>1. \A chain \in [0..n -> members], k \in 1..n : chain[k - 1] \in members
    OBVIOUS
  <2>2. \A chain \in [0..n -> members] :
          (\A k \in 1..n : chain[k] \in Kids(members, chain[k - 1]))
            <=> (\A k \in 1..n : chain[k] \in Kids(members, chain[k - 1])')
    BY <1>3, <2>1
  <2> QED
    BY <2>2, Zenon DEF Above
<1> QED
  BY <1>3, <1>4

LEMMA OrderStep == IInv /\ OrderInv /\ [Next]_vars => OrderInv'
<1> SUFFICES ASSUME IInv, OrderInv, [Next]_vars PROVE OrderInv'
  OBVIOUS
<1>0. targets \subseteq 1..born /\ todo \subseteq targets
  BY DEF IInv, TypeOK
<1>1. CASE Machine /\ UNCHANGED call
  <2>1. \A i \in targets : Kids(targets, i)' = Kids(targets, i)
    BY <1>0, <1>1, OldRowsStay DEF OrderInv, call
  <2>2. Above(targets, MaxInstance)' = Above(targets, MaxInstance)
    BY <1>0, <1>1, OldRowsStay DEF OrderInv, call
  <2>3. Lineage'
    BY <1>1, OldRowsStay DEF OrderInv
  <2> QED
    BY <1>1, <2>1, <2>2, <2>3 DEF OrderInv, Ending, Endless, ChildrenFirst, call
<1>2. ASSUME UNCHANGED <<processes, targets, todo>>, stage' = "killing" => stage = "killing"
      PROVE  OrderInv'
  <2>1. Lineage' /\ Endless(targets)' = Endless(targets)
    BY <1>2 DEF OrderInv, Lineage, Endless, Above, Kids, ParentPid, processes
  <2>2. ChildrenFirst'
    BY <1>2 DEF OrderInv, ChildrenFirst, Kids, ParentPid, processes
  <2> QED
    BY <1>2, <2>1, <2>2 DEF OrderInv, Ending
<1>3. ASSUME NEW r \in Instances, Accept(r) PROVE OrderInv'
  <2>1. Lineage' /\ Endless(targets)' = Endless(Tree(live, r)) /\ targets' \ todo' = {}
    BY <1>3 DEF Accept, OrderInv, Lineage, Endless, Above, Kids, ParentPid, processes
  <2> QED
    BY <1>3, <2>1 DEF Accept, OrderInv, Ending, ChildrenFirst
<1>4. ASSUME NEW i \in Instances, NEW kill \in BOOLEAN, TerminateTarget(i, kill) PROVE OrderInv'
  <2>1. UNCHANGED <<born, pidOf, parent, stage, targets>> /\ todo' = todo \ {i}
        /\ i \in todo /\ stage = "killing" /\ \A j \in todo : Depth(targets, i) <= Depth(targets, j)
    BY <1>4 DEF TerminateTarget, Turn
  <2>2. Lineage' /\ Endless(targets)' = Endless(targets)
        /\ \A k \in targets : Kids(targets, k)' = Kids(targets, k)
    BY <2>1 DEF OrderInv, Lineage, Endless, Above, Kids, ParentPid
  <2>3. ASSUME NEW j \in Kids(targets, i), j \in todo PROVE FALSE
    <3>1. Depth(targets, i) \in Int /\ Depth(targets, j) \in Int /\ Depth(targets, j) < Depth(targets, i)
      BY <1>0, <2>1, <2>3, ChildIsShallower DEF OrderInv, Ending
    <3>2. Depth(targets, i) <= Depth(targets, j)
      BY <2>1, <2>3
    <3> QED
      BY <3>1, <3>2
  <2>4. ASSUME NEW k \in targets' \ todo' PROVE Kids(targets, k)' \cap todo' = {}
    BY <1>0, <2>1, <2>2, <2>3, <2>4 DEF OrderInv, ChildrenFirst
  <2> QED
    BY <2>1, <2>2, <2>4 DEF OrderInv, Ending, ChildrenFirst
<1>5. ASSUME NEW i \in Instances, Decide(i) PROVE OrderInv'
  BY <1>2, <1>5 DEF Decide
<1>6. ASSUME NEW r \in Instances, Refuse(r) \/ TooDeep(r) PROVE OrderInv'
  BY <1>2, <1>6 DEF Refuse, TooDeep
<1>7. ASSUME NEW i \in Instances, TerminateRaises(i) PROVE OrderInv'
  BY <1>2, <1>7 DEF TerminateRaises, Turn
<1>8. CASE LookUpDate \/ Gone \/ LookUpRemaining \/ Return \/ UNCHANGED vars
  BY <1>2, <1>8 DEF LookUpDate, Gone, LookUpRemaining, Return, vars, call, processes
<1> QED
  BY <1>1, <1>3, <1>4, <1>5, <1>6, <1>7, <1>8 DEF Next, CallStep

(* Whatever pids are reused, a target is ended only after everything the          *)
(* snapshot shows below it has had its turn.                                *)
THEOREM ChildrenGoFirst == Spec => []ChildrenFirst
<1>1. Init => OrderInv
  <2> SUFFICES ASSUME Init PROVE OrderInv
    OBVIOUS
  <2>1. 1..0 = {}
    OBVIOUS
  <2> QED
    BY <2>1 DEF Init, ProcessesInit, OrderInv, Lineage, Ending, ChildrenFirst
<1>2. OrderInv => ChildrenFirst
  BY DEF OrderInv
<1> QED
  BY <1>1, <1>2, OrderStep, Inductive, PTL DEF Spec
====
