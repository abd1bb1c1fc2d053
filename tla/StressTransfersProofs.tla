---- MODULE StressTransfersProofs ----
(***************************************************************************)
(* Proofs about StressTransfers, for any number of searches, workers,      *)
(* transfers and waves.                                                    *)
(***************************************************************************)
EXTENDS StressTransfers, FiniteSetTheorems, TLAPS

(* Some step of a task holds a transfer hash.                               *)
Holding == {"claim", "post", "wait", "record"}
HandsAreFull ==
  \A t \in Tasks : task[t].pc \in Holding => task[t].hash \in LiveHashes

TInv == TypeOK /\ HandsAreFull

----------------------------------------------------------------------------
(* The run handles finitely many transfers.                                 *)
LEMMA FiniteHashes == IsFiniteSet(Hashes)
<1>1. IsFiniteSet(Synthetic)
  BY SizesAssumption, FS_Interval DEF Synthetic
<1> QED
  BY <1>1, SetsAssumption, FS_Union DEF Hashes

(* Their number is a natural number, that of the active ones too.           *)
LEMMA Counts ==
  ASSUME TypeOK
  PROVE  /\ \A S \in SUBSET Hashes : IsFiniteSet(S) /\ Cardinality(S) \in Nat
         /\ Active \in SUBSET Hashes
         /\ Cardinality(Active) \in Nat
<1>1. \A S \in SUBSET Hashes : IsFiniteSet(S)
  BY FiniteHashes, FS_Subset
<1>2. \A S \in SUBSET Hashes : Cardinality(S) \in Nat
  BY <1>1, FS_CardinalityType
<1>3. Active \in SUBSET Hashes
  BY DEF Active, TypeOK
<1> QED
  BY <1>1, <1>2, <1>3

(* A batch is not empty, respects its size and the cap, and stays inside the *)
(* synthetic range.                                                         *)
LEMMA BatchBounds ==
  ASSUME TypeOK, nextIndex <= SyntheticCount, ~CapReached
  PROVE  /\ BatchEnd \in nextIndex..SyntheticCount
         /\ BatchEnd - nextIndex + 1 <= MaxActive - Cardinality(Active)
         /\ Batch \subseteq Synthetic
<1>1. Cardinality(Active) \in Nat
  BY Counts
<1>2. nextIndex \in 1..(SyntheticCount + 1)
  BY DEF TypeOK
<1>3. Cardinality(Active) < MaxActive
  BY <1>1, SizesAssumption DEF CapReached
<1>4. /\ BatchEnd \in nextIndex..SyntheticCount
      /\ BatchEnd - nextIndex + 1 <= MaxActive - Cardinality(Active)
  BY <1>1, <1>2, <1>3, SizesAssumption DEF BatchEnd, SmallerOf
<1> QED
  BY <1>1, <1>2, <1>4, SizesAssumption DEF Batch, Synthetic

----------------------------------------------------------------------------
(* One task's next state: its type and the other tasks'.                     *)
LEMMA TaskUpdate ==
  ASSUME task \in [Tasks -> TaskState], NEW t \in Tasks, NEW state \in TaskState,
         Becomes(t, state)
  PROVE  /\ task' \in [Tasks -> TaskState]
         /\ task'[t] = state
         /\ \A u \in Tasks \ {t} : task'[u] = task[u]
BY DEF Becomes

(* Whatever a task does, its next state has the type, with a hash in hand in  *)
(* the steps that need one.                                                 *)
LEMMA TaskMoves ==
  ASSUME TInv, NEW t \in Tasks, TaskStep(t) \/ Expire(t)
  PROVE  \E state \in TaskState :
           Becomes(t, state) /\ (state.pc \in Holding => state.hash \in LiveHashes)
<1>0. /\ task[t] \in TaskState
      /\ task[t].pc \in Holding => task[t].hash \in LiveHashes
  BY DEF TInv, TypeOK, HandsAreFull
<1> USE DEF Holding, TaskState, TaskSteps
<1>1. CASE Begin(t)
  BY <1>0, <1>1 DEF Begin
<1>2. CASE SearchFails(t)
  BY <1>0, <1>2 DEF SearchFails
<1>3. CASE \E candidates \in SUBSET LiveHashes : Poll(t, candidates)
  <2>0. PICK candidates \in SUBSET LiveHashes : Poll(t, candidates)
    BY <1>3
  <2> DEFINE state == IF task[t].expired \/ Spent(t) \/ CapReached
                     THEN [task[t] EXCEPT !.pc = "done", !.todo = {}]
                     ELSE [task[t] EXCEPT !.pc = "scan", !.todo = candidates]
  <2>1. state \in TaskState /\ (state.pc \in Holding => state.hash \in LiveHashes)
    BY <1>0, <2>0
  <2>2. Becomes(t, state)
    BY <2>0 DEF Poll
  <2> QED
    BY <2>1, <2>2
<1>4. CASE LeaveLoop(t)
  <2> DEFINE state == [task[t] EXCEPT !.pc = IF task[t].mine > 0 THEN "done" ELSE "poll",
                                    !.todo = {}]
  <2>1. state \in TaskState /\ (state.pc \in Holding => state.hash \in LiveHashes)
    BY <1>0, <1>4
  <2>2. Becomes(t, state)
    BY <1>4 DEF LeaveLoop
  <2> QED
    BY <2>1, <2>2
<1>5. CASE \E h \in LiveHashes : PickCandidate(t, h)
  <2>0. PICK h \in LiveHashes : PickCandidate(t, h)
    BY <1>5
  <2> DEFINE state == [task[t] EXCEPT !.pc = "claim", !.hash = h, !.todo = @ \ {h}]
  <2>1. state \in TaskState /\ (state.pc \in Holding => state.hash \in LiveHashes)
    BY <1>0, <2>0
  <2>2. Becomes(t, state)
    BY <2>0 DEF PickCandidate
  <2> QED
    BY <2>1, <2>2
<1>6. CASE Claim(t)
  <2> DEFINE state == IF task[t].hash \in claimed
                     THEN [task[t] EXCEPT !.pc = "scan", !.hash = NoHash]
                     ELSE [task[t] EXCEPT !.pc = "post"]
  <2>1. state \in TaskState /\ (state.pc \in Holding => state.hash \in LiveHashes)
    BY <1>0, <1>6 DEF Claim
  <2>2. Becomes(t, state)
    BY <1>6 DEF Claim
  <2> QED
    BY <2>1, <2>2
<1>7. CASE \E outcome \in {"accepted", "refused", "lost"} : Post(t, outcome)
  <2>0. PICK outcome \in {"accepted", "refused", "lost"} : Post(t, outcome)
    BY <1>7
  <2> DEFINE state == IF outcome = "accepted" THEN [task[t] EXCEPT !.pc = "wait"]
                     ELSE [task[t] EXCEPT !.pc = "poll", !.hash = NoHash, !.todo = {}]
  <2>1. state \in TaskState /\ (state.pc \in Holding => state.hash \in LiveHashes)
    BY <1>0, <2>0 DEF Post
  <2>2. Becomes(t, state)
    BY <2>0 DEF Post, Retry
  <2> QED
    BY <2>1, <2>2
<1>8. CASE Seen(t)
  BY <1>0, <1>8 DEF Seen
<1>9. CASE WaitFails(t)
  <2> DEFINE state == [task[t] EXCEPT !.pc = "poll", !.hash = NoHash, !.todo = {}]
  <2>1. state \in TaskState /\ (state.pc \in Holding => state.hash \in LiveHashes)
    BY <1>0, <1>9
  <2>2. Becomes(t, state)
    BY <1>9 DEF WaitFails, Retry
  <2> QED
    BY <2>1, <2>2
<1>10. CASE RecordTriggered(t)
  <2> DEFINE state == [task[t] EXCEPT
                       !.pc = IF task[t].mine + 1 >= PerSearch THEN "done" ELSE "scan",
                       !.hash = NoHash, !.mine = @ + 1]
  <2>1. task[t].mine + 1 \in Nat
    BY <1>0
  <2>2. state \in TaskState /\ (state.pc \in Holding => state.hash \in LiveHashes)
    BY <1>0, <1>10, <2>1
  <2>3. Becomes(t, state)
    BY <1>10 DEF RecordTriggered
  <2> QED
    BY <2>2, <2>3
<1>11. CASE Expire(t)
  <2> DEFINE state == [task[t] EXCEPT !.expired = TRUE]
  <2>1. state \in TaskState /\ (state.pc \in Holding => state.hash \in LiveHashes)
    BY <1>0
  <2>2. Becomes(t, state)
    BY <1>11 DEF Expire
  <2> QED
    BY <2>1, <2>2
<1> QED
  BY <1>1, <1>2, <1>3, <1>4, <1>5, <1>6, <1>7, <1>8, <1>9, <1>10, <1>11 DEF TaskStep

(* A step of a search task keeps the types.                                 *)
LEMMA TaskType ==
  ASSUME TInv, NEW t \in Tasks, TaskStep(t) \/ Expire(t)
  PROVE  TInv'
<1>1. PICK state \in TaskState :
        Becomes(t, state) /\ (state.pc \in Holding => state.hash \in LiveHashes)
  BY TaskMoves
<1>2. task' \in [Tasks -> TaskState] /\ HandsAreFull'
  BY <1>1, TaskUpdate DEF TInv, TypeOK, HandsAreFull
<1>3. task[t].pc \in Holding => task[t].hash \in Hashes
  BY DEF TInv, HandsAreFull, Hashes
<1>4. /\ app' \in [Hashes -> AppStates]
      /\ posts' \in [Hashes -> Nat]
  <2>1. CASE \E outcome \in {"accepted", "refused", "lost"} : Post(t, outcome)
    BY <2>1, <1>3 DEF Post, Holding, TInv, TypeOK, AppStates
  <2>2. CASE app' = app /\ posts' = posts
    BY <2>2 DEF TInv, TypeOK
  <2> QED
    BY <2>1, <2>2 DEF TaskStep, Begin, SearchFails, Poll, LeaveLoop, PickCandidate, Claim,
                      Seen, WaitFails, RecordTriggered, Expire
<1>5. /\ lost' \subseteq Hashes /\ claimed' \subseteq Hashes
      /\ triggered' \subseteq Hashes /\ deleted' \subseteq Hashes
  BY <1>3 DEF TaskStep, Begin, SearchFails, Poll, LeaveLoop, PickCandidate, Claim, Post,
              Seen, WaitFails, RecordTriggered, Expire, registry, Holding, TInv, TypeOK
<1>6. UNCHANGED <<completed, run, deleting>>
  BY DEF TaskStep, Begin, SearchFails, Poll, LeaveLoop, PickCandidate, Claim, Post,
         Seen, WaitFails, RecordTriggered, Expire, registry
<1> QED
  BY <1>2, <1>4, <1>5, <1>6 DEF TInv, TypeOK, run, deleting

(* A step of the main thread keeps the types.                               *)
LEMMA MainType ==
  ASSUME TInv, MainStep
  PROVE  TInv'
<1> USE DEF TInv, TypeOK, HandsAreFull
<1>1. CASE TransportDown
  BY <1>1, SizesAssumption DEF TransportDown, Go, AfterWave, registry, deleting, Stages
<1>2. CASE StartWave
  BY <1>2 DEF StartWave, registry, deleting, Stages, IdleTask, TaskState, TaskSteps, Holding
<1>3. CASE EndWave
  BY <1>3 DEF EndWave, Go, registry, deleting, Stages
<1>4. CASE \E ok \in BOOLEAN : ReadyProbe(ok)
  BY <1>4 DEF ReadyProbe, Go, registry, deleting, Stages
<1>5. CASE SkipChurn
  BY <1>5, SizesAssumption DEF SkipChurn, LeaveWave, Go, AfterWave, registry, deleting, Stages
<1>6. CASE \E view \in Views, chosen \in SUBSET Active : ChurnList(view, chosen)
  <2>1. PICK view \in Views, chosen \in SUBSET Active : ChurnList(view, chosen)
    BY <1>6
  <2>2. chosen \in SUBSET Hashes
    BY <2>1, Counts
  <2>3. Cardinality(chosen) \in Nat
    BY <2>2, Counts
  <2> QED
    BY <2>1, <2>2, <2>3 DEF ChurnList, Go, registry, Stages
<1>7. CASE EndChurn
  BY <1>7, SizesAssumption DEF EndChurn, RecordDeleted, AfterWave, deleting, Stages
<1>8. CASE ChurnRaises
  BY <1>8 DEF ChurnRaises, Removed, registry, deleting, Stages, AppStates
<1>9. CASE \E accepted \in SUBSET Batch, answer \in BOOLEAN : SyntheticBatch(accepted, answer)
  <2>1. PICK accepted \in SUBSET Batch, answer \in BOOLEAN : SyntheticBatch(accepted, answer)
    BY <1>9
  <2>2. BatchEnd \in nextIndex..SyntheticCount /\ Batch \subseteq Hashes
    BY <2>1, BatchBounds DEF SyntheticBatch, Hashes
  <2>3. nextIndex' \in 1..(SyntheticCount + 1)
    BY <2>1, <2>2, SizesAssumption DEF SyntheticBatch
  <2>4. app' \in [Hashes -> AppStates] /\ posts' \in [Hashes -> Nat]
    BY <2>1, <2>2 DEF SyntheticBatch, AppStates
  <2> QED
    BY <2>1, <2>2, <2>3, <2>4 DEF SyntheticBatch, deleting
<1>10. CASE EndSynthetic
  BY <1>10 DEF EndSynthetic, Go, registry, deleting, Stages
<1>11. CASE \E view \in Views : ObserveCompleted(view)
  BY <1>11 DEF ObserveCompleted, deleting, Stages
<1>12. CASE EndCompletion
  BY <1>12 DEF EndCompletion, Go, registry, deleting, Stages
<1>13. CASE StartCleanup
  BY <1>13, Counts DEF StartCleanup, Go, registry, Stages
<1>14. CASE Deletion
  BY <1>14 DEF Deletion, Delete, Removed, registry, run, AppStates
<1>15. CASE EndDeletes
  BY <1>15 DEF EndDeletes, RecordDeleted, deleting, Stages
<1>16. CASE DeleteRaises
  BY <1>16 DEF DeleteRaises, Removed, registry, Stages, AppStates
<1>17. CASE \E view \in Views, absent \in BOOLEAN : ObserveAbsent(view, absent)
  BY <1>17 DEF ObserveAbsent, Go, registry, deleting, Stages
<1>18. CASE \E ok \in BOOLEAN : ClearCompleted(ok)
  BY <1>18 DEF ClearCompleted, registry, deleting, Stages, AppStates
<1> HIDE DEF TInv, TypeOK, HandsAreFull
<1> QED
  BY <1>1, <1>2, <1>3, <1>4, <1>5, <1>6, <1>7, <1>8, <1>9, <1>10, <1>11, <1>12, <1>13, <1>14,
     <1>15, <1>16, <1>17, <1>18 DEF MainStep

(* A run starts well typed ...                                              *)
LEMMA TypeInit == Init => TInv
<1> SUFFICES ASSUME Init PROVE TInv
  OBVIOUS
<1>1. task \in [Tasks -> TaskState] /\ HandsAreFull
  <2>1. IdleTask \in TaskState /\ IdleTask.pc \notin Holding
    BY DEF IdleTask, TaskState, TaskSteps, Holding
  <2> QED
    BY <2>1 DEF Init, HandsAreFull
<1>2. 1 \in 1..Waves /\ 1 \in 1..(SyntheticCount + 1)
  BY SizesAssumption
<1> QED
  BY <1>1, <1>2 DEF Init, TInv, TypeOK, AppStates, Stages

(* ... and stays so.                                                        *)
LEMMA TypePreserved == TInv /\ [Next]_vars => TInv'
<1> SUFFICES ASSUME TInv, [Next]_vars PROVE TInv'
  OBVIOUS
<1>1. CASE AppStep
  BY <1>1 DEF AppStep, Materialise, Complete, FinishRemoval, AppBecomes, registry, run,
     deleting, TInv, TypeOK, HandsAreFull, AppStates
<1>2. CASE \E t \in Tasks : TaskStep(t) \/ Expire(t)
  BY <1>2, TaskType
<1>3. CASE MainStep
  BY <1>3, MainType
<1>4. CASE UNCHANGED vars
  BY <1>4 DEF vars, registry, run, deleting, TInv, TypeOK, HandsAreFull
<1> QED
  BY <1>1, <1>2, <1>3, <1>4 DEF Next

(* The state of a run keeps its types: the registry and the coordinator only  *)
(* ever hold transfer hashes, indices and counters stay in their ranges.     *)
THEOREM TypeCorrect == Spec => []TypeOK
BY TypeInit, TypePreserved, PTL DEF Spec, TInv

----------------------------------------------------------------------------
(* Who owns a transfer: the inductive invariant behind PostedAtMostOnce.     *)
InFlight == {"post", "wait", "record"}

UnclaimedIsUntouched == \A h \in Hashes \ claimed : posts[h] = 0 /\ app[h] = "absent"
SyntheticIsUnclaimed == \A h \in Synthetic : h >= nextIndex => h \notin claimed
HeldIsClaimed ==
  \A t \in Tasks : task[t].pc \in InFlight => task[t].hash \in claimed \ triggered
PostIsFirst ==
  \A t \in Tasks : task[t].pc = "post" =>
    posts[task[t].hash] = 0 /\ app[task[t].hash] = "absent"
IdleOutsideWave == stage # "wave" => \A t \in Tasks : task[t].pc = "done"

OwnInv ==
  /\ TInv
  /\ UnclaimedIsUntouched /\ SyntheticIsUnclaimed
  /\ HeldIsClaimed /\ PostIsFirst /\ ClaimsAreExclusive
  /\ triggered \subseteq claimed
  /\ IdleOutsideWave
  /\ PostedAtMostOnce

(* The steps of a task that touch nothing but the task, and neither take nor  *)
(* give up a transfer.                                                      *)
Quiet(t) ==
  /\ UNCHANGED <<app, posts, lost, registry, run, deleting>>
  /\ \A u \in Tasks \ {t} : task'[u] = task[u]
  /\ \/ task[t].pc \notin InFlight /\ task'[t].pc \notin InFlight
     \/ task'[t].pc = task[t].pc /\ task'[t].hash = task[t].hash

(* A task that moves is not done, and the main thread's variables stay.      *)
LEMMA MovingTask ==
  ASSUME TInv, IdleOutsideWave, NEW t \in Tasks, TaskStep(t) \/ Expire(t)
  PROVE  /\ stage = "wave" /\ UNCHANGED <<run, deleting, completed>>
         /\ \A u \in Tasks \ {t} : task'[u] = task[u]
<1>1. task[t].pc # "done" /\ UNCHANGED <<run, deleting, completed>>
  BY DEF TaskStep, Begin, SearchFails, Poll, LeaveLoop, PickCandidate, Claim, Post,
         Seen, WaitFails, RecordTriggered, Expire, Running, registry
<1>2. \A u \in Tasks \ {t} : task'[u] = task[u]
  BY TaskMoves, TaskUpdate DEF TInv, TypeOK
<1> QED
  BY <1>1, <1>2 DEF IdleOutsideWave

(* Starting, ending, polling, scanning, picking a candidate and the passing   *)
(* of the deadline are quiet.                                               *)
LEMMA QuietSteps ==
  ASSUME TInv, NEW t \in Tasks,
         \/ Begin(t) \/ SearchFails(t) \/ LeaveLoop(t) \/ Expire(t)
         \/ \E candidates \in SUBSET LiveHashes : Poll(t, candidates)
         \/ \E h \in LiveHashes : PickCandidate(t, h)
  PROVE  Quiet(t)
<1>1. task \in [Tasks -> TaskState] /\ task[t] \in TaskState
  BY DEF TInv, TypeOK
<1>2. \A u \in Tasks \ {t} : task'[u] = task[u]
  BY <1>1 DEF Begin, SearchFails, LeaveLoop, Expire, Poll, PickCandidate, Becomes
<1>3. UNCHANGED <<app, posts, lost, registry, run, deleting>>
  BY DEF Begin, SearchFails, LeaveLoop, Expire, Poll, PickCandidate
<1>4. \/ task[t].pc \notin InFlight /\ task'[t].pc \notin InFlight
      \/ task'[t].pc = task[t].pc /\ task'[t].hash = task[t].hash
  <2>1. CASE Begin(t) \/ SearchFails(t)
    BY <1>1, <2>1 DEF Begin, SearchFails, Becomes, InFlight, TaskState
  <2>2. CASE LeaveLoop(t)
    BY <1>1, <2>2 DEF LeaveLoop, Becomes, InFlight, TaskState
  <2>3. CASE Expire(t)
    BY <1>1, <2>3 DEF Expire, Becomes, InFlight, TaskState
  <2>4. CASE \E candidates \in SUBSET LiveHashes : Poll(t, candidates)
    <3>1. PICK candidates \in SUBSET LiveHashes : Poll(t, candidates)
      BY <2>4
    <3>2. task'[t] = IF task[t].expired \/ Spent(t) \/ CapReached
                     THEN [task[t] EXCEPT !.pc = "done", !.todo = {}]
                     ELSE [task[t] EXCEPT !.pc = "scan", !.todo = candidates]
      BY <1>1, <3>1 DEF Poll, Becomes
    <3>3. task'[t].pc \in {"done", "scan"}
      BY <1>1, <3>2 DEF TaskState
    <3> QED
      BY <3>1, <3>3 DEF Poll, InFlight
  <2>5. CASE \E h \in LiveHashes : PickCandidate(t, h)
    <3>1. PICK h \in LiveHashes : PickCandidate(t, h)
      BY <2>5
    <3>2. task'[t] = [task[t] EXCEPT !.pc = "claim", !.hash = h, !.todo = @ \ {h}]
      BY <1>1, <3>1 DEF PickCandidate, Becomes
    <3>3. task'[t].pc = "claim"
      BY <1>1, <3>2 DEF TaskState
    <3> QED
      BY <3>1, <3>3 DEF PickCandidate, InFlight
  <2> QED
    BY <2>1, <2>2, <2>3, <2>4, <2>5
<1> QED
  BY <1>2, <1>3, <1>4 DEF Quiet

(* What the four steps that handle a transfer do to their task.              *)
LEMMA BusySteps ==
  ASSUME TInv, NEW t \in Tasks
  PROVE  /\ Claim(t) =>
              \/ task[t].hash \in claimed /\ task'[t].pc \notin InFlight
              \/ /\ task[t].hash \notin claimed /\ task'[t].pc = "post"
                 /\ task'[t].hash = task[t].hash
         /\ \A outcome \in {"accepted", "refused", "lost"} : Post(t, outcome) =>
              IF outcome = "accepted"
              THEN task'[t].pc = "wait" /\ task'[t].hash = task[t].hash
              ELSE task'[t].pc \notin InFlight
         /\ Seen(t) => task'[t].pc = "record" /\ task'[t].hash = task[t].hash
         /\ WaitFails(t) \/ RecordTriggered(t) => task'[t].pc \notin InFlight
<1>1. task \in [Tasks -> TaskState] /\ task[t] \in TaskState
  BY DEF TInv, TypeOK
<1> USE DEF Becomes, TaskState, InFlight
<1>2. Claim(t) =>
        \/ task[t].hash \in claimed /\ task'[t].pc \notin InFlight
        \/ /\ task[t].hash \notin claimed /\ task'[t].pc = "post"
           /\ task'[t].hash = task[t].hash
  BY <1>1 DEF Claim
<1>6. Retry(t) => task'[t].pc \notin InFlight
  <2>1. Retry(t) => task'[t] = [task[t] EXCEPT !.pc = "poll", !.hash = NoHash, !.todo = {}]
    BY <1>1 DEF Retry
  <2>2. [task[t] EXCEPT !.pc = "poll", !.hash = NoHash, !.todo = {}].pc = "poll"
    BY <1>1
  <2> QED
    BY <2>1, <2>2
<1>3. ASSUME NEW outcome \in {"accepted", "refused", "lost"}, Post(t, outcome)
      PROVE  IF outcome = "accepted"
             THEN task'[t].pc = "wait" /\ task'[t].hash = task[t].hash
             ELSE task'[t].pc \notin InFlight
  <2>1. CASE outcome = "accepted"
    BY <1>1, <1>3, <2>1 DEF Post
  <2>2. CASE outcome # "accepted"
    <3>1. Retry(t)
      BY <1>3, <2>2 DEF Post
    <3> QED
      BY <2>2, <3>1, <1>6
  <2> QED
    BY <2>1, <2>2
<1>4. Seen(t) => task'[t].pc = "record" /\ task'[t].hash = task[t].hash
  BY <1>1 DEF Seen
<1>5. WaitFails(t) \/ RecordTriggered(t) => task'[t].pc \notin InFlight
  <2>1. WaitFails(t) => Retry(t)
    BY DEF WaitFails
  <2>2. ASSUME RecordTriggered(t) PROVE task'[t].pc \notin InFlight
    <3> DEFINE next == IF task[t].mine + 1 >= PerSearch THEN "done" ELSE "scan"
    <3>1. task'[t] = [task[t] EXCEPT !.pc = next, !.hash = NoHash, !.mine = @ + 1]
      BY <1>1, <2>2 DEF RecordTriggered
    <3>2. next \notin InFlight
      OBVIOUS
    <3> HIDE DEF next
    <3>3. [task[t] EXCEPT !.pc = next, !.hash = NoHash, !.mine = @ + 1].pc = next
      BY <1>1
    <3> QED
      BY <3>1, <3>2, <3>3
  <2> QED
    BY <2>1, <2>2, <1>6
<1> QED
  BY <1>2, <1>3, <1>4, <1>5

(* A quiet step of a task preserves the ownership of transfers.              *)
LEMMA OwnQuiet ==
  ASSUME OwnInv, NEW t \in Tasks, Quiet(t), TInv', stage = "wave"
  PROVE  OwnInv'
<1>1. UNCHANGED <<app, posts, claimed, triggered, stage, nextIndex>>
  BY DEF Quiet, registry, run
<1>2. \A u \in Tasks :
        \/ task'[u].pc \notin InFlight
        \/ task'[u].pc = task[u].pc /\ task'[u].hash = task[u].hash
  BY DEF Quiet
<1>3. HeldIsClaimed'
  BY <1>1, <1>2 DEF HeldIsClaimed, OwnInv
<1>4. PostIsFirst'
  BY <1>1, <1>2 DEF PostIsFirst, OwnInv, InFlight
<1>5. ClaimsAreExclusive'
  BY <1>2 DEF ClaimsAreExclusive, OwnInv, InFlight
<1> QED
  BY <1>1, <1>3, <1>4, <1>5 DEF OwnInv, UnclaimedIsUntouched, SyntheticIsUnclaimed,
     IdleOutsideWave, PostedAtMostOnce

(* A task's step preserves it: a claim takes a transfer nobody asked for, a   *)
(* request is the first for its transfer.                                   *)
LEMMA OwnTask ==
  ASSUME OwnInv, NEW t \in Tasks, TaskStep(t) \/ Expire(t)
  PROVE  OwnInv'
<1>1. TInv'
  BY TaskType DEF OwnInv
<1>2. /\ stage = "wave" /\ stage' = stage /\ nextIndex' = nextIndex
      /\ \A u \in Tasks \ {t} : task'[u] = task[u]
  BY MovingTask DEF OwnInv, run
<1>a. task[t].pc \in Holding => task[t].hash \in LiveHashes
  BY DEF OwnInv, TInv, HandsAreFull
<1> USE DEF OwnInv, UnclaimedIsUntouched, SyntheticIsUnclaimed, HeldIsClaimed, PostIsFirst,
            IdleOutsideWave, PostedAtMostOnce
<1>3. CASE Quiet(t)
  BY <1>1, <1>2, <1>3, OwnQuiet
<1>4. CASE Claim(t)
  <2>0. UNCHANGED <<app, posts, triggered>> /\ claimed' = claimed \cup {task[t].hash}
    BY <1>4 DEF Claim
  <2>1. task[t].hash \in LiveHashes \ Synthetic
    BY <1>4, <1>a, SetsAssumption DEF Claim, Holding
  <2>2. \/ task[t].hash \in claimed /\ task'[t].pc \notin InFlight
        \/ /\ task[t].hash \notin claimed /\ task'[t].pc = "post"
           /\ task'[t].hash = task[t].hash
    BY <1>4, BusySteps
  <2>3. HeldIsClaimed'
    BY <1>2, <2>0, <2>2
  <2>4. PostIsFirst'
    BY <1>2, <2>0, <2>1, <2>2 DEF Hashes, InFlight
  <2>5. ClaimsAreExclusive'
    BY <1>2, <2>2 DEF ClaimsAreExclusive, InFlight
  <2> QED
    BY <1>1, <1>2, <2>0, <2>1, <2>3, <2>4, <2>5
<1>5. CASE \E outcome \in {"accepted", "refused", "lost"} : Post(t, outcome)
  <2>0. PICK outcome \in {"accepted", "refused", "lost"} : Post(t, outcome)
    BY <1>5
  <2> DEFINE h == task[t].hash
  <2>1. /\ h \in claimed \ triggered /\ posts[h] = 0 /\ app[h] = "absent"
        /\ UNCHANGED <<claimed, triggered>>
        /\ posts' = [posts EXCEPT ![h] = @ + 1]
        /\ app' = [app EXCEPT ![h] = "pending"] \/ app' = app
    BY <2>0 DEF Post, registry, InFlight
  <2>2. task[t].pc = "post"
    BY <2>0 DEF Post
  <2>3. task'[t].pc # "post" /\ (task'[t].pc \in InFlight => task'[t].hash = h)
    BY <2>0, BusySteps DEF InFlight
  <2>4. /\ app \in [Hashes -> AppStates] /\ posts \in [Hashes -> Nat]
        /\ claimed \subseteq Hashes
    BY DEF TInv, TypeOK
  <2>5. ClaimsAreExclusive'
    BY <1>2, <2>2, <2>3 DEF ClaimsAreExclusive, InFlight
  <2>6. HeldIsClaimed'
    BY <1>2, <2>1, <2>3
  <2>7. PostIsFirst'
    <3> SUFFICES ASSUME NEW u \in Tasks, task'[u].pc = "post"
                 PROVE  posts'[task'[u].hash] = 0 /\ app'[task'[u].hash] = "absent"
      OBVIOUS
    <3>1. u # t /\ task'[u] = task[u]
      BY <1>2, <2>3
    <3>2. task[u].hash # h
      BY <2>2, <3>1 DEF ClaimsAreExclusive, InFlight
    <3>3. posts[task[u].hash] = 0 /\ app[task[u].hash] = "absent" /\ task[u].hash \in Hashes
      BY <3>1, <2>4 DEF InFlight
    <3> QED
      BY <2>1, <2>4, <3>1, <3>2, <3>3
  <2>8. UnclaimedIsUntouched' /\ PostedAtMostOnce'
    BY <2>1, <2>4
  <2> QED
    BY <1>1, <1>2, <2>1, <2>5, <2>6, <2>7, <2>8
<1>6. CASE Seen(t)
  <2>1. UNCHANGED <<app, posts, claimed, triggered>> /\ task[t].pc = "wait"
    BY <1>6 DEF Seen, registry
  <2>2. task'[t].pc = "record" /\ task'[t].hash = task[t].hash
    BY <1>6, BusySteps
  <2>3. ClaimsAreExclusive'
    BY <1>2, <2>1, <2>2 DEF ClaimsAreExclusive, InFlight
  <2>4. HeldIsClaimed' /\ PostIsFirst'
    BY <1>2, <2>1, <2>2 DEF InFlight
  <2> QED
    BY <1>1, <1>2, <2>1, <2>3, <2>4
<1>7. CASE WaitFails(t)
  <2>1. UNCHANGED <<app, posts, claimed, triggered>>
    BY <1>7 DEF WaitFails, registry
  <2>2. task'[t].pc \notin InFlight
    BY <1>7, BusySteps
  <2>3. ClaimsAreExclusive'
    BY <1>2, <2>2 DEF ClaimsAreExclusive, InFlight
  <2>4. HeldIsClaimed' /\ PostIsFirst'
    BY <1>2, <2>1, <2>2 DEF InFlight
  <2> QED
    BY <1>1, <1>2, <2>1, <2>3, <2>4
<1>8. CASE RecordTriggered(t)
  <2>1. /\ UNCHANGED <<app, posts, claimed>> /\ task[t].pc = "record"
        /\ triggered' = triggered \cup {task[t].hash}
    BY <1>8 DEF RecordTriggered
  <2>2. task'[t].pc \notin InFlight
    BY <1>8, BusySteps
  <2>3. ClaimsAreExclusive'
    BY <1>2, <2>2 DEF ClaimsAreExclusive, InFlight
  <2>4. HeldIsClaimed'
    <3> SUFFICES ASSUME NEW u \in Tasks, task'[u].pc \in InFlight
                 PROVE  task'[u].hash \in claimed' \ triggered'
      OBVIOUS
    <3>1. u # t /\ task'[u] = task[u]
      BY <1>2, <2>2
    <3>2. task[u].hash # task[t].hash
      BY <2>1, <3>1 DEF ClaimsAreExclusive, InFlight
    <3> QED
      BY <2>1, <3>1, <3>2
  <2>5. PostIsFirst'
    BY <1>2, <2>1, <2>2 DEF InFlight
  <2>6. task[t].hash \in claimed
    BY <2>1 DEF InFlight
  <2> QED
    BY <1>1, <1>2, <2>1, <2>3, <2>4, <2>5, <2>6
<1> HIDE DEF OwnInv
<1> QED
  BY <1>3, <1>4, <1>5, <1>6, <1>7, <1>8, QuietSteps DEF TaskStep, OwnInv

(* Steps that leave every task and every claim alone and bring no transfer     *)
(* into being.                                                              *)
Passing ==
  /\ UNCHANGED <<posts, claimed, triggered, nextIndex, task>>
  /\ \A h \in Hashes : app[h] = "absent" => app'[h] = "absent"
  /\ stage' = stage \/ \A t \in Tasks : task[t].pc = "done"

(* The application's steps and most of the main thread's are passing.        *)
LEMMA PassingSteps ==
  ASSUME TInv, IdleOutsideWave, Next
  PROVE  \/ Passing
         \/ StartWave
         \/ \E accepted \in SUBSET Batch, answer \in BOOLEAN : SyntheticBatch(accepted, answer)
         \/ \E t \in Tasks : TaskStep(t) \/ Expire(t)
<1>0. app \in [Hashes -> AppStates]
  BY DEF TInv, TypeOK
<1>1. CASE AppStep
  BY <1>0, <1>1 DEF AppStep, Materialise, Complete, FinishRemoval, AppBecomes, registry, run, Passing
<1>2. CASE TransportDown \/ EndWave \/ SkipChurn \/ EndChurn \/ EndSynthetic
           \/ EndCompletion \/ StartCleanup \/ EndDeletes
  BY <1>2 DEF TransportDown, EndWave, SkipChurn, LeaveWave, EndChurn, EndSynthetic,
     EndCompletion, StartCleanup, EndDeletes, Go, registry, Passing,
     IdleOutsideWave
<1>3. CASE \/ \E ok \in BOOLEAN : ReadyProbe(ok)
           \/ \E view \in Views, chosen \in SUBSET Active : ChurnList(view, chosen)
           \/ \E view \in Views : ObserveCompleted(view)
           \/ \E view \in Views, absent \in BOOLEAN : ObserveAbsent(view, absent)
  BY <1>3 DEF ReadyProbe, ChurnList, ObserveCompleted, ObserveAbsent, Go, registry, Passing, IdleOutsideWave
<1>4. CASE ChurnRaises \/ DeleteRaises
  BY <1>0, <1>4 DEF ChurnRaises, DeleteRaises, Removed, registry, Passing, IdleOutsideWave
<1>5. CASE Deletion
  BY <1>0, <1>5 DEF Deletion, Delete, Removed, registry, run, Passing, IdleOutsideWave
<1>6. CASE \E ok \in BOOLEAN : ClearCompleted(ok)
  BY <1>0, <1>6 DEF ClearCompleted, registry, Passing, IdleOutsideWave
<1> QED
  BY <1>1, <1>2, <1>3, <1>4, <1>5, <1>6 DEF Next, MainStep

(* Every step of the run preserves the ownership of transfers.               *)
LEMMA OwnStep ==
  ASSUME OwnInv, [Next]_vars
  PROVE  OwnInv'
<1> USE DEF OwnInv, UnclaimedIsUntouched, SyntheticIsUnclaimed, HeldIsClaimed, PostIsFirst,
            IdleOutsideWave, PostedAtMostOnce
<1>1. TInv'
  BY TypePreserved
<1>2. CASE Passing
  <2>1. PostIsFirst'
    BY <1>2 DEF Passing, InFlight, TInv, TypeOK
  <2> QED
    BY <1>1, <1>2, <2>1 DEF Passing, ClaimsAreExclusive
<1>3. CASE StartWave
  <2>1. /\ UNCHANGED <<app, posts, claimed, triggered, nextIndex>> /\ stage' = "wave"
        /\ \A t \in Tasks : task'[t].pc = "queued"
    BY <1>3 DEF StartWave, registry, IdleTask
  <2> QED
    BY <1>1, <2>1 DEF ClaimsAreExclusive, InFlight
<1>4. CASE \E accepted \in SUBSET Batch, answer \in BOOLEAN : SyntheticBatch(accepted, answer)
  <2>1. PICK accepted \in SUBSET Batch, answer \in BOOLEAN : SyntheticBatch(accepted, answer)
    BY <1>4
  <2>2. /\ BatchEnd \in nextIndex..SyntheticCount /\ Batch \subseteq Synthetic
        /\ Batch = nextIndex..BatchEnd /\ nextIndex \in Nat
    BY <2>1, BatchBounds DEF SyntheticBatch, Batch, TInv, TypeOK
  <2>3. Batch \cap claimed = {} /\ Batch \subseteq Hashes
    BY <2>2, SizesAssumption DEF Hashes, Synthetic
  <2>4. \A t \in Tasks : task'[t].pc = "done" /\ task'[t] = task[t]
    BY <2>1 DEF SyntheticBatch
  <2>5. /\ nextIndex' = BatchEnd + 1 /\ claimed' = claimed \cup Batch
        /\ posts' = [h \in Hashes |-> IF h \in Batch THEN posts[h] + 1 ELSE posts[h]]
        /\ app' = [h \in Hashes |-> IF h \in accepted THEN "downloading" ELSE app[h]]
        /\ triggered' \subseteq triggered \cup Batch
    BY <2>1 DEF SyntheticBatch
  <2>6. HeldIsClaimed' /\ PostIsFirst' /\ ClaimsAreExclusive' /\ IdleOutsideWave'
    BY <2>4 DEF InFlight, ClaimsAreExclusive
  <2>7. SyntheticIsUnclaimed'
    <3> SUFFICES ASSUME NEW h \in Synthetic, h >= BatchEnd + 1 PROVE h \notin claimed \cup Batch
      BY <2>5
    <3> QED
      BY <2>2, SizesAssumption DEF Synthetic
  <2>8. UnclaimedIsUntouched' /\ PostedAtMostOnce'
    BY <2>1, <2>3, <2>5
  <2> QED
    BY <1>1, <2>5, <2>6, <2>7, <2>8
<1>5. CASE \E t \in Tasks : TaskStep(t) \/ Expire(t)
  BY <1>5, OwnTask
<1>6. CASE UNCHANGED vars
  BY <1>1, <1>6 DEF vars, registry, run, ClaimsAreExclusive
<1>7. TInv /\ IdleOutsideWave
  OBVIOUS
<1> HIDE DEF OwnInv, IdleOutsideWave
<1> QED
  BY <1>2, <1>3, <1>4, <1>5, <1>6, <1>7, PassingSteps

(* The ownership invariant holds throughout a run.                           *)
THEOREM Ownership == Spec => []OwnInv
<1>1. Init => OwnInv
  <2> SUFFICES ASSUME Init PROVE OwnInv
    OBVIOUS
  <2>1. TInv
    BY TypeInit
  <2>2. \A t \in Tasks : task[t].pc = "done"
    BY DEF Init, IdleTask
  <2> QED
    BY <2>1, <2>2 DEF Init, OwnInv, UnclaimedIsUntouched, SyntheticIsUnclaimed, HeldIsClaimed,
       PostIsFirst, IdleOutsideWave, PostedAtMostOnce, ClaimsAreExclusive, InFlight
<1> QED
  BY <1>1, OwnStep, PTL DEF Spec

(* A run asks for each transfer at most once, however its searches overlap    *)
(* and whatever they retry.                                                 *)
THEOREM PostsOnce == Spec => []PostedAtMostOnce
BY Ownership, PTL DEF OwnInv
----------------------------------------------------------------------------
(* What the application holds for the transfers of a run: the inductive       *)
(* invariant behind the deletion and cleanup properties.                     *)
RecordedExists == \A t \in Tasks : task[t].pc = "record" => app[task[t].hash] # "pending"
TriggeredExists == \A h \in triggered : app[h] # "pending"
AnsweredIsGoing == \A h \in answered : app[h] \in {"removing", "absent"}
CompleteIsLate == cleanupComplete => stage \in {"clear", "finished"}

AppInv ==
  /\ OwnInv
  /\ RecordedExists /\ TriggeredExists
  /\ deleted \subseteq triggered /\ DeletedStaysDeleted
  /\ doomed \subseteq triggered /\ answered \subseteq triggered /\ AnsweredIsGoing
  /\ CompleteIsLate /\ RegisteredAreGone
  /\ TransfersAccountedFor

(* A quiet step of a task preserves it.                                      *)
LEMMA AppQuiet ==
  ASSUME AppInv, NEW t \in Tasks, Quiet(t), OwnInv'
  PROVE  AppInv'
<1>1. UNCHANGED <<app, posts, lost, registry, run, deleting>>
  BY DEF Quiet
<1>2. \A u \in Tasks :
        \/ task'[u].pc \notin InFlight /\ task[u].pc \notin InFlight
        \/ task'[u].pc = task[u].pc /\ task'[u].hash = task[u].hash
  BY DEF Quiet
<1>3. RecordedExists'
  BY <1>1, <1>2 DEF AppInv, RecordedExists, InFlight
<1>4. \A h : InHand(h) => InHand(h)'
  BY <1>2 DEF InHand, InFlight
<1>5. TransfersAccountedFor'
  BY <1>1, <1>4 DEF AppInv, TransfersAccountedFor, registry
<1> QED
  BY <1>1, <1>3, <1>5 DEF AppInv, TriggeredExists, DeletedStaysDeleted, AnsweredIsGoing,
     CompleteIsLate, RegisteredAreGone, Unregistered, registry, run, deleting

(* A task's step preserves it.                                               *)
LEMMA AppTask ==
  ASSUME AppInv, NEW t \in Tasks, TaskStep(t) \/ Expire(t), OwnInv'
  PROVE  AppInv'
<1>0. TInv /\ IdleOutsideWave
  BY DEF AppInv, OwnInv
<1>1. /\ stage = "wave" /\ UNCHANGED <<run, deleting, completed>>
      /\ \A u \in Tasks \ {t} : task'[u] = task[u]
  BY <1>0, MovingTask
<1>2. /\ app \in [Hashes -> AppStates] /\ triggered \subseteq Hashes
      /\ claimed \subseteq Hashes
  BY <1>0 DEF TInv, TypeOK
<1>3. \A u \in Tasks : task[u].pc \in InFlight => task[u].hash \in claimed \ triggered
  BY DEF AppInv, OwnInv, HeldIsClaimed
<1>4. \A u \in Tasks \ {t} : task[u].pc \in InFlight /\ task[t].pc \in InFlight
                               => task[u].hash # task[t].hash
  BY DEF AppInv, OwnInv, ClaimsAreExclusive, InFlight
<1>c. CompleteIsLate' /\ cleanupComplete' = FALSE
  BY <1>0, <1>1 DEF AppInv, CompleteIsLate, run, TInv, TypeOK
<1> USE DEF AppInv, RecordedExists, TriggeredExists, DeletedStaysDeleted, AnsweredIsGoing,
            RegisteredAreGone
<1>5. CASE Quiet(t)
  BY <1>5, AppQuiet
<1>6. CASE Claim(t)
  <2>0. UNCHANGED <<app, lost, triggered, deleted>> /\ task[t].pc = "claim"
    BY <1>6 DEF Claim
  <2>1. task'[t].pc \in InFlight => task'[t].pc = "post"
    BY <1>0, <1>6, BusySteps
  <2>2. RecordedExists'
    BY <1>1, <2>0, <2>1 DEF InFlight
  <2>3. \A h : InHand(h) => InHand(h)'
    BY <1>1, <2>0 DEF InHand
  <2>4. TransfersAccountedFor'
    BY <2>0, <2>3 DEF TransfersAccountedFor
  <2> QED
    BY <1>1, <1>c, <2>0, <2>2, <2>4 DEF deleting
<1>7. CASE \E outcome \in {"accepted", "refused", "lost"} : Post(t, outcome)
  <2>0. PICK outcome \in {"accepted", "refused", "lost"} : Post(t, outcome)
    BY <1>7
  <2> DEFINE h == task[t].hash
  <2>1. /\ task[t].pc = "post" /\ h \in claimed \ triggered
        /\ UNCHANGED <<triggered, deleted>>
        /\ app' = IF outcome # "refused" /\ app[h] = "absent"
                  THEN [app EXCEPT ![h] = "pending"] ELSE app
        /\ lost' = IF outcome = "lost" THEN lost \cup {h} ELSE lost
    BY <1>3, <2>0 DEF Post, registry, InFlight
  <2>2. IF outcome = "accepted" THEN task'[t].pc = "wait" /\ task'[t].hash = h
        ELSE task'[t].pc \notin InFlight
    BY <1>0, <2>0, BusySteps
  <2>3. \A g \in Hashes \ {h} : app'[g] = app[g]
    BY <1>2, <2>1
  <2>4. RecordedExists'
    <3> SUFFICES ASSUME NEW u \in Tasks, task'[u].pc = "record"
                 PROVE  app'[task'[u].hash] # "pending"
      OBVIOUS
    <3>1. u # t /\ task'[u] = task[u]
      BY <1>1, <2>2 DEF InFlight
    <3>2. task[u].hash \in Hashes \ {h}
      BY <1>2, <1>3, <1>4, <2>1, <3>1 DEF InFlight
    <3> QED
      BY <2>3, <3>1, <3>2
  <2>5. TransfersAccountedFor'
    <3> SUFFICES ASSUME NEW g \in Hashes, app'[g] # "absent"
                 PROVE  g \in triggered' \cup lost' \/ InHand(g)'
      BY DEF TransfersAccountedFor
    <3>1. CASE g = h
      <4>1. app[h] = "absent"
        BY <2>1 DEF OwnInv, PostIsFirst
      <4>2. outcome # "refused"
        BY <2>1, <3>1, <4>1
      <4> QED
        BY <2>1, <2>2, <3>1, <4>2 DEF InHand
    <3>2. CASE g # h
      <4>1. g \in triggered \cup lost \/ InHand(g)
        BY <2>3, <3>2 DEF TransfersAccountedFor
      <4>2. InHand(g) => InHand(g)'
        BY <1>1, <2>1, <3>2 DEF InHand
      <4> QED
        BY <2>1, <4>1, <4>2
    <3> QED
      BY <3>1, <3>2
  <2> QED
    BY <1>1, <1>2, <1>c, <2>1, <2>3, <2>4, <2>5 DEF deleting
<1>8. CASE Seen(t)
  <2>0. /\ UNCHANGED <<app, lost, triggered, deleted>> /\ task[t].pc = "wait"
        /\ app[task[t].hash] # "pending"
    BY <1>8 DEF Seen, registry, Held
  <2>1. task'[t].pc = "record" /\ task'[t].hash = task[t].hash
    BY <1>0, <1>8, BusySteps
  <2>2. RecordedExists'
    BY <1>1, <2>0, <2>1
  <2>3. \A h : InHand(h) => InHand(h)'
    BY <1>1, <2>1 DEF InHand
  <2>4. TransfersAccountedFor'
    BY <2>0, <2>3 DEF TransfersAccountedFor
  <2> QED
    BY <1>1, <1>c, <2>0, <2>2, <2>4 DEF deleting
<1>9. CASE WaitFails(t)
  <2>0. UNCHANGED <<app, triggered, deleted>> /\ lost' = lost \cup {task[t].hash}
    BY <1>9 DEF WaitFails, registry
  <2>1. task'[t].pc \notin InFlight
    BY <1>0, <1>9, BusySteps
  <2>2. RecordedExists'
    BY <1>1, <2>0, <2>1 DEF InFlight
  <2>3. \A h : InHand(h) => InHand(h)' \/ h = task[t].hash
    BY <1>1 DEF InHand
  <2>4. TransfersAccountedFor'
    BY <2>0, <2>3 DEF TransfersAccountedFor
  <2> QED
    BY <1>1, <1>c, <2>0, <2>2, <2>4 DEF deleting
<1>10. CASE RecordTriggered(t)
  <2>0. /\ UNCHANGED <<app, lost>> /\ task[t].pc = "record"
        /\ triggered' = triggered \cup {task[t].hash}
        /\ deleted' = deleted \ {task[t].hash}
    BY <1>10 DEF RecordTriggered
  <2>1. task'[t].pc \notin InFlight
    BY <1>0, <1>10, BusySteps
  <2>2. RecordedExists'
    BY <1>1, <2>0, <2>1 DEF InFlight
  <2>3. \A h : InHand(h) => InHand(h)' \/ h = task[t].hash
    BY <1>1 DEF InHand
  <2>4. TransfersAccountedFor'
    BY <2>0, <2>3 DEF TransfersAccountedFor
  <2> QED
    BY <1>1, <1>c, <2>0, <2>2, <2>4 DEF deleting
<1> HIDE DEF AppInv
<1> QED
  BY <1>0, <1>5, <1>6, <1>7, <1>8, <1>9, <1>10, QuietSteps DEF TaskStep

(* Steps after which nothing new is held: what is absent, materialised or      *)
(* going stays so, and no task or registration changes.                      *)
Declining ==
  /\ UNCHANGED <<lost, triggered, task>>
  /\ \A h \in Hashes : /\ app[h] = "absent" => app'[h] = "absent"
                       /\ app[h] # "pending" => app'[h] # "pending"
                       /\ app[h] \in {"removing", "absent"} => app'[h] \in {"removing", "absent"}

(* Such a step keeps the parts that relate the tasks and the registry to the   *)
(* application, and what was deleted or answered stays gone.                 *)
LEMMA DecliningKeeps ==
  ASSUME AppInv, Declining
  PROVE  /\ RecordedExists' /\ TriggeredExists' /\ TransfersAccountedFor'
         /\ \A h \in deleted \cup answered : app'[h] \in {"removing", "absent"}
         /\ cleanupComplete /\ Cardinality(Unregistered) < ListWindow
              => \A h \in triggered : app'[h] = "absent"
<1>1. /\ triggered \subseteq Hashes /\ claimed \subseteq Hashes
      /\ deleted \subseteq Hashes /\ answered \subseteq Hashes
  BY DEF AppInv, OwnInv, TInv, TypeOK
<1>2. \A t \in Tasks : task[t].pc = "record" => task[t].hash \in Hashes
  BY <1>1 DEF AppInv, OwnInv, HeldIsClaimed, InFlight
<1>3. RecordedExists'
  BY <1>2 DEF AppInv, RecordedExists, Declining
<1>4. TriggeredExists'
  BY <1>1 DEF AppInv, TriggeredExists, Declining
<1>5. TransfersAccountedFor'
  BY DEF AppInv, TransfersAccountedFor, Declining, InHand
<1> QED
  BY <1>1, <1>3, <1>4, <1>5 DEF AppInv, DeletedStaysDeleted, AnsweredIsGoing, RegisteredAreGone,
     Declining

(* One DELETE leaves every other transfer alone and, when it is answered 200   *)
(* or 404, the transfer it names gone or going.                              *)
LEMMA RemovedDeclines ==
  ASSUME AppInv, NEW h \in triggered, UNCHANGED <<lost, triggered, task>>,
         app' = app \/ app' = Removed(h)
  PROVE  Declining /\ (app' = Removed(h) => app'[h] \in {"removing", "absent"})
<1>1. /\ app \in [Hashes -> AppStates] /\ h \in Hashes /\ app[h] # "pending"
  BY DEF AppInv, OwnInv, TInv, TypeOK, TriggeredExists
<1>2. app' = Removed(h) => /\ app'[h] \in {"removing", "absent"}
                           /\ app[h] = "absent" => app'[h] = "absent"
                           /\ \A g \in Hashes \ {h} : app'[g] = app[g]
  BY <1>1 DEF Removed, AppStates
<1> QED
  BY <1>1, <1>2 DEF Declining

(* The application's own steps preserve the invariant.                       *)
LEMMA AppByApp ==
  ASSUME AppInv, AppStep, OwnInv'
  PROVE  AppInv'
<1>1. app \in [Hashes -> AppStates]
  BY DEF AppInv, OwnInv, TInv, TypeOK
<1>2. UNCHANGED <<posts, lost, registry, task, run, deleting>>
  BY DEF AppStep, Materialise, Complete, FinishRemoval, AppBecomes
<1>3. Declining
  BY <1>1, <1>2 DEF AppStep, Materialise, Complete, FinishRemoval, AppBecomes, Declining, registry
<1>4. Unregistered' = Unregistered
  BY <1>2 DEF Unregistered, registry
<1> QED
  BY <1>2, <1>3, <1>4, DecliningKeeps DEF AppInv, DeletedStaysDeleted, AnsweredIsGoing,
     CompleteIsLate, RegisteredAreGone, registry, run, deleting

(* What the application holds was asked for.                                 *)
HeldIsAsked == \A h \in Hashes : app[h] # "absent" => posts[h] > 0

LEMMA AskedFirst == Spec => []HeldIsAsked
<1>1. Init => HeldIsAsked
  BY DEF Init, HeldIsAsked
<1>2. OwnInv /\ HeldIsAsked /\ [Next]_vars => HeldIsAsked'
  <2> SUFFICES ASSUME OwnInv, HeldIsAsked, [Next]_vars PROVE HeldIsAsked'
    OBVIOUS
  <2>1. app \in [Hashes -> AppStates] /\ posts \in [Hashes -> Nat]
    BY DEF OwnInv, TInv, TypeOK
  <2>2. CASE Passing \/ UNCHANGED vars \/ StartWave
    <3>1. UNCHANGED posts /\ \A h \in Hashes : app[h] = "absent" => app'[h] = "absent"
      BY <2>2 DEF Passing, vars, StartWave
    <3> QED
      BY <3>1 DEF HeldIsAsked
  <2>3. ASSUME NEW accepted \in SUBSET Batch, NEW answer \in BOOLEAN,
               SyntheticBatch(accepted, answer)
        PROVE  HeldIsAsked'
    BY <2>1, <2>3 DEF SyntheticBatch, HeldIsAsked
  <2>4. ASSUME NEW t \in Tasks, TaskStep(t) \/ Expire(t) PROVE HeldIsAsked'
    <3>1. CASE \E outcome \in {"accepted", "refused", "lost"} : Post(t, outcome)
      BY <2>1, <3>1 DEF Post, HeldIsAsked
    <3>2. CASE ~\E outcome \in {"accepted", "refused", "lost"} : Post(t, outcome)
      <4>1. UNCHANGED <<app, posts>>
        BY <2>4, <3>2 DEF TaskStep, Begin, SearchFails, Poll, LeaveLoop, PickCandidate, Claim,
                          Seen, WaitFails, RecordTriggered, Expire
      <4> QED
        BY <4>1 DEF HeldIsAsked
    <3> QED
      BY <3>1, <3>2
  <2> QED
    BY <2>2, <2>3, <2>4, PassingSteps DEF OwnInv
<1> QED
  BY <1>1, <1>2, Ownership, PTL DEF Spec

(* A page that shows no registered transfer, and is not filled by others,      *)
(* means that none is held.                                                 *)
LEMMA FullPage ==
  ASSUME TypeOK, HeldIsAsked, NEW view \in Views, AllAbsent(view),
         Cardinality(Unregistered) < ListWindow
  PROVE  triggered \cap Held = {}
<1> SUFFICES ASSUME NEW h \in triggered \cap Held PROVE FALSE
  OBVIOUS
<1>1. /\ view \subseteq Held /\ Held \subseteq Hashes /\ Unregistered \subseteq Hashes
      /\ Cardinality(view) = SmallerOf(Cardinality(Held), ListWindow)
  BY DEF Views, Held, Unregistered
<1>2. h \notin view
  BY DEF AllAbsent
<1>3. IsFiniteSet(Held) /\ IsFiniteSet(Unregistered) /\ IsFiniteSet(view)
  BY <1>1, Counts
<1>4. /\ Cardinality(view) \in Nat /\ Cardinality(Held) \in Nat
      /\ Cardinality(Unregistered) \in Nat
  BY <1>3, FS_CardinalityType
<1>5. view \subseteq Unregistered
  <2> SUFFICES ASSUME NEW g \in view PROVE g \in Unregistered
    OBVIOUS
  <2>1. g \in Hashes /\ app[g] # "absent" /\ g \notin triggered
    BY <1>1 DEF AllAbsent, Held
  <2> QED
    BY <2>1 DEF Unregistered, HeldIsAsked
<1>6. Cardinality(view) <= Cardinality(Unregistered)
  BY <1>3, <1>5, FS_Subset
<1>7. Cardinality(view) < Cardinality(Held)
  <2>1. Cardinality(view) <= Cardinality(Held) /\ (Cardinality(view) = Cardinality(Held) => view = Held)
    BY <1>1, <1>3, FS_Subset
  <2> QED
    BY <1>2, <1>4, <2>1
<1> QED
  BY <1>1, <1>4, <1>6, <1>7, SizesAssumption DEF SmallerOf

(* The main thread's steps preserve it: what a churn or the cleanup records    *)
(* as deleted was answered, and an answered transfer is going.               *)
LEMMA AppByMain ==
  ASSUME AppInv, HeldIsAsked, MainStep, OwnInv'
  PROVE  AppInv'
<1>1. /\ app \in [Hashes -> AppStates] /\ triggered \subseteq Hashes
      /\ cleanupComplete \in BOOLEAN
  BY DEF AppInv, OwnInv, TInv, TypeOK
<1> DEFINE
      Gone(s) == \A h \in s : app'[h] \in {"removing", "absent"}
      Early == stage \notin {"clear", "finished"}
<1>2. Early => cleanupComplete = FALSE
  BY <1>1 DEF AppInv, CompleteIsLate
<1>3. AppInv' <=> /\ OwnInv' /\ RecordedExists' /\ TriggeredExists'
                  /\ deleted' \subseteq triggered' /\ Gone(deleted')
                  /\ doomed' \subseteq triggered' /\ answered' \subseteq triggered'
                  /\ Gone(answered')
                  /\ CompleteIsLate' /\ RegisteredAreGone' /\ TransfersAccountedFor'
  BY DEF AppInv, DeletedStaysDeleted, AnsweredIsGoing
<1>4. /\ deleted \subseteq triggered /\ doomed \subseteq triggered
      /\ answered \subseteq triggered
  BY DEF AppInv
<1>5. Declining => /\ RecordedExists' /\ TriggeredExists' /\ TransfersAccountedFor'
                   /\ triggered' = triggered
                   /\ Gone(deleted) /\ Gone(answered)
                   /\ cleanupComplete /\ Cardinality(Unregistered) < ListWindow
                        => \A h \in triggered : app'[h] = "absent"
  BY DecliningKeeps DEF Declining
<1> HIDE DEF Gone
<1>6. ASSUME cleanupComplete' = FALSE
      PROVE  CompleteIsLate' /\ RegisteredAreGone'
  BY <1>6 DEF CompleteIsLate, RegisteredAreGone
<1>7. CASE \/ TransportDown \/ EndWave \/ SkipChurn \/ EndSynthetic \/ EndCompletion
           \/ \E view \in Views : ObserveCompleted(view)
           \/ \E ok \in BOOLEAN : ReadyProbe(ok)
  <2>1. /\ Early /\ cleanupComplete' = cleanupComplete
        /\ UNCHANGED <<app, lost, triggered, deleted, task, deleting>>
    BY <1>7 DEF TransportDown, EndWave, SkipChurn, LeaveWave, EndSynthetic, EndCompletion,
       ObserveCompleted, ReadyProbe, Go, registry
  <2>2. Declining
    BY <2>1 DEF Declining
  <2> QED
    BY <1>2, <1>3, <1>4, <1>5, <1>6, <2>1, <2>2 DEF deleting
<1>8. CASE StartWave
  <2>1. /\ Early /\ cleanupComplete' = cleanupComplete
        /\ UNCHANGED <<app, lost, triggered, deleted, deleting>>
        /\ \A t \in Tasks : task'[t].pc = "queued"
        /\ \A t \in Tasks : task[t].pc = "done"
    BY <1>8 DEF StartWave, registry, IdleTask, AppInv, OwnInv, IdleOutsideWave
  <2>2. RecordedExists' /\ TransfersAccountedFor'
    BY <2>1 DEF AppInv, RecordedExists, TransfersAccountedFor, InHand
  <2>3. TriggeredExists' /\ Gone(deleted) /\ Gone(answered)
    BY <2>1 DEF AppInv, TriggeredExists, DeletedStaysDeleted, AnsweredIsGoing, Gone
  <2> QED
    BY <1>2, <1>3, <1>4, <1>6, <2>1, <2>2, <2>3 DEF deleting
<1>9. CASE \/ \E view \in Views, chosen \in SUBSET Active : ChurnList(view, chosen)
           \/ StartCleanup
  <2>1. /\ Early /\ cleanupComplete' = cleanupComplete
        /\ UNCHANGED <<app, lost, triggered, deleted, task>>
        /\ answered' = {} /\ doomed' \subseteq triggered
    BY <1>9 DEF ChurnList, StartCleanup, Go, registry, ChurnCandidates, Active
  <2>2. Declining
    BY <2>1 DEF Declining
  <2> QED
    BY <1>2, <1>3, <1>4, <1>5, <1>6, <2>1, <2>2 DEF Gone
<1>10. CASE EndChurn \/ EndDeletes
  <2>1. /\ Early /\ cleanupComplete' = cleanupComplete
        /\ UNCHANGED <<app, lost, triggered, task, deleting>>
        /\ deleted' = deleted \cup (answered \cap triggered)
    BY <1>10 DEF EndChurn, EndDeletes, RecordDeleted
  <2>2. Declining
    BY <2>1 DEF Declining
  <2>3. Gone(deleted')
    BY <1>5, <2>1, <2>2 DEF Gone
  <2> QED
    BY <1>2, <1>3, <1>4, <1>5, <1>6, <2>1, <2>2, <2>3 DEF deleting
<1>11. CASE ChurnRaises \/ DeleteRaises
  <2>1. /\ Early /\ cleanupComplete' = cleanupComplete
        /\ UNCHANGED <<lost, triggered, deleted, task>>
        /\ app' = app \/ \E h \in doomed : app' = Removed(h)
        /\ \/ UNCHANGED deleting \/ (doomed' = {} /\ answered' = {})
    BY <1>11 DEF ChurnRaises, DeleteRaises, registry
  <2>2. Declining
    <3>1. CASE app' = app
      BY <2>1, <3>1 DEF Declining
    <3>2. CASE \E h \in doomed : app' = Removed(h)
      BY <1>4, <2>1, <3>2, RemovedDeclines
    <3> QED
      BY <2>1, <3>1, <3>2
  <2> QED
    BY <1>2, <1>3, <1>4, <1>5, <1>6, <2>1, <2>2 DEF deleting, Gone
<1>12. CASE Deletion
  <2>1. PICK h \in doomed, ok \in BOOLEAN : Delete(h, ok)
    BY <1>12 DEF Deletion
  <2>2. /\ Early /\ cleanupComplete' = cleanupComplete
        /\ UNCHANGED <<lost, triggered, deleted, task>>
        /\ doomed' = doomed \ {h}
        /\ app' = IF ok THEN Removed(h) ELSE app
        /\ answered' = IF ok THEN answered \cup {h} ELSE answered
    BY <2>1 DEF Delete, registry, run
  <2>3. Declining /\ (ok => app'[h] \in {"removing", "absent"})
    BY <1>4, <2>2, RemovedDeclines
  <2>4. Gone(answered')
    BY <1>5, <2>2, <2>3 DEF Gone
  <2> QED
    BY <1>2, <1>3, <1>4, <1>5, <1>6, <2>2, <2>3, <2>4
<1>13. CASE \E accepted \in SUBSET Batch, answer \in BOOLEAN : SyntheticBatch(accepted, answer)
  <2>1. PICK accepted \in SUBSET Batch, answer \in BOOLEAN : SyntheticBatch(accepted, answer)
    BY <1>13
  <2>2. /\ Early /\ cleanupComplete' = cleanupComplete /\ UNCHANGED <<task, deleting>>
        /\ claimed' = claimed \cup Batch
        /\ app' = [h \in Hashes |-> IF h \in accepted THEN "downloading" ELSE app[h]]
        /\ triggered' = IF answer THEN triggered \cup accepted ELSE triggered
        /\ lost' = IF answer THEN lost ELSE lost \cup accepted
        /\ deleted' = IF answer THEN deleted \ accepted ELSE deleted
        /\ \A t \in Tasks : task[t].pc = "done"
    BY <2>1 DEF SyntheticBatch, AppInv, OwnInv, IdleOutsideWave
  <2>3. /\ BatchEnd \in nextIndex..SyntheticCount /\ Batch = nextIndex..BatchEnd
        /\ nextIndex \in Nat
    BY <2>1, BatchBounds DEF SyntheticBatch, Batch, AppInv, OwnInv, TInv, TypeOK
  <2>4. Batch \cap claimed = {}
    BY <2>3, SizesAssumption DEF Synthetic, AppInv, OwnInv, SyntheticIsUnclaimed, TInv, TypeOK
  <2>5. triggered \cap accepted = {}
    BY <1>1, <2>4 DEF AppInv, OwnInv, UnclaimedIsUntouched
  <2>6. Gone(deleted') /\ Gone(answered')
    BY <1>1, <1>4, <2>2, <2>5 DEF AppInv, DeletedStaysDeleted, AnsweredIsGoing, Gone, deleting
  <2>7. TriggeredExists' /\ RecordedExists'
    <3>1. triggered' \subseteq Hashes
      BY DEF OwnInv, TInv, TypeOK
    <3>2. \A h \in triggered' : app'[h] = "downloading" \/ app'[h] = app[h]
      BY <2>2, <3>1
    <3>3. \A h \in triggered' : h \in triggered \/ app'[h] = "downloading"
      BY <2>2, <3>1
    <3>4. TriggeredExists'
      BY <3>2, <3>3 DEF AppInv, TriggeredExists
    <3> QED
      BY <2>2, <3>4 DEF RecordedExists
  <2>8. TransfersAccountedFor'
    BY <2>2 DEF AppInv, TransfersAccountedFor, InHand
  <2>9. deleted' \subseteq triggered' /\ doomed' \subseteq triggered' /\ answered' \subseteq triggered'
    BY <1>4, <2>2 DEF deleting
  <2> QED
    BY <1>2, <1>3, <1>6, <2>2, <2>6, <2>7, <2>8, <2>9
<1>14. CASE \E view \in Views, absent \in BOOLEAN : ObserveAbsent(view, absent)
  <2>1. PICK view \in Views, absent \in BOOLEAN : ObserveAbsent(view, absent)
    BY <1>14
  <2>2. /\ UNCHANGED <<app, posts, lost, triggered, deleted, task, deleting>>
        /\ stage' = "clear" /\ (cleanupComplete' => AllAbsent(view))
    BY <2>1 DEF ObserveAbsent, Go, registry
  <2>3. Declining
    BY <2>2 DEF Declining
  <2>4. RegisteredAreGone'
    <3> SUFFICES ASSUME AllAbsent(view), Cardinality(Unregistered) < ListWindow, NEW h \in triggered
                 PROVE  app[h] = "absent"
      BY <2>2 DEF RegisteredAreGone, Unregistered
    <3>1. triggered \cap Held = {}
      BY FullPage DEF AppInv, OwnInv, TInv
    <3>2. app[h] # "pending" /\ app[h] \in AppStates
      BY <1>1 DEF AppInv, TriggeredExists
    <3> QED
      BY <1>1, <3>1, <3>2 DEF AppStates, Held
  <2> QED
    BY <1>3, <1>4, <1>5, <2>2, <2>3, <2>4 DEF CompleteIsLate, deleting
<1>15. CASE \E ok \in BOOLEAN : ClearCompleted(ok)
  <2>1. PICK ok \in BOOLEAN : ClearCompleted(ok)
    BY <1>15
  <2>2. /\ UNCHANGED <<posts, lost, triggered, deleted, task, cleanupComplete, deleting>>
        /\ stage' = "finished"
        /\ \A h \in Hashes : app'[h] = app[h] \/ (app[h] = "completed" /\ app'[h] = "absent")
    BY <1>1, <2>1 DEF ClearCompleted, registry
  <2>3. Declining
    BY <2>2 DEF Declining
  <2>4. RegisteredAreGone' /\ CompleteIsLate'
    BY <1>5, <2>2, <2>3 DEF RegisteredAreGone, Unregistered, CompleteIsLate
  <2> QED
    BY <1>3, <1>4, <1>5, <2>2, <2>3, <2>4 DEF deleting
<1> QED
  BY <1>7, <1>8, <1>9, <1>10, <1>11, <1>12, <1>13, <1>14, <1>15 DEF MainStep

(* The invariant holds throughout a run.                                     *)
THEOREM Application == Spec => []AppInv
<1>1. ASSUME Init PROVE AppInv
  <2>1. TInv
    BY <1>1, TypeInit
  <2>2. \A t \in Tasks : task[t].pc = "done"
    BY <1>1 DEF Init, IdleTask
  <2> USE DEF Init
  <2>3. OwnInv
    BY <1>1, <2>1, <2>2 DEF OwnInv, UnclaimedIsUntouched, SyntheticIsUnclaimed, HeldIsClaimed,
       PostIsFirst, IdleOutsideWave, PostedAtMostOnce, ClaimsAreExclusive, InFlight
  <2>4. RecordedExists /\ TriggeredExists /\ DeletedStaysDeleted /\ AnsweredIsGoing
    BY <1>1, <2>2 DEF RecordedExists, TriggeredExists, DeletedStaysDeleted, AnsweredIsGoing
  <2>5. CompleteIsLate /\ RegisteredAreGone /\ TransfersAccountedFor
    BY <1>1 DEF CompleteIsLate, RegisteredAreGone, TransfersAccountedFor
  <2> QED
    BY <1>1, <2>3, <2>4, <2>5 DEF AppInv
<1>2. ASSUME AppInv, HeldIsAsked, [Next]_vars PROVE AppInv'
  <2>1. OwnInv'
    BY <1>2, OwnStep DEF AppInv
  <2>2. CASE UNCHANGED vars
    <3>1. UNCHANGED <<app, posts, lost, triggered, deleted, answered, doomed, task, stage, cleanupComplete>>
      BY <2>2 DEF vars, registry, run, deleting
    <3>2. Declining
      BY <3>1 DEF Declining
    <3> QED
      BY <1>2, <2>1, <3>1, <3>2, DecliningKeeps DEF AppInv, DeletedStaysDeleted, AnsweredIsGoing,
         CompleteIsLate, RegisteredAreGone, Unregistered
  <2> QED
    BY <1>2, <2>1, <2>2, AppByApp, AppByMain, AppTask DEF Next
<1> QED
  BY <1>1, <1>2, AskedFirst, PTL DEF Spec

(* A transfer that churn or the cleanup deleted never comes back.            *)
THEOREM DeletedNeverReturns == Spec => []DeletedStaysDeleted
BY Application, PTL DEF AppInv

(* A cleanup that counts as complete leaves no registered transfer behind.   *)
THEOREM CleanupRemovesRegistered == Spec => []RegisteredAreGone
BY Application, PTL DEF AppInv

(* Every transfer the application holds is registered, in a task's hands or    *)
(* of lost confirmation.                                                     *)
THEOREM NothingUnaccounted == Spec => []TransfersAccountedFor
BY Application, PTL DEF AppInv
----------------------------------------------------------------------------
(* The cap: a task that passed it holds its place until it registers its       *)
(* transfer, and the pool runs only so many tasks.                           *)
Busy == {t \in Tasks : task[t].pc \in Holding}

CapInv ==
  /\ TInv /\ IdleOutsideWave
  /\ Cardinality(Running) <= MaxConcurrent
  /\ Cardinality(Active) + Cardinality(Busy) <= MaxActive + MaxConcurrent - 1

(* The sizes compared are numbers, and a part of a set is no larger.          *)
LEMMA Sizes ==
  ASSUME TInv
  PROVE  /\ Cardinality(Active) \in Nat
         /\ Cardinality(Busy) \in Nat /\ Cardinality(Running) \in Nat
         /\ Busy \subseteq Running
         /\ \A S \in SUBSET Active : Cardinality(S) \in Nat /\ Cardinality(S) <= Cardinality(Active)
         /\ \A S \in SUBSET Busy : Cardinality(S) \in Nat /\ Cardinality(S) <= Cardinality(Busy)
         /\ \A S \in SUBSET Running :
              Cardinality(S) \in Nat /\ Cardinality(S) <= Cardinality(Running)
<1>1. IsFiniteSet(Active)
  BY Counts DEF TInv
<1>2. IsFiniteSet(Busy) /\ IsFiniteSet(Running)
  <2>1. Busy \in SUBSET Tasks /\ Running \in SUBSET Tasks
    BY DEF Busy, Running
  <2> QED
    BY <2>1, SetsAssumption, FS_Subset
<1>3. Busy \subseteq Running
  BY DEF Busy, Running, Holding
<1>4. ASSUME NEW T, IsFiniteSet(T), NEW S \in SUBSET T
      PROVE  Cardinality(S) \in Nat /\ Cardinality(S) <= Cardinality(T)
  BY <1>4, FS_Subset, FS_CardinalityType
<1> QED
  BY <1>1, <1>2, <1>3, <1>4

(* A step that neither starts a task nor takes a place keeps the bound, when   *)
(* it registers nothing.                                                     *)
LEMMA CapShrinks ==
  ASSUME CapInv, TInv', IdleOutsideWave',
         Running' \subseteq Running, Busy' \subseteq Busy, Active' \subseteq Active
  PROVE  CapInv'
<1> DEFINE a == Cardinality(Active)  b == Cardinality(Busy)  r == Cardinality(Running)
<1>1. a \in Nat /\ b \in Nat /\ r \in Nat /\ r <= MaxConcurrent
      /\ a + b <= MaxActive + MaxConcurrent - 1
  BY Sizes DEF CapInv
<1>2. a' \in Nat /\ b' \in Nat /\ r' \in Nat /\ a' <= a /\ b' <= b /\ r' <= r
  BY Sizes DEF CapInv
<1>3. ASSUME NEW x \in Nat, NEW y \in Nat, x <= a, y <= b
      PROVE  x + y <= MaxActive + MaxConcurrent - 1
  BY <1>1, <1>3, SizesAssumption
<1>4. a' + b' <= MaxActive + MaxConcurrent - 1
  BY <1>2, <1>3
<1>5. ASSUME NEW x \in Nat, x <= r PROVE x <= MaxConcurrent
  BY <1>1, <1>5, SizesAssumption
<1> QED
  BY <1>2, <1>4, <1>5 DEF CapInv

(* One element makes a finite set larger by at most one.                     *)
LEMMA OneMore ==
  ASSUME NEW S, NEW x, IsFiniteSet(S)
  PROVE  /\ IsFiniteSet(S \cup {x}) /\ Cardinality(S \cup {x}) \in Nat
         /\ Cardinality(S \cup {x}) <= Cardinality(S) + 1
<1>1. IsFiniteSet(S \cup {x}) /\ Cardinality(S) \in Nat
  BY FS_AddElement, FS_CardinalityType
<1>2. Cardinality(S \cup {x}) = IF x \in S THEN Cardinality(S) ELSE Cardinality(S) + 1
  BY FS_AddElement
<1> QED
  BY <1>1, <1>2

(* Starting a task, picking a candidate and registering a transfer are the     *)
(* steps of a task that do not shrink the sets.                              *)
LEMMA CapTask ==
  ASSUME CapInv, NEW t \in Tasks, TaskStep(t) \/ Expire(t)
  PROVE  CapInv'
<1>0. TInv /\ IdleOutsideWave
  BY DEF CapInv
<1>1. TInv'
  BY <1>0, TaskType
<1>2. /\ stage = "wave" /\ stage' = "wave" /\ completed' = completed
      /\ \A u \in Tasks \ {t} : task'[u] = task[u]
  BY <1>0, MovingTask DEF run
<1>3. IdleOutsideWave'
  BY <1>2 DEF IdleOutsideWave
<1>4. task \in [Tasks -> TaskState] /\ task' \in [Tasks -> TaskState]
  BY <1>0, <1>1 DEF TInv, TypeOK
<1>5. /\ Cardinality(Active) \in Nat /\ Cardinality(Busy) \in Nat /\ Cardinality(Running) \in Nat
      /\ Cardinality(Running) <= MaxConcurrent
      /\ Cardinality(Active) + Cardinality(Busy) <= MaxActive + MaxConcurrent - 1
  BY <1>0, Sizes DEF CapInv
<1>6. IsFiniteSet(Running) /\ IsFiniteSet(Busy) /\ IsFiniteSet(Active)
  <2>1. Busy \in SUBSET Tasks /\ Running \in SUBSET Tasks
    BY DEF Busy, Running
  <2> QED
    BY <1>0, <2>1, SetsAssumption, FS_Subset, Counts DEF TInv
<1>7. CASE Begin(t) \/ SearchFails(t)
  <2>1. /\ task[t].pc = "queued" /\ Cardinality(Running) < MaxConcurrent
        /\ UNCHANGED <<triggered, deleted>>
    BY <1>7 DEF Begin, SearchFails, registry
  <2>2. task'[t].pc \in {"done", "poll"}
    BY <1>4, <1>7 DEF Begin, SearchFails, Becomes, TaskState
  <2>3. Running' \subseteq Running \cup {t} /\ Busy' \subseteq Busy /\ Active' = Active
    BY <1>2, <2>1, <2>2 DEF Running, Busy, Active, Holding
  <2>4. Cardinality(Running \cup {t}) <= Cardinality(Running) + 1 /\ IsFiniteSet(Running \cup {t})
        /\ Cardinality(Running \cup {t}) \in Nat
    BY <1>5, <1>6, OneMore
  <2>5. Cardinality(Running') <= Cardinality(Running \cup {t}) /\ Cardinality(Running') \in Nat
    BY <2>3, <2>4, FS_Subset, FS_CardinalityType
  <2>6. Cardinality(Busy') <= Cardinality(Busy) /\ Cardinality(Busy') \in Nat
    BY <1>0, <2>3, Sizes
  <2> QED
    BY <1>1, <1>3, <1>5, <2>1, <2>3, <2>4, <2>5, <2>6, SizesAssumption DEF CapInv
<1>8. CASE \E h \in LiveHashes : PickCandidate(t, h)
  <2>1. /\ task[t].pc = "scan" /\ ~CapReached /\ UNCHANGED <<triggered, deleted>>
    BY <1>8 DEF PickCandidate, registry
  <2>2. Running' \subseteq Running /\ Active' = Active
    BY <1>2, <2>1 DEF Running, Active
  <2>3. Busy' \subseteq Running'
    BY DEF Busy, Running, Holding
  <2>4. Cardinality(Busy') \in Nat /\ Cardinality(Busy') <= Cardinality(Running)
        /\ Cardinality(Running') \in Nat /\ Cardinality(Running') <= Cardinality(Running)
    BY <1>0, <2>2, <2>3, Sizes
  <2>5. Cardinality(Active) < MaxActive
    BY <1>5, <2>1, SizesAssumption DEF CapReached
  <2> QED
    BY <1>1, <1>3, <1>5, <2>2, <2>4, <2>5, SizesAssumption DEF CapInv
<1>9. CASE RecordTriggered(t)
  <2> DEFINE h == task[t].hash
  <2>1. /\ task[t].pc = "record" /\ triggered' = triggered \cup {h} /\ deleted' = deleted \ {h}
    BY <1>9 DEF RecordTriggered
  <2>2. task'[t].pc \in {"done", "scan"}
    BY <1>4, <1>9 DEF RecordTriggered, Becomes, TaskState
  <2>3. /\ Running' \subseteq Running /\ Busy' \subseteq Busy \ {t} /\ t \in Busy
        /\ Active' \subseteq Active \cup {h}
    BY <1>2, <2>1, <2>2 DEF Running, Busy, Active, Holding
  <2>4. Cardinality(Busy \ {t}) = Cardinality(Busy) - 1 /\ IsFiniteSet(Busy \ {t})
    BY <1>6, <2>3, FS_RemoveElement
  <2>5. Cardinality(Busy') <= Cardinality(Busy) - 1 /\ Cardinality(Busy') \in Nat
    BY <2>3, <2>4, FS_Subset, FS_CardinalityType
  <2>6. Cardinality(Active \cup {h}) <= Cardinality(Active) + 1 /\ IsFiniteSet(Active \cup {h})
        /\ Cardinality(Active \cup {h}) \in Nat
    BY <1>5, <1>6, OneMore
  <2>7. Cardinality(Active') <= Cardinality(Active \cup {h}) /\ Cardinality(Active') \in Nat
    BY <2>3, <2>6, FS_Subset, FS_CardinalityType
  <2>8. Cardinality(Running') <= Cardinality(Running) /\ Cardinality(Running') \in Nat
    BY <1>0, <2>3, Sizes
  <2> QED
    BY <1>1, <1>3, <1>5, <2>5, <2>6, <2>7, <2>8, SizesAssumption DEF CapInv
<1>10. ASSUME \/ \E candidates \in SUBSET LiveHashes : Poll(t, candidates)
              \/ LeaveLoop(t) \/ Claim(t) \/ Seen(t) \/ WaitFails(t) \/ Expire(t)
              \/ \E outcome \in {"accepted", "refused", "lost"} : Post(t, outcome)
       PROVE  CapInv'
  <2>1. UNCHANGED <<triggered, deleted>> /\ task[t].pc \notin {"queued", "done"}
    BY <1>10 DEF Poll, LeaveLoop, Claim, Seen, WaitFails, Expire, Post, registry, Running
  <2>2. task'[t].pc \in Holding => task[t].pc \in Holding
    <3>1. CASE \E candidates \in SUBSET LiveHashes : Poll(t, candidates)
      BY <1>4, <3>1 DEF Poll, Becomes, TaskState, Holding
    <3>2. CASE LeaveLoop(t)
      <4>1. task'[t] = [task[t] EXCEPT !.pc = IF task[t].mine > 0 THEN "done" ELSE "poll",
                                       !.todo = {}]
        BY <1>4, <3>2 DEF LeaveLoop, Becomes
      <4>2. task'[t].pc = IF task[t].mine > 0 THEN "done" ELSE "poll"
        BY <1>4, <4>1 DEF TaskState
      <4> QED
        BY <4>2 DEF Holding
    <3>4. CASE Expire(t)
      <4>1. task'[t] = [task[t] EXCEPT !.expired = TRUE]
        BY <1>4, <3>4 DEF Expire, Becomes
      <4> QED
        BY <1>4, <4>1 DEF TaskState
    <3>3. CASE \/ Claim(t) \/ Seen(t) \/ WaitFails(t)
               \/ \E outcome \in {"accepted", "refused", "lost"} : Post(t, outcome)
      BY <3>3 DEF Claim, Seen, WaitFails, Post, Holding
    <3> QED
      BY <1>10, <3>1, <3>2, <3>3, <3>4
  <2>3. Running' \subseteq Running /\ Busy' \subseteq Busy /\ Active' = Active
    BY <1>2, <2>1, <2>2 DEF Running, Busy, Active
  <2> QED
    BY <1>1, <1>3, <2>3, CapShrinks
<1> QED
  BY <1>7, <1>8, <1>9, <1>10 DEF TaskStep

(* A batch of the synthetic fill is no larger than the room under the cap.     *)
LEMMA CapBatch ==
  ASSUME CapInv, NEW accepted \in SUBSET Batch, NEW answer \in BOOLEAN,
         SyntheticBatch(accepted, answer), TInv', IdleOutsideWave'
  PROVE  CapInv'
<1>1. \A t \in Tasks : task[t].pc = "done" /\ task'[t].pc = "done"
  BY DEF SyntheticBatch, CapInv, IdleOutsideWave
<1>2. Running = {} /\ Running' = {} /\ Busy = {} /\ Busy' = {}
  BY <1>1 DEF Running, Busy, Holding
<1>3. /\ BatchEnd \in nextIndex..SyntheticCount
      /\ BatchEnd - nextIndex + 1 <= MaxActive - Cardinality(Active)
      /\ nextIndex \in Nat /\ Cardinality(Active) \in Nat /\ IsFiniteSet(Active)
  BY BatchBounds, Counts DEF SyntheticBatch, CapInv, TInv, TypeOK
<1>4. IsFiniteSet(Batch) /\ Cardinality(Batch) = BatchEnd - nextIndex + 1
  <2>1. nextIndex \in Int /\ BatchEnd \in Int /\ ~(nextIndex > BatchEnd)
    BY <1>3, SizesAssumption
  <2> QED
    BY <2>1, FS_Interval DEF Batch
<1>5. /\ IsFiniteSet(Active \cup Batch) /\ Cardinality(Active \cap Batch) \in Nat
      /\ Cardinality(Active \cup Batch)
           = Cardinality(Active) + Cardinality(Batch) - Cardinality(Active \cap Batch)
  <2>1. IsFiniteSet(Active \cap Batch)
    BY <1>3, FS_Subset
  <2> QED
    BY <1>3, <1>4, <2>1, FS_Union, FS_CardinalityType
<1>6. Active' \subseteq Active \cup Batch
  BY DEF SyntheticBatch, Active
<1>7. Cardinality(Active') <= Cardinality(Active \cup Batch) /\ Cardinality(Active') \in Nat
  BY <1>5, <1>6, FS_Subset, FS_CardinalityType
<1>8. Cardinality(Active') <= MaxActive
  BY <1>3, <1>4, <1>5, <1>7, SizesAssumption
<1>9. Cardinality({}) = 0
  BY FS_EmptySet
<1> QED
  BY <1>2, <1>7, <1>8, <1>9, SizesAssumption DEF CapInv

(* The bound holds throughout a run: concurrent searches exceed the cap by     *)
(* less than the size of the pool.                                           *)
THEOREM CapHolds == Spec => []CapOvershootBounded
<1>1. ASSUME Init PROVE CapInv
  <2>1. TInv
    BY <1>1, TypeInit
  <2>2. \A t \in Tasks : task[t].pc = "done"
    BY <1>1 DEF Init, IdleTask
  <2>3. Running = {} /\ Busy = {} /\ Active = {}
    BY <1>1, <2>2 DEF Init, Running, Busy, Active, Holding
  <2> QED
    BY <2>1, <2>2, <2>3, FS_EmptySet, SizesAssumption DEF CapInv, IdleOutsideWave
<1>2. ASSUME CapInv, [Next]_vars PROVE CapInv'
  <2>1. TInv'
    BY <1>2, TypePreserved DEF CapInv
  <2>2. CASE \E t \in Tasks : TaskStep(t) \/ Expire(t)
    BY <1>2, <2>2, CapTask
  <2>3. CASE Passing /\ deleted \subseteq deleted' /\ completed \subseteq completed'
    <3>1. Running' = Running /\ Busy' = Busy /\ Active' \subseteq Active
      BY <2>3 DEF Passing, Running, Busy, Active
    <3>2. IdleOutsideWave'
      BY <1>2, <2>3 DEF CapInv, IdleOutsideWave, Passing
    <3> QED
      BY <1>2, <2>1, <3>1, <3>2, CapShrinks
  <2>4. CASE StartWave
    <3>1. /\ stage' = "wave" /\ UNCHANGED <<triggered, completed, deleted>>
          /\ \A t \in Tasks : task'[t].pc = "queued"
      BY <2>4 DEF StartWave, registry, IdleTask
    <3>2. Running' = {} /\ Busy' = {} /\ Active' = Active
      BY <3>1 DEF Running, Busy, Active, Holding
    <3> QED
      BY <1>2, <2>1, <3>1, <3>2, CapShrinks DEF IdleOutsideWave
  <2>5. CASE \E accepted \in SUBSET Batch, answer \in BOOLEAN : SyntheticBatch(accepted, answer)
    <3>1. IdleOutsideWave'
      BY <1>2, <2>5 DEF SyntheticBatch, CapInv, IdleOutsideWave
    <3> QED
      BY <1>2, <2>1, <2>5, <3>1, CapBatch
  <2>6. CASE UNCHANGED vars
    <3>1. Running' = Running /\ Busy' = Busy /\ Active' = Active /\ IdleOutsideWave'
      BY <1>2, <2>6 DEF vars, registry, run, Running, Busy, Active, CapInv, IdleOutsideWave
    <3> QED
      BY <1>2, <2>1, <3>1, CapShrinks
  <2>7. ASSUME Next
        PROVE  \/ \E t \in Tasks : TaskStep(t) \/ Expire(t)
               \/ \E accepted \in SUBSET Batch, answer \in BOOLEAN : SyntheticBatch(accepted, answer)
               \/ deleted \subseteq deleted' /\ completed \subseteq completed'
    BY <2>7 DEF Next, MainStep, AppStep, Materialise, Complete, FinishRemoval, AppBecomes,
       TransportDown, StartWave, EndWave, ReadyProbe, SkipChurn, LeaveWave, ChurnList, EndChurn,
       ChurnRaises, RecordDeleted, EndSynthetic, ObserveCompleted, EndCompletion, StartCleanup,
       Deletion, Delete, EndDeletes, DeleteRaises, ObserveAbsent, ClearCompleted, Go, registry
  <2>8. ASSUME Next
        PROVE  \/ Passing
               \/ StartWave
               \/ \E accepted \in SUBSET Batch, answer \in BOOLEAN : SyntheticBatch(accepted, answer)
               \/ \E t \in Tasks : TaskStep(t) \/ Expire(t)
    BY <1>2, <2>8, PassingSteps DEF CapInv
  <2> QED
    BY <1>2, <2>2, <2>3, <2>4, <2>5, <2>6, <2>7, <2>8
<1>3. CapInv => CapOvershootBounded
  <2> SUFFICES ASSUME CapInv PROVE CapOvershootBounded
    OBVIOUS
  <2>1. Cardinality(Active) \in Nat /\ Cardinality(Busy) \in Nat
    BY Sizes DEF CapInv
  <2> QED
    BY <2>1, SizesAssumption DEF CapInv, CapOvershootBounded
<1> QED
  BY <1>1, <1>2, <1>3, PTL DEF Spec
====
