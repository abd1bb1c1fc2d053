---- MODULE StressTransfers ----
(***************************************************************************)
(* The transfers of the cold-start dump stress lane                        *)
(* (scripts/rest-cold-start-dump-stress.py): concurrent search tasks that   *)
(* trigger downloads under a cap (DownloadTriggerCoordinator,              *)
(* StressTransferRegistry), churn between waves, the synthetic queue fill,  *)
(* the wait for completions and the cleanup, against an application that    *)
(* materialises, completes and removes transfers in its own time and whose  *)
(* answers may be lost.                                                    *)
(***************************************************************************)
EXTENDS Integers, FiniteSets

CONSTANTS
  LiveHashes,       \* transfer hashes the live searches may offer
  SyntheticCount,   \* synthetic_queue_fill_count
  BatchSize,        \* synthetic_queue_fill_batch_size
  Tasks,            \* the searches of a wave (searches_per_wave of them)
  MaxConcurrent,    \* max_concurrent_searches: threads of the pool
  Waves,            \* waves
  PerSearch,        \* downloads_per_search
  MaxActive,        \* max_active_downloads
  ChurnCount,       \* download_remove_count_per_churn, 0 disables churn
  Target,           \* target_completed_downloads
  ListWindow        \* the rows one answer of GET /api/v1/transfers shows

Synthetic == 1..SyntheticCount
Hashes == LiveHashes \cup Synthetic

ASSUME SizesAssumption ==
  /\ SyntheticCount \in Nat /\ BatchSize \in Nat \ {0}
  /\ MaxConcurrent \in Nat \ {0} /\ Waves \in Nat \ {0}
  /\ PerSearch \in Nat /\ MaxActive \in Nat \ {0} /\ ChurnCount \in Nat /\ Target \in Nat
  /\ ListWindow \in Nat \ {0}
ASSUME SetsAssumption ==
  IsFiniteSet(LiveHashes) /\ IsFiniteSet(Tasks) /\ LiveHashes \cap Synthetic = {}

VARIABLES
  app,        \* hash -> what the application holds for it
  posts,      \* history: hash -> download requests sent for it
  lost,       \* history: hashes whose request was accepted but whose
              \* confirmation failed
  claimed,    \* DownloadTriggerCoordinator._claimed_hashes
  triggered, completed, deleted,   \* StressTransferRegistry
  task,       \* task -> its control state
  stage,      \* where the run is
  wave,       \* wave_index
  ready,      \* ready_probe_status == 200
  nextIndex,  \* next_index of the synthetic fill
  doomed, answered, requested,   \* the delete loop: left, answered 200/404, asked
  cleanupComplete   \* stress_cleanup_is_complete(report)

registry == <<claimed, triggered, completed, deleted>>
deleting == <<doomed, answered, requested>>
run == <<stage, wave, ready, nextIndex, cleanupComplete>>
vars == <<app, posts, lost, registry, task, run, deleting>>

AppStates == {"absent", "pending", "downloading", "completed", "removing"}
Stages == {"transport", "wave", "probe", "churn", "churning", "synthetic",
           "completion", "cleanup", "deleting", "absent", "clear",
           "finished", "aborted"}
TaskSteps == {"queued", "poll", "scan", "claim", "post", "wait", "record", "done"}
NoHash == "none"
TaskState == [pc : TaskSteps, hash : LiveHashes \cup {NoHash}, todo : SUBSET LiveHashes,
              mine : Nat, expired : BOOLEAN]
IdleTask == [pc |-> "done", hash |-> NoHash, todo |-> {}, mine |-> 0, expired |-> FALSE]

Active == (triggered \ completed) \ deleted

(* What the application holds, and what one answer of its transfer list shows  *)
(* of it: "bulk synthetic queue pressure can exceed the visible transfer-list  *)
(* window".  An answer is a full page; which rows are on it is the             *)
(* application's business.                                                   *)
Held == {h \in Hashes : app[h] \in {"downloading", "completed", "removing"}}
SmallerOf(a, b) == IF a < b THEN a ELSE b
Views == {view \in SUBSET Held :
            Cardinality(view) = SmallerOf(Cardinality(Held), ListWindow)}

Init ==
  /\ app = [h \in Hashes |-> "absent"]
  /\ posts = [h \in Hashes |-> 0]
  /\ lost = {} /\ claimed = {} /\ triggered = {} /\ completed = {} /\ deleted = {}
  /\ task = [t \in Tasks |-> IdleTask]
  /\ stage = "transport" /\ wave = 1 /\ ready = TRUE /\ nextIndex = 1
  /\ doomed = {} /\ answered = {} /\ requested = 0
  /\ cleanupComplete = FALSE

----------------------------------------------------------------------------
(* The application.                                                        *)
AppBecomes(h, from, to) ==
  /\ app[h] = from
  /\ app' = [app EXCEPT ![h] = to]
  /\ UNCHANGED <<posts, lost, registry, task, run, deleting>>

Materialise(h) == AppBecomes(h, "pending", "downloading")
Complete(h) == h \in LiveHashes /\ AppBecomes(h, "downloading", "completed")
FinishRemoval(h) == AppBecomes(h, "removing", "absent")

----------------------------------------------------------------------------
(* run_search_task and trigger_active_downloads_from_search_result: the      *)
(* pool runs at most MaxConcurrent tasks.  Becomes: the task's next state.   *)
Becomes(t, state) == task' = [task EXCEPT ![t] = state]
Running == {t \in Tasks : task[t].pc \notin {"queued", "done"}}

Begin(t) ==
  /\ stage = "wave" /\ task[t].pc = "queued"
  /\ Cardinality(Running) < MaxConcurrent
  /\ Becomes(t, [task[t] EXCEPT !.pc = IF PerSearch = 0 THEN "done" ELSE "poll"])
  /\ UNCHANGED <<app, posts, lost, registry, run, deleting>>

(* The search fails to start, or its observation raises.                    *)
SearchFails(t) ==
  /\ stage = "wave" /\ task[t].pc = "queued"
  /\ Cardinality(Running) < MaxConcurrent
  /\ Becomes(t, [task[t] EXCEPT !.pc = "done"])
  /\ UNCHANGED <<app, posts, lost, registry, run, deleting>>

(* wait_for's deadline passes; it is looked at between two calls of resolve. *)
Expire(t) ==
  /\ t \in Running /\ ~task[t].expired
  /\ Becomes(t, [task[t] EXCEPT !.expired = TRUE])
  /\ UNCHANGED <<app, posts, lost, registry, run, deleting>>

(* resolve() begins: budget, cap, then the candidates the search lists now.  *)
Spent(t) == task[t].mine >= PerSearch
CapReached == Cardinality(Active) >= MaxActive

PollForever(t, candidates) ==
  /\ task[t].pc = "poll"
  /\ Becomes(t, IF Spent(t) \/ CapReached
                THEN [task[t] EXCEPT !.pc = "done", !.todo = {}]
                ELSE [task[t] EXCEPT !.pc = "scan", !.todo = candidates])
  /\ UNCHANGED <<app, posts, lost, registry, run, deleting>>

Poll(t, candidates) ==
  /\ task[t].pc = "poll"
  /\ Becomes(t, IF task[t].expired \/ Spent(t) \/ CapReached
                THEN [task[t] EXCEPT !.pc = "done", !.todo = {}]
                ELSE [task[t] EXCEPT !.pc = "scan", !.todo = candidates])
  /\ UNCHANGED <<app, posts, lost, registry, run, deleting>>

(* The candidate loop: its exits, and the next candidate's cap check.        *)
LeaveLoop(t) ==
  /\ task[t].pc = "scan"
  /\ task[t].todo = {} \/ Spent(t) \/ CapReached
  /\ Becomes(t, [task[t] EXCEPT !.pc = IF task[t].mine > 0 THEN "done" ELSE "poll",
                                !.todo = {}])
  /\ UNCHANGED <<app, posts, lost, registry, run, deleting>>

PickCandidate(t, h) ==
  /\ task[t].pc = "scan" /\ h \in task[t].todo
  /\ ~Spent(t) /\ ~CapReached
  /\ Becomes(t, [task[t] EXCEPT !.pc = "claim", !.hash = h, !.todo = @ \ {h}])
  /\ UNCHANGED <<app, posts, lost, registry, run, deleting>>

(* DownloadTriggerCoordinator.claim, under its lock.                        *)
ClaimAlways(t) ==
  /\ task[t].pc = "claim"
  /\ claimed' = claimed \cup {task[t].hash}
  /\ Becomes(t, [task[t] EXCEPT !.pc = "post"])
  /\ UNCHANGED <<app, posts, lost, triggered, completed, deleted, run, deleting>>

Claim(t) ==
  /\ task[t].pc = "claim"
  /\ claimed' = claimed \cup {task[t].hash}
  /\ Becomes(t, IF task[t].hash \in claimed
                THEN [task[t] EXCEPT !.pc = "scan", !.hash = NoHash]
                ELSE [task[t] EXCEPT !.pc = "post"])
  /\ UNCHANGED <<app, posts, lost, triggered, completed, deleted, run, deleting>>

(* The POST: accepted, refused, or accepted with an answer that is lost.     *)
(* A failure raises out of resolve; wait_for swallows it and polls again.    *)
Retry(t) == Becomes(t, [task[t] EXCEPT !.pc = "poll", !.hash = NoHash, !.todo = {}])

Post(t, outcome) ==
  LET h == task[t].hash
  IN  /\ task[t].pc = "post"
      /\ posts' = [posts EXCEPT ![h] = @ + 1]
      /\ app' = IF outcome # "refused" /\ app[h] = "absent"
                THEN [app EXCEPT ![h] = "pending"] ELSE app
      /\ lost' = IF outcome = "lost" THEN lost \cup {h} ELSE lost
      /\ IF outcome = "accepted" THEN Becomes(t, [task[t] EXCEPT !.pc = "wait"]) ELSE Retry(t)
      /\ UNCHANGED <<registry, run, deleting>>

(* wait_for_triggered_transfer asks for the transfer by its hash, whatever the *)
(* list shows: it is seen, or the wait times out.                            *)
Seen(t) ==
  /\ task[t].pc = "wait" /\ task[t].hash \in Held
  /\ Becomes(t, [task[t] EXCEPT !.pc = "record"])
  /\ UNCHANGED <<app, posts, lost, registry, run, deleting>>

WaitFails(t) ==
  /\ task[t].pc = "wait"
  /\ lost' = lost \cup {task[t].hash}
  /\ Retry(t)
  /\ UNCHANGED <<app, posts, registry, run, deleting>>

(* StressTransferRegistry.record_triggered, under its lock.                 *)
RecordUnderCap(t) ==
  /\ task[t].pc = "record"
  /\ triggered' = IF CapReached THEN triggered ELSE triggered \cup {task[t].hash}
  /\ deleted' = deleted \ {task[t].hash}
  /\ Becomes(t, [task[t] EXCEPT
                   !.pc = IF task[t].mine + 1 >= PerSearch THEN "done" ELSE "scan",
                   !.hash = NoHash, !.mine = @ + 1])
  /\ UNCHANGED <<app, posts, lost, claimed, completed, run, deleting>>

RecordTriggered(t) ==
  /\ task[t].pc = "record"
  /\ triggered' = triggered \cup {task[t].hash}
  /\ deleted' = deleted \ {task[t].hash}
  /\ Becomes(t, [task[t] EXCEPT
                   !.pc = IF task[t].mine + 1 >= PerSearch THEN "done" ELSE "scan",
                   !.hash = NoHash, !.mine = @ + 1])
  /\ UNCHANGED <<app, posts, lost, claimed, completed, run, deleting>>

----------------------------------------------------------------------------
(* run_stress_waves: transport check, the wave, ready probe, churn.          *)
Go(next) == stage' = next /\ UNCHANGED <<app, posts, lost, registry, task>>

AfterWave(again) == IF again /\ wave < Waves THEN "transport" ELSE "synthetic"

(* No search network is ready: the wave counts as failed, the next is tried. *)
TransportDown ==
  /\ stage = "transport" /\ Go(AfterWave(TRUE))
  /\ wave' = IF wave < Waves THEN wave + 1 ELSE wave
  /\ UNCHANGED <<ready, nextIndex, cleanupComplete, deleting>>

StartWave ==
  /\ stage = "transport" /\ stage' = "wave"
  /\ task' = [t \in Tasks |-> [IdleTask EXCEPT !.pc = "queued"]]
  /\ UNCHANGED <<app, posts, lost, registry, wave, ready, nextIndex, cleanupComplete, deleting>>

(* The executor's block ends when every future has completed.               *)
EndWave ==
  /\ stage = "wave" /\ \A t \in Tasks : task[t].pc = "done"
  /\ Go("probe")
  /\ UNCHANGED <<wave, ready, nextIndex, cleanupComplete, deleting>>

ReadyProbe(ok) ==
  /\ stage = "probe" /\ ready' = ok /\ Go("churn")
  /\ UNCHANGED <<wave, nextIndex, cleanupComplete, deleting>>

LeaveWave ==
  /\ Go(AfterWave(ready))
  /\ wave' = IF ready /\ wave < Waves THEN wave + 1 ELSE wave
  /\ UNCHANGED <<ready, nextIndex, cleanupComplete>>

(* The churn interval has not elapsed, or churn is off.                     *)
SkipChurn == stage = "churn" /\ LeaveWave /\ UNCHANGED deleting

(* delete_non_completed_stress_transfers: of the active transfers that a list *)
(* shows and that are not completed, up to ChurnCount.                       *)
ChurnCandidates(view) == {h \in view \cap Active : app[h] # "completed"}

ChurnList(view, chosen) ==
  /\ stage = "churn" /\ ChurnCount > 0
  /\ chosen \subseteq ChurnCandidates(view)
  /\ Cardinality(chosen) = SmallerOf(Cardinality(ChurnCandidates(view)), ChurnCount)
  /\ doomed' = chosen /\ answered' = {} /\ requested' = Cardinality(chosen)
  /\ Go("churning")
  /\ UNCHANGED <<wave, ready, nextIndex, cleanupComplete>>

(* One DELETE of delete_stress_transfers: 200 for a transfer the application *)
(* holds, 404 for one it does not, or another status and nothing done.       *)
Removed(h) ==
  IF app[h] \in {"downloading", "completed"} THEN [app EXCEPT ![h] = "removing"] ELSE app

DeleteAnyStatus(h, ok) ==
  /\ stage \in {"churning", "deleting"} /\ h \in doomed
  /\ doomed' = doomed \ {h}
  /\ app' = IF ok THEN Removed(h) ELSE app
  /\ answered' = answered \cup {h}
  /\ UNCHANGED <<posts, lost, registry, task, run, requested>>

Delete(h, ok) ==
  /\ stage \in {"churning", "deleting"} /\ h \in doomed
  /\ doomed' = doomed \ {h}
  /\ app' = IF ok THEN Removed(h) ELSE app
  /\ answered' = IF ok THEN answered \cup {h} ELSE answered
  /\ UNCHANGED <<posts, lost, registry, task, run, requested>>

(* record_deleted for each 200/404 once the whole loop is through.           *)
RecordDeleted == deleted' = deleted \cup (answered \cap triggered)

EndChurn ==
  /\ stage = "churning" /\ doomed = {}
  /\ RecordDeleted
  /\ stage' = AfterWave(ready)
  /\ wave' = IF ready /\ wave < Waves THEN wave + 1 ELSE wave
  /\ UNCHANGED <<app, posts, lost, claimed, triggered, completed, task, ready, nextIndex,
                 cleanupComplete, deleting>>

(* A churn request raises: nothing catches it before main, which goes to its *)
(* failure handling without any cleanup of transfers.  The application may   *)
(* have carried the request out.                                           *)
ChurnRaises ==
  /\ \/ stage = "churn" /\ ChurnCount > 0 /\ app' = app
     \/ \E h \in doomed : stage = "churning" /\ app' \in {app, Removed(h)}
  /\ stage' = "aborted"
  /\ UNCHANGED <<posts, lost, registry, task, wave, ready, nextIndex, cleanupComplete, deleting>>

----------------------------------------------------------------------------
(* queue_synthetic_stress_transfers: one batch, as large as the cap and the  *)
(* batch size allow; the items the application accepted are recorded only if *)
(* the response arrives.  An accepted item is held from then on ("the batch    *)
(* POST acceptance is the durable signal"), though no list need show it.      *)
BatchEndUncapped == nextIndex - 1 + SmallerOf(BatchSize, SyntheticCount - nextIndex + 1)
BatchEndOneFurther ==
  nextIndex + SmallerOf(BatchSize, SmallerOf(SyntheticCount - nextIndex + 1,
                                             MaxActive - Cardinality(Active)))
BatchEnd ==
  nextIndex - 1 + SmallerOf(BatchSize, SmallerOf(SyntheticCount - nextIndex + 1,
                                                 MaxActive - Cardinality(Active)))
Batch == nextIndex..BatchEnd

SyntheticBatch(accepted, answer) ==
  /\ stage = "synthetic" /\ nextIndex <= SyntheticCount /\ ~CapReached
  /\ accepted \subseteq Batch
  /\ nextIndex' = BatchEnd + 1
  /\ claimed' = claimed \cup Batch
  /\ posts' = [h \in Hashes |-> IF h \in Batch THEN posts[h] + 1 ELSE posts[h]]
  /\ app' = [h \in Hashes |-> IF h \in accepted THEN "downloading" ELSE app[h]]
  /\ triggered' = IF answer THEN triggered \cup accepted ELSE triggered
  /\ lost' = IF answer THEN lost ELSE lost \cup accepted
  /\ deleted' = IF answer THEN deleted \ accepted ELSE deleted
  /\ UNCHANGED <<completed, task, stage, wave, ready, cleanupComplete, deleting>>

EndSynthetic ==
  /\ stage = "synthetic" /\ (nextIndex > SyntheticCount \/ CapReached)
  /\ Go("completion")
  /\ UNCHANGED <<wave, ready, nextIndex, cleanupComplete, deleting>>

(* wait_for_completed_stress_downloads: record what is listed as completed;  *)
(* the wait ends at the target (or files in the incoming directory), or at   *)
(* its deadline.                                                            *)
ObserveCompleted(view) ==
  /\ stage = "completion" /\ Target > 0
  /\ completed' = completed \cup {h \in view \cap triggered : app[h] = "completed"}
  /\ stage' \in IF Cardinality(completed') >= Target THEN {"cleanup"}
                ELSE {"completion", "cleanup"}
  /\ UNCHANGED <<app, posts, lost, claimed, triggered, deleted, task, wave, ready,
                 nextIndex, cleanupComplete, deleting>>

EndCompletion ==
  /\ stage = "completion" /\ Go("cleanup")
  /\ UNCHANGED <<wave, ready, nextIndex, cleanupComplete, deleting>>

----------------------------------------------------------------------------
(* cleanup_searches_and_transfers: delete every registered transfer, wait    *)
(* until none is listed, clear the completed ones.                         *)
StartCleanup ==
  /\ stage = "cleanup" /\ Go("deleting")
  /\ doomed' = triggered /\ answered' = {} /\ requested' = Cardinality(triggered)
  /\ UNCHANGED <<wave, ready, nextIndex, cleanupComplete>>

EndDeletes ==
  /\ stage = "deleting" /\ doomed = {}
  /\ RecordDeleted
  /\ stage' = "absent"
  /\ UNCHANGED <<app, posts, lost, claimed, triggered, completed, task, wave, ready,
                 nextIndex, cleanupComplete, deleting>>

(* A DELETE raises: the report holds only the error, so the completeness     *)
(* check reads zero deletions asked for and zero done.                      *)
DeleteRaises ==
  /\ stage = "deleting"
  /\ \E h \in doomed : app' \in {app, Removed(h)}
  /\ doomed' = {} /\ answered' = {} /\ requested' = 0
  /\ stage' = "absent"
  /\ UNCHANGED <<posts, lost, registry, task, wave, ready, nextIndex, cleanupComplete>>

(* wait_for_stress_transfers_absent, which has nothing to wait for when no   *)
(* transfer was registered and else waits for a list that shows none, and     *)
(* stress_cleanup_is_complete.                                               *)
AllAbsentUndeleted(view) == (triggered \ deleted) \cap view = {}
AllAbsent(view) == triggered \cap view = {}

ObserveAbsent(view, absent) ==
  /\ stage = "absent" /\ (absent => AllAbsent(view)) /\ (triggered = {} => absent)
  /\ cleanupComplete' = (absent /\ Cardinality(answered) >= requested)
  /\ Go("clear")
  /\ UNCHANGED <<wave, ready, nextIndex, deleting>>

(* clear_completed_transfers, best effort.                                  *)
ClearCompleted(ok) ==
  /\ stage = "clear" /\ stage' = "finished"
  /\ app' = IF ok THEN [h \in Hashes |-> IF app[h] = "completed" THEN "absent" ELSE app[h]]
            ELSE app
  /\ UNCHANGED <<posts, lost, registry, task, wave, ready, nextIndex, cleanupComplete, deleting>>

----------------------------------------------------------------------------
AppStep == \E h \in Hashes : Materialise(h) \/ Complete(h) \/ FinishRemoval(h)

TaskStep(t) ==
  \/ Begin(t) \/ SearchFails(t)
  \/ \E candidates \in SUBSET LiveHashes : Poll(t, candidates)
  \/ LeaveLoop(t)
  \/ \E h \in LiveHashes : PickCandidate(t, h)
  \/ Claim(t)
  \/ \E outcome \in {"accepted", "refused", "lost"} : Post(t, outcome)
  \/ Seen(t) \/ WaitFails(t) \/ RecordTriggered(t)

Deletion == \E h \in doomed, ok \in BOOLEAN : Delete(h, ok)

MainStep ==
  \/ TransportDown \/ StartWave \/ EndWave
  \/ \E ok \in BOOLEAN : ReadyProbe(ok)
  \/ SkipChurn
  \/ \E view \in Views, chosen \in SUBSET Active : ChurnList(view, chosen)
  \/ EndChurn \/ ChurnRaises
  \/ \E accepted \in SUBSET Batch, answer \in BOOLEAN : SyntheticBatch(accepted, answer)
  \/ EndSynthetic \/ EndCompletion
  \/ \E view \in Views : ObserveCompleted(view)
  \/ StartCleanup \/ Deletion \/ EndDeletes \/ DeleteRaises
  \/ \E view \in Views, absent \in BOOLEAN : ObserveAbsent(view, absent)
  \/ \E ok \in BOOLEAN : ClearCompleted(ok)

Next ==
  \/ AppStep
  \/ \E t \in Tasks : TaskStep(t) \/ Expire(t)
  \/ MainStep

Spec == Init /\ [][Next]_vars

(* The pool's threads run, wait_for deadlines pass, and the main thread goes *)
(* on; nothing is assumed of the application.                               *)
FairSpec ==
  /\ Spec
  /\ \A t \in Tasks : WF_vars(TaskStep(t)) /\ WF_vars(Expire(t))
  /\ WF_vars(MainStep)

----------------------------------------------------------------------------
TypeOK ==
  /\ app \in [Hashes -> AppStates]
  /\ posts \in [Hashes -> Nat]
  /\ lost \subseteq Hashes
  /\ claimed \subseteq Hashes /\ triggered \subseteq Hashes
  /\ completed \subseteq Hashes /\ deleted \subseteq Hashes
  /\ task \in [Tasks -> TaskState]
  /\ stage \in Stages /\ wave \in 1..Waves /\ ready \in BOOLEAN
  /\ nextIndex \in 1..(SyntheticCount + 1)
  /\ doomed \subseteq Hashes /\ answered \subseteq Hashes /\ requested \in Nat
  /\ cleanupComplete \in BOOLEAN

(* However the searches of all waves overlap, and whatever is retried after a *)
(* failure, a run asks for each transfer at most once: claim() precedes every *)
(* request and is never given back.                                          *)
PostedAtMostOnce == \A h \in Hashes : posts[h] <= 1

(* The cap is read before the claim, the request and the wait, and counts     *)
(* only confirmed transfers, so concurrent searches can exceed it; but never  *)
(* by more than the other searches of the pool that passed it meanwhile.     *)
CapOvershootBounded == Cardinality(Active) <= MaxActive + MaxConcurrent - 1

(* A transfer that churn or cleanup has deleted never comes back, although    *)
(* later waves see the same candidates again.                                *)
DeletedStaysDeleted == \A h \in deleted : app[h] \in {"removing", "absent"}

(* A cleanup reported as complete leaves no registered transfer behind, unless *)
(* the transfers that were asked for and never registered fill the page that   *)
(* it looked at: whatever is deleted, completed or removed between the deletes  *)
(* and that page.                                                            *)
Unregistered == {h \in Hashes : posts[h] > 0} \ triggered
RegisteredAreGone ==
  cleanupComplete /\ Cardinality(Unregistered) < ListWindow
    => \A h \in triggered : app[h] = "absent"

(* A transfer the application holds is registered, or a task is about to      *)
(* register it, or its confirmation failed: nothing else escapes the cap,     *)
(* the churn and the cleanup.                                                *)
InHand(h) == \E t \in Tasks : task[t].pc \in {"wait", "record"} /\ task[t].hash = h
TransfersAccountedFor ==
  \A h \in Hashes : app[h] # "absent" => h \in triggered \cup lost \/ InHand(h)

(* The registry's sets stay consistent with the coordinator's: only claimed   *)
(* transfers are registered, and a transfer in a task's hands is claimed by   *)
(* it alone.                                                                *)
ClaimsAreExclusive ==
  \A t, u \in Tasks :
    (/\ t # u /\ task[t].hash = task[u].hash
     /\ task[t].pc \in {"post", "wait", "record"})
    => task[u].pc \notin {"post", "wait", "record"}

(* A cleanup reported as complete leaves no stress transfer behind: cleanup   *)
(* "deletes stress-triggered transfers so post-drain diagnostics measure      *)
(* cleanup recovery".                                                        *)
CleanupLeavesNothing ==
  stage = "finished" /\ cleanupComplete => \A h \in Hashes : posts[h] > 0 => app[h] = "absent"

(* Every run comes to an end, whatever the application does: searches, batches *)
(* and waits are all bounded by their deadlines and counters.                *)
Terminates == <>(stage \in {"finished", "aborted"})
====
