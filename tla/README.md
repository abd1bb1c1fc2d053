# Formal models of the eMule test harness

The repository under `src/` is the test harness of eMuleBB and its Rust port: a
Python package (`emule_test_harness/`), about a hundred scripts that run live
tests ("lanes") against real clients, servers and controllers, doctest unit
tests of the clients' C++ code, and catalogues of scenarios. Little of it
computes something hard; nearly all of it starts processes, waits for them,
asks them over REST, and has to stay right when they fail, answer late or die.
That is what these modules model: TLC checks them on small instances, and TLAPS
proves every safety property of the passing runs for all instances, some of them
under a named condition.

`PROJECT.json` maps every definition to the lines it models, lists the runs, a
mutant for each property, the hazards and the theorems.

## Inventory

| Part | State it keeps | Operations | Talks to | Module |
|---|---|---|---|---|
| Action tracker (`converged-soak-live.py`, `soak_action_diff.py`) | rows seen, actions, processed ids, synchronized actions | prime, record, tick | REST lists of two clients | `ActionTracker` |
| Converged soak driver (`converged-soak-live.py`, `main`) | cycle, pending downloads, hashes requested, next search | search cycle, schedule, due downloads, retry | tracker (calls), both clients (REST) | `SoakDriver` |
| Transfers of the cold-start stress (`rest-cold-start-dump-stress.py`) | claims and registry shared by a thread pool | search, poll, POST, confirm, churn, fill, drain, cleanup | the application (REST) | `StressTransfers` |
| Acquisition of the Arr lanes (`radarr-sonarr-emulebb-live.py`) | hashes known before, candidates, chosen hash | search, grab, fall back, add, confirm, hand off, wait | Radarr/Sonarr, Prowlarr, eMule | `ArrAcquisition` |
| Aggregate live E2E runner (`live_e2e_suite.py`, `cpu_profile.py`) | per-suite results, the summary; outside: VPN, kernel logger, children | hooks, capture, child, verdict | child processes, VPN tool, xperf | `LiveE2ESuite` |
| Process tree termination (`windows_processes.py`, `rust-soak-control.py`) | the snapshot of a tree | collect, check, terminate, wait | WMI; used by the runner, lanes, soak control | `TreeKill` over `Processes`, implementing `Termination` |
| Stop running tests (`stop-running-tests.py`) | selected processes | select, stop each tree | the same process table | `StopTests` over `Processes` |
| The lanes (58 functions of some fifty scripts) | the resources the function's variables name, its report | start, restart, close, kill; the `finally` block | clients, servers, monitors, volumes, settings | `LaneSteps`, `Lane`, five tables |
| Everything else | see *Not modelled* | | | |

The parts meet through the machine: the aggregate runner starts lanes as
children and ends them with the tree termination; a lane has the acquisition or
the transfer stress in its body (one step of the lane) and the close of a
client in its teardown; the soak driver calls the tracker directly and shares
the clients with an operator.

What is hard in this code: answers lost after the request was carried out; lists
read before and used after something changed; a thread pool's check-then-act;
pid reuse between a snapshot and a kill; exceptions between a start and the
variable that would name what was started, or in the middle of a teardown;
machine state (VPN, kernel logger, a surviving child) that outlives the suite
that touched it. The 40 hazards of `PROJECT.json` are each at its line.

## The modules

**ActionTracker.** One variable `tracker` is the record of the Python object; the
rows of the two clients' lists appear and vanish by themselves. `Prime`,
`RecordSynchronized` and `Tick` are the three methods; `Tick` polls, ingests,
correlates all active actions anew (`Correlation` is the greedy nearest-first
pairing of `correlate_actions`), hands out pairs that have settled and then what
has aged out. `Iterate` is the driver's next `now`, at most `MaxGap` later.

**SoakDriver** composes the tracker (EXTENDS, its actions conjoined) with the
main loop: search cycles, downloads chosen from searches or fixed, the pending
list, the retry of what could not be requested, requests whose answer is lost.
The connectivity gate may read anything at each iteration when `Outages`;
monotonic clock and `datetime` advance together; calls take any time; searches'
rows are the environment's; a request that is carried out is listed at once;
marker commands, diffs and checkpoints are elsewhere. `MaxCycle` bounds
`auto_max_cycles = 0`, `DownloadDelay` is the maximum computed at
`converged-soak-live.py:2035`.

**StressTransfers.** Tasks of the pool (`task`), the shared
registry and coordinator (`registry`), the application's transfers with requests
on their way, and the main thread's phases: waves, churn between them,
synthetic fill, completion wait, cleanup. Each task step is one access under the
lock or one REST request; a POST may be accepted with its answer lost, a
deadline may pass at any poll. What the script knows of the application is one
page of its transfer list: an answer shows `ListWindow` of the transfers it holds
(`Views`), and which ones is the application's business ("bulk synthetic queue
pressure can exceed the visible transfer-list window",
`rest-cold-start-dump-stress.py:1847`). That page is what confirms a download,
what churn chooses from and what the cleanup's absence check goes by.

**ArrAcquisition.** `pc` is the place in `grab_first_arr_release_or_fallback_to_prowlarr`
and in what follows it. Requests travel through `coming` (accepted, not yet
listed); `strays` counts the requests that were carried out while the script saw
an error, a timeout, or no new transfer in time. A poll that raises is caught and
gone on from, also with something new in the list already. Searches return any non-empty
set of releases in any order. Only this script adds transfers to the category:
a grab that Radarr makes on its own is not modelled.

**LiveE2ESuite.** `stage` is the place in the loop over the suites; `vpn`,
`logger` and `alive` are the machine. Each hook and each capture command may
fail with or without its effect; a child may exit, hang, or survive its
termination. The tunnel goes down or comes back by itself at any time
(`TunnelChanges`); a child that runs, or survived, may change the tunnel and the
allowlist at any time (`ChildTouchesVpn`). An exception or Ctrl-C may strike in the
capture, the launch, the wait, the reap, the stop of the capture, and in any hook.
Between suites and in the public-IP probe it is not modelled.

**Processes, TreeKill, Termination, StopTests.** `Processes` is the table of a
Windows machine: instances with a pid, the pid of a parent that may be gone or
replaced, a command line that may be unreadable. Listing it is one step; a
terminated instance exits some time later and starts nothing more; the creation
date is never empty. `TreeKill` is `terminate_process_tree` with two kinds of
callers: those that kept the creation date from the launch, and
`terminate_pid_tree`, which looks it up at the call. `Termination` is what such a
call promises, whatever the machine does: only members of one accepted snapshot
are killed, and "done" means that all of them have gone. `StopTests` takes
roots in any order; the kinds of evidence are merged into two command lines,
runner and helper, which it treats alike.

**LaneSteps, Lane, SwarmLanes, AmutorrentLanes, AppLanes, UiLanes,
VolumeLanes.** A lane is a function that starts resources, works, and gives them
back in `finally`. `LaneSteps` has the vocabulary: steps of the body (`Start`;
`Called` for a callee that starts a process and can raise before it returns;
`Close`, `Kill`, `Restart`, `Option`), entries of the teardown and what an exception
there does to the report (`Note`, `Demote`, `Fail`, `Raise`, `OrKill`), `--keep-running`, and
how the exit code comes about. A phase (`LaunchPhase`) launches and closes a client
in a `try` of its own that notes every error, and the lane goes on with the next.
Each lane is written with it in the five tables,
in the order of its code. `Lane` runs one: every step may raise, Ctrl-C may come
in the body, an option may leave steps out, each entry of the teardown may fail.
`presumed` are the instances that the code takes for gone without knowing it.
The assertions a body makes about the application are one `Work` step.

Assumptions of the lanes: at most `MaxFaults` exceptions in a run; pids are known;
applications do not crash by themselves; a start that raises inside `Start` has
started nothing; one adverse-kill cycle, and one case where a script runs several
of one form after each other; godzilla is two lanes by its options; "running" stands for
any status that is not yet decided; the report entry also stands for a report
that is handed to the caller.

## What the runs check

`MC*` modules give small sets; every bound is named in its module. Deadlock is
not checked where the program ends or time is bounded.

| Run | Shows | Instance, and why it is enough |
|---|---|---|
| `tracker_pairing` | each action is handed out once (`ReportedAtMostOnce`); no pair inside the window is given up as two unpaired ones unless an action of its kind and key was hidden (`NoMissedPair`), and two halves without a rival never are (`HalvesMeet`); nothing waits longer than window plus settle (`PendingIsBounded`); what is marked processed without a report is so through a reported action of another list with the same id (`HiddenByNamesake`) | two searches on each client, the smallest instance in which nearest-first pairing can take a partner that another one needed, and a download that both list under one id, its hash; gaps of 0 to 2 around window 2 and settle 1 |
| `tracker_suppressed` | expects a violation: see *Findings* | one download, one search |
| `tracker_driver` | the driver's own download is not observed again (`EchoSuppressed`); what `prime()` could read never becomes an action (`PolledBaselineSilent`: of a list whose poll failed it says nothing) | a synchronized download, old rows, a row that goes, a list whose poll may fail |
| `driver_rounds` | no pending download is left behind its time (`NoneOverdue`); two searches are apart by an interval for each cycle between them (`Gentle`); a hash is requested again only after an outage (`RepeatsComeFromOutages`); a download that both clients accepted once, and that no other action competes for, is reported as one pair of its own halves (`TwinsStayTogether`); the composition is a behaviour of the tracker's own `Spec` (`KeepsTrackerProtocol`) | four cycles, every other one with a search and a download; calls of any length, outages, a list that may not answer, an operator's copy of the file on one client; a delay (3) above the interval (2), so that two downloads come due in one pass. 1.7 million states |
| `stress_waves` | no hash is posted twice, the cap is overshot by the concurrent tasks at most, deleted transfers stay deleted, a complete cleanup leaves no registered transfer as long as what was never registered does not fill a page (`RegisteredAreGone`), every transfer is accounted for, and the run ends (`Terminates`) | two waves of two tasks, two hashes, cap one: enough for a race on the cap and one on a hash; three synthetic transfers against a page of two |
| `stress_orphan` | expects a violation: see *Findings* | one task |
| `suite_verdicts` | "passed" stands on the suite's own exit code, capture and address (`PassedIsProven`); the VPN is back before the verdict unless it changed after the restore's checks had looked (`VpnBackBeforeVerdict`); no way out of a suite goes past its restore hooks (`RestoreAlwaysTried`); fail-fast skips what it must and nothing else; the run ends (`RunEnds`) | two suites (a suite and its successor), both with hooks and a capture, one with an address |
| `suite_restore` | expects a violation: see *Findings* | two suites |
| `kill` | a call implements `Termination` (`KeepsPromise`), takes the process the caller means (`RootIsMeant`), strangers stay (`StrangersStay`), children go first | three instances and three pids: a pid reused by a stranger or a child of the call's own tree, gone parents, circles of parents |
| `stop_evidence` | only processes with evidence are killed; code 0 means that every root has gone | four instances in turn on three pids, of which three live at once: runners, bystanders and the script in one tree, and a fourth that reuses a pid. No helper line: the script treats it as a runner's |
| `lanes` | `NothingForgotten`, `VolumeLast`, `OneOfEach`, `VerdictsAgree` for each of the 58 lanes | all options, three faults: one ends the body, one breaks a release, one more meets the teardown in that state; or one in each of three phases. 1.5 million states |
| `arr_strays` | a passed acquisition leaves the transfer it waited for, or nothing after a handoff, and one more at most for each request it gave up on (`LeftoversExcused`) | three releases, two strays: a late transfer of one, taken for another, while the third is still to come |

Fairness. `StressTransfers!FairSpec`: weak fairness of each pool thread, of the
deadlines it waits with and of the main thread; nothing is assumed of the
application. `wait_for` compares `time.time()` (`emule-live-profile-common.py:243`):
a deadline passes as long as nobody keeps setting the machine's clock back. `LiveE2ESuite!FairSpec`: weak
fairness of the runner's own steps, its wall-clock limits among them; a child
need never exit. The other modules state safety only.

Refinements: `TreeKill` implements `Termination` (`INSTANCE ... WITH`, the
outcome derived from `stage`, the doomed instances from the snapshot);
`SoakDriver` implements `ActionTracker!Spec`, which carries the tracker's
results over to the loop that uses it.

## What is proved

Each invariant and action property that a passing run checks is a theorem, for
every value of the constants that the modules' `ASSUME`s allow, which TLC evaluates in
every run; where a theorem has a hypothesis of its own, it is named below. A proof is
always the same argument: an inductive invariant and one step per action. What each
invariant adds, and why it is needed:

- `ActionTrackerProofs`. What was handed out is processed, what is processed was
  observed, what was observed was seen. Correlation starts anew at each tick: only
  `processed` keeps an action from coming back. From it `ReportedAtMostOnce`,
  `PendingIsBounded`, `EchoSuppressed`, `PolledBaselineSilent`, for any rows, downloads
  with one id on both clients among them. What hides an action is a namesake:
  `HiddenByNamesake` needs that one list never shows two rows of one id as two actions.
  `NoMissedPair` needs the future: a rust action may be in
  a pair when a nearer candidate of the same key is given up, and must not lose that
  partner later. `Lonely` says so: between ticks there is a correlation of what is
  left in which every rust action that would have fitted a lone mfc action has a
  partner. It is inductive because new actions come last in the greedy order
  (`NewcomersTakeNothing`: what was free for an older rust action stays free, else
  take the first one for which it does not) and because pairs leave together
  (`PairsLeaveTogether`); an action that leaves hidden, and not in a report, is the
  exception that the property makes. `HalvesMeet` is about the rows that this exception
  would swallow, the halves of a download: while both are active, no rival of their
  kind, key or id can take either.
- `SoakDriverProofs`. `DriverInv` ties the loop's place to the clock, the tick and the
  ids it has recorded; it gives `NoneOverdue` and `KeepsTrackerProtocol`: each step of
  the loop is a step of `ActionTracker!Next` or none, so the tracker's theorems hold in
  the loop (`TrackerInDriver`). `Schedule` relates each search to the time of the next
  and gives `Gentle`: by induction over the
  cycles as they run, each start of a search is an interval past the cycle before it.
  `RepeatsComeFromOutages` holds under `ChosenOnce`: hashes come
  from searches, no row leaves a list, both clients can list an offered hash, and
  `DownloadDelay <= SearchInterval`, as the defaults have it
  (`converged-soak-live.py:1408`, `:1411`, `:2020`: at least 300 seconds against 90); with a
  longer delay a download may still wait when the next cycle chooses. (The run's delay
  is longer, and the run has an operator's rows, but no rows that go: it and the theorem
  cover different instances. A fixed hash and a profile with terms are covered
  by the other theorems of the module only.) `TwinsStayTogether`
  holds under `Undisturbed`: nobody but the driver downloads an offered hash; an
  operator's copy can take one half. Its invariant: both halves carry one time and
  are processed together, and a row of an offered hash is observed as new only when an
  earlier start of it had failed.
- `StressTransfersProofs`. An ownership invariant (a claim, a POST in flight and a
  registration of one hash belong to one task), which is what the lock is for; the
  books against the application; and the count that bounds the overshoot. For
  `RegisteredAreGone`: the page that the absence check goes by shows nothing registered, so
  if a registered transfer is held the page is full, and full of transfers that were
  never registered, which the premise says are too few. From them
  the six safety properties of `stress_waves`, for any number of tasks, waves and hashes.
- `ArrAcquisitionProofs`. `LeftoversExcused` is a count, so the invariant is an
  accounting: the transfers that are listed and the requests accepted but not listed
  yet are no more than `strays` and the one the script still answers for.
- `LiveE2ESuiteProofs`. `PassedIsProven`, `VpnBackBeforeVerdict`, `RestoreAlwaysTried` and
  `NoSuiteSkipped`: at
  each stage of a suite, what the runner has found out so far is what its facts say,
  the suites before it are judged and those after it untouched, and a failure noted
  on the way is never taken back. For the VPN: what the restore hooks still have to do
  or to check is what may still be wrong, until `checkConnected` has looked.
- `TreeKillProofs`. `RootIsMeant`, `StrangersStay`, and that `TreeKill` implements
  `Termination` (`Spec => KeepsPromise`). The invariant adds what the checks of the root
  rest on: no target before a root is accepted, the expected date of a caller that
  kept it is its own process's, and while the call waits every target that still
  runs is among those it last looked up. The last makes success true: no target
  comes back, as a new process is a new instance. `ChildrenFirst` rests on
  `ChildIsShallower` (a child's `depth()` is strictly less than its parent's unless a
  chain is endless) and on rows of a snapshot that do not change.
- `StopTestsProofs`. `OnlyEvident` and `RootsAreGone`: every root and target, and every
  process killed so far, has evidence; and while the code is 0, a selected root that
  still runs is still to be visited or a target of the tree being stopped.
- `LaneProofs`, for any table of lanes that meets the assumptions of `Lane`.
  `NothingForgotten` and `OneOfEach` from `DisciplineAssumption` (what a body creates its
  teardown names; what it creates twice it closes in between, with no option that
  leaves only the close out; what it closes it has stored): everything that runs is
  held, unadopted, tried or kept, and whatever is held is named by an entry that the
  teardown has not passed yet, or is settled; only a kill, or a phase that notes its
  errors, leaves running what was tried and goes on. `VolumeLast` from `BaseAssumption` (the volume is not finished in the body, has
  nothing on it where an `except` gives it back, and comes last in the teardown) and
  `VerdictsAgree` from `ReportAssumption` (a lane that computes its code from the report
  writes one, and demotes nothing after it). The assumptions are about the order of a
  lane's lines alone; the theorems are about exceptions, options and faults at any of
  them. A lane whose lines are in a wrong order makes an assumption false in `lanes`.

Other assumptions that the code justifies: `TransfersAssumption` of `SoakDriver` (on one
client a download is listed once, under its hash, and no other one under that id:
`soak_action_diff.py:121`, `:140`). The two clients list it under the same id.

What the promises leave out. Some properties hold because the code's own behaviour is
named in them as an exception; there they do not guard the code, they say where
its promise ends:

- `PolledBaselineSilent`: a list that `prime()` could not read.
- `RepeatsComeFromOutages`, `TwinsStayTogether`: a repeat after an outage; a download that
  one client only accepted; a hash that somebody else downloads at the same time.
- `RegisteredAreGone`: a page filled by transfers that were never registered. With
  `SyntheticCount` above the page it can be, and then a cleanup that calls itself
  complete may leave a registered transfer; without the premise TLC finds that run.
- `VpnBackBeforeVerdict`: a change after `checkConnected` has looked; the code looks no
  more before it judges.
- `NothingForgotten`: an instance that its callee never handed over, a teardown torn by an
  exception, what `--keep-running` spares.
- `VolumeLast` says in which order the lane tries, and not that nobody writes to a disk
  that is detached: a client that refused to close is cut off from it
  (`radarr-sonarr-emulebb-live.py:5118`).
- `OneOfEach`: a second client beside a killed one whose end the code does not check
  (`godzilla-local-swarm.py:1722`), or beside one that would not close in a phase
  (`shared-cache-invalidation.py:229`). In the model both happen.
- `VerdictsAgree`: the lanes that fix their code where the body returns (below).
- `LeftoversExcused`: one transfer left for each request that was given up on, and nothing
  about which transfer it was.

Only model-checked: `Terminates` and `RunEnds`, as liveness under fairness is out of the
prover's reach. The type invariants of `StopTests` and `ArrAcquisition` are proved and are
no run's property. Depth in `Processes` is defined by chains as functions and the first
of a set of actions by well-foundedness, so that neither needs an induction over
data, which the provers cannot instantiate.

## Findings

1. `tracker_suppressed` — the tracker's `processed` set holds bare ids for both clients
   and kinds, and the two halves of a download have one id, the hash
   (`soak_action_diff.py:145`). When the first half ages out in the tick in which the
   second is seen, the second is neither paired nor returned as unpaired, where
   `soak_action_diff.py:237` promises that it is.
2. `stress_orphan` — a download whose POST was accepted but not confirmed is never
   registered; a cleanup that calls itself complete leaves it.
3. `suite_restore` — the VPN setup hooks run before the `try` whose `finally` restores.
   In the run, one suite has been run, restored and judged; in the next one's setup
   the application is taken off the allowlist, `disconnect` fails, and the run is
   over with the VPN as the hooks left it.
4. `kill` — `terminate_pid_tree` looks up by pid the date that is to prove the pid,
   so a process with an unreadable command line is killed unchecked; `StrangersStay`
   has to except it.

Behaviour seen while modelling that no property states:

- A list poll of `prime()` that fails counts as an empty list
  (`converged-soak-live.py:155`): old rows become actions at the first tick.
- Churn may delete a transfer that completed after churn read the list.
- `ArrAcquisition`: a grab whose POST timed out after Radarr had handed the release
  over is followed by a second request; the late transfer may be the one that is
  confirmed, stopped and deleted. Where it came before the fallback's own snapshot
  it is no longer "new", and adding the same release again fails. An absence of
  ten seconds after the transfer was seen counts as complete
  (`radarr-sonarr-emulebb-live.py:3229`); a resume that fails leaves the
  transfer without the handoff's cleanup.
- Tree termination: a child created after the snapshot, or below a parent that had
  gone, stays; a circle of reused parent pids makes `depth()` recurse without end.
- Lanes whose code is `"returned"` can exit 0 with a report demoted to failed
  afterwards (two-client, search soak, cross-client, both reask scripts, both Kad
  swarms, parity matrix, godzilla, aMuTorrent local UI, Prowlarr, Radarr/Sonarr,
  browse stress, helper integration, upload soak); the aggregate runner looks at
  the exit code only.
- `disk-space-guard-live.py:472` writes a passed report although a detach failed;
  `vhd-partfile-recovery.py` detaches its volume before the `finally` that closes
  the client; `shared-cache-invalidation.py:229` goes on beside a client that
  would not close (modelled; see above).

## Not modelled

- **Soak operator commands** (`rust-soak-control.py`): start, stop, monitor and watch
  over pid and stop files; only the tree termination it uses is modelled.
- **Soak checkpoints, finalisation and diffs**, **diagnostic log analysis**: text in,
  verdict or report out, without state between calls.
- **Soak launch**: its Ctrl-C ends with code 0, which no lane of the model does.
  The teardown of `converged-soak-live.py` swallows Ctrl-C likewise.
- **REST contract checks, route tables, Prowlarr checks, the bodies of the lanes**:
  requests against tables of expected answers.
- **Arr import after completion, set-up of clients and indexers, direct qBit checks.**
- **Metadata import, migration and dumps**: binary formats and SQL; their correctness
  lies in data a bounded model does not reach.
- **Windows VM runs, VPN tool, monitors, address pool, profile and launch helpers**:
  commands of other tools in fixed order; where a lane depends on their outcome
  it has it as a step.
- **Scenario, campaign and preference catalogues**: constant tables.
- **Other scripts** (`playlist-mp3-download`, `amutorrent-interactive-session`,
  `multi-client-p2p-matrix`, `vhd-partfile-recovery`, `windows-vm-rest-stress`): their
  teardown is not of the form `Lane` runs.
- **Native tests, Python unit tests, doctest**: tests of other code, and vendored code.

## Plan

1. Proofs: the tracker's pairing promises in the loop; `RepeatsComeFromOutages` with rows
   that leave a list. A run of the driver with a fixed hash.
2. The start, stop and watch commands of `rust-soak-control.py` beside
   `upload_parity_monitor.py`: pid and stop files that outlive their process, a stop
   file that the next start removes before a sleeping loop has seen it, a watcher
   that restarts what an operator stops. What they promise is liveness (a loop
   told to stop ends, a dead monitor comes back) and, for one watcher alone, that
   a restart never leaves two monitors.
3. Checkpoints and finalisation of the converged soak beside its main loop.
