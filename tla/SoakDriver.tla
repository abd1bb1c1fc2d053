---- MODULE SoakDriver ----
(***************************************************************************)
(* The main loop of the converged soak (main() of                          *)
(* scripts/converged-soak-live.py) around its action tracker: the          *)
(* connectivity gate read at the head of an iteration, the downloads that  *)
(* wait for their time, the automatic search cycles that schedule them,    *)
(* and the tick.  Every call to a client takes time, so the clock may have *)
(* moved between any two steps, and a download may reach one client only.  *)
(***************************************************************************)
EXTENDS ActionTracker

CONSTANTS
  Offered,         \* hashes the search pages of both clients may have in common
  HasTerms,        \* the search profile has terms (auto_terms is not empty)
  FixedHash,       \* --download-hash names the candidate
  StartDelay,      \* auto_start_delay
  SearchInterval,  \* auto_search_interval
  Postponement,    \* min(60, auto_search_interval)
  DownloadEvery,   \* auto_download_every, 0 disables downloads
  DownloadDelay,   \* auto_download_delay, never below settle + poll interval
  PollInterval,    \* poll_interval
  Duration,        \* bound: the soak's duration
  Outages,         \* bound: the clients may lose their servers
  OperatorRows     \* bound: the rows that operators may bring about

ASSUME DriverAssumption ==
  /\ Offered \subseteq Keys /\ OperatorRows \subseteq Rows
  /\ HasTerms \in BOOLEAN /\ FixedHash \in BOOLEAN /\ Outages \in BOOLEAN
  /\ FixedHash => \A g, h \in Offered : g = h
  /\ StartDelay \in Nat /\ DownloadEvery \in Nat /\ Duration \in Nat
  /\ PollInterval \in Nat \ {0}
  /\ DownloadDelay \in Nat /\ DownloadDelay >= Settle + PollInterval
  /\ SearchInterval \in Nat \ {0} /\ Postponement \in 1..SearchInterval

(* A client lists a transfer once, under its hash, and no other one by its id. *)
ASSUME TransfersAssumption ==
  \A r1, r2 \in Rows :
    r1.kind = "download" /\ SurfaceOf(r1) = SurfaceOf(r2)
      => (r1.key = r2.key \/ r1.id = r2.id => r1 = r2)

VARIABLES
  stage,      \* where the iteration is
  clock,      \* time.monotonic(), which datetime.now follows
  gate,       \* gate["ok"] of this iteration
  pending,    \* pending_downloads
  todo,       \* the cycles list(pending_downloads) has still to visit
  current,    \* the pending download that is being started
  autoCycle,  \* auto_cycle
  nextAuto,   \* next_auto
  searches,   \* history: the cycles that searched, with their time
  settled     \* history: the downloads that were started, and whether both
              \* clients accepted them

loop == <<stage, clock, gate>>
schedule == <<pending, todo, current>>
cycles == <<autoCycle, nextAuto, searches>>
driverVars == <<loop, schedule, cycles, settled>>
allVars == <<vars, driverVars>>

Stages == {"startup", "top", "status", "downloads", "rust", "mfc", "record", "auto",
           "searching", "tick", "sleep", "ended"}
Calling == {"status", "rust", "mfc", "searching", "tick"}
Outcomes == {"accepted", "refused", "lost"}
NoHash == "none"
Pending == [cycle : 1..MaxCycle, hash : Offered, due : Nat, delayed : BOOLEAN, blind : BOOLEAN]
NoDownload == [cycle |-> 0]

DriverInit ==
  /\ Init
  /\ stage = "startup" /\ clock = 0 /\ gate = FALSE
  /\ pending = {} /\ todo = {} /\ current = NoDownload
  /\ autoCycle = 0 /\ nextAuto = 0 /\ searches = {} /\ settled = {}

(* The tracker is primed, then the loop begins at time Started.              *)
Started == 1

StartLoop(ok) ==
  /\ stage = "startup" /\ Prime(ok)
  /\ stage' = "top" /\ clock' = Started /\ nextAuto' = clock' + StartDelay
  /\ UNCHANGED <<gate, schedule, autoCycle, searches, settled>>

(* A call to a client takes time.                                           *)
TimePasses ==
  /\ stage \in Calling /\ clock < MaxTime
  /\ clock' = clock + 1
  /\ UNCHANGED <<vars, stage, gate, schedule, cycles, settled>>

(* An iteration takes its time, polls both clients' status (connectivity_gate) *)
(* and looks at the downloads that wait.                                     *)
BeginIteration ==
  /\ stage = "top" /\ Iterate(clock)
  /\ stage' = "status"
  /\ UNCHANGED <<clock, gate, schedule, cycles, settled>>

ReadGate ==
  /\ stage = "status"
  /\ gate' \in (IF Outages THEN BOOLEAN ELSE {TRUE})
  /\ todo' = {p.cycle : p \in pending}
  /\ stage' = "downloads"
  /\ UNCHANGED <<vars, clock, pending, current, cycles, settled>>

----------------------------------------------------------------------------
(* The pending downloads, in the order they were scheduled.                 *)
Waiting == {p \in pending : p.cycle \in todo}
Turn(p) == stage = "downloads" /\ p \in Waiting /\ \A q \in Waiting : p.cycle <= q.cycle
Due(p) == clock >= p.due

NotYet(p) ==
  /\ Turn(p) /\ ~Due(p)
  /\ todo' = todo \ {p.cycle}
  /\ UNCHANGED <<vars, loop, pending, current, cycles, settled>>

Postpone(p) ==
  /\ Turn(p) /\ Due(p) /\ ~gate
  /\ pending' = (pending \ {p})
                  \cup {[p EXCEPT !.due = clock + Postponement, !.delayed = TRUE]}
  /\ todo' = todo \ {p.cycle}
  /\ UNCHANGED <<vars, loop, current, cycles, settled>>

(* trigger_download() on one client: the transfer is listed when the request *)
(* was carried out, also if its answer was lost and the call raises.         *)
Transfer(client, hash) ==
  {row \in Rows : row.client = client /\ row.kind = "download" /\ row.key = hash}
Trigger(client, hash, outcome) ==
  listed' = IF outcome = "refused" THEN listed ELSE listed \cup Transfer(client, hash)

(* pending_downloads.remove(pending), whatever came of it; removing from the  *)
(* list being iterated would also skip the next one.                         *)
SettleSkipping(p, ok) ==
  /\ pending' = pending \ {p}
  /\ todo' = {c \in todo \ {p.cycle} : \E d \in todo : p.cycle < d /\ d < c}
  /\ settled' = settled \cup {[cycle |-> p.cycle, hash |-> p.hash, ok |-> ok,
                               excused |-> p.delayed \/ p.blind]}

SettleDownload(p, ok) ==
  /\ pending' = pending \ {p}
  /\ todo' = todo \ {p.cycle}
  /\ settled' = settled \cup {[cycle |-> p.cycle, hash |-> p.hash, ok |-> ok,
                               excused |-> p.delayed \/ p.blind]}

(* execute_scheduled_download(): rust first, then mfc; either call may raise, *)
(* which ends the attempt.                                                  *)
StartDownload(p) ==
  /\ Turn(p) /\ Due(p) /\ gate
  /\ current' = p /\ stage' = "rust"
  /\ UNCHANGED <<vars, clock, gate, pending, todo, cycles, settled>>

TriggerOn(client, next, outcome) ==
  /\ stage = client
  /\ Trigger(client, current.hash, outcome)
  /\ IF outcome = "accepted"
     THEN stage' = next /\ UNCHANGED <<schedule, settled>>
     ELSE SettleDownload(current, FALSE) /\ stage' = "downloads" /\ current' = NoDownload
  /\ UNCHANGED <<phase, now, lastTick, tracker, baseline, clock, gate, cycles>>

TriggerRust(outcome) == TriggerOn("rust", "mfc", outcome)
TriggerMfc(outcome) == TriggerOn("mfc", "record", outcome)

(* When both accepted, the action is recorded as an observation of this       *)
(* iteration's time, under the cycle of this download.                       *)
RecordOneClient ==
  /\ stage = "record"
  /\ synchronizedKeys' = synchronizedKeys \cup {<<"download", current.hash>>}
  /\ observed' = observed \cup {SyncAction("rust", "download", current.hash, current.cycle)}
  /\ SettleDownload(current, TRUE)
  /\ stage' = "downloads" /\ current' = NoDownload
  /\ UNCHANGED <<listed, phase, now, lastTick, baseline, seen, baselineKeys, processed, reports,
                 clock, gate, cycles>>

RecordDownload ==
  /\ stage = "record"
  /\ Records("download", current.hash, current.cycle)
  /\ SettleDownload(current, TRUE)
  /\ stage' = "downloads" /\ current' = NoDownload
  /\ UNCHANGED <<listed, phase, now, lastTick, baseline, clock, gate, cycles>>

DownloadsDone ==
  /\ stage = "downloads" /\ Waiting = {}
  /\ stage' = "auto"
  /\ UNCHANGED <<vars, clock, gate, schedule, cycles, settled>>

----------------------------------------------------------------------------
(* The automatic cycle, if one is due.                                      *)
CycleDueUnbounded == clock >= nextAuto

CycleDue == clock >= nextAuto /\ autoCycle < MaxCycle
DownloadCycle(n) == DownloadEvery > 0 /\ n % DownloadEvery = 0
Searches(n) == HasTerms \/ DownloadCycle(n)

NoCycle ==
  /\ stage = "auto" /\ ~CycleDue
  /\ stage' = "tick"
  /\ UNCHANGED <<vars, clock, gate, schedule, cycles, settled>>

DelayCycle ==
  /\ stage = "auto" /\ CycleDue /\ ~gate
  /\ nextAuto' = clock + Postponement
  /\ stage' = "tick"
  /\ UNCHANGED <<vars, clock, gate, schedule, autoCycle, searches, settled>>

(* A cycle that has neither a term to search for nor a download to find.     *)
PassiveCycle ==
  /\ stage = "auto" /\ CycleDue /\ gate /\ ~Searches(autoCycle + 1)
  /\ autoCycle' = autoCycle + 1 /\ nextAuto' = clock + SearchInterval
  /\ stage' = "tick"
  /\ UNCHANGED <<vars, clock, gate, schedule, searches, settled>>

(* drive_automatic_cycle() issues its searches ...                          *)
BeginSearch ==
  /\ stage = "auto" /\ CycleDue /\ gate /\ Searches(autoCycle + 1)
  /\ autoCycle' = autoCycle + 1
  /\ searches' = searches \cup {<<autoCycle', clock>>}
  /\ stage' = "searching"
  /\ UNCHANGED <<vars, clock, gate, schedule, nextAuto, settled>>

(* ... and may pick a hash for a later download: one that both pages have and *)
(* that no client is known to have, as far as their lists can be read, or     *)
(* the fixed one.  The cycle may also raise, or find nothing.                *)
Known(hash, deaf) ==
  \E row \in listed : row.kind = "download" /\ row.key = hash /\ SurfaceOf(row) \notin deaf

EligibleIgnoringExisting(hash, deaf) == DownloadCycle(autoCycle) /\ hash \in Offered
Eligible(hash, deaf) ==
  /\ DownloadCycle(autoCycle)
  /\ hash \in Offered
  /\ FixedHash \/ ~Known(hash, deaf)

(* The next cycle is an interval after the end of this one.                  *)
FromPlannedTime == nextAuto' = nextAuto + SearchInterval
FromNow == nextAuto' = clock + SearchInterval

EndSearch(hash, deaf) ==
  /\ stage = "searching"
  /\ \/ hash = NoHash /\ UNCHANGED pending
     \/ /\ Eligible(hash, deaf)
        /\ pending' = pending \cup {[cycle |-> autoCycle, hash |-> hash,
                                     due |-> clock + DownloadDelay, delayed |-> FALSE,
                                     blind |-> deaf # {}]}
  /\ FromNow
  /\ stage' = "tick"
  /\ UNCHANGED <<vars, clock, gate, todo, current, autoCycle, searches, settled>>

----------------------------------------------------------------------------
(* The tick, only behind an open gate.                                      *)
Observe(ok) ==
  /\ stage = "tick"
  /\ IF gate THEN Ticks(ok) ELSE UNCHANGED <<tracker, lastTick>>
  /\ stage' = "sleep"
  /\ UNCHANGED <<listed, phase, now, baseline, clock, gate, schedule, cycles, settled>>

Sleep ==
  /\ stage = "sleep" /\ clock - Started < Duration
  /\ clock' = clock + PollInterval
  /\ stage' = "top"
  /\ UNCHANGED <<vars, gate, schedule, cycles, settled>>

(* "quit" on the console, the rust daemon's exit, or the duration.           *)
WindDown ==
  /\ stage = "sleep"
  /\ stage' = "ended"
  /\ UNCHANGED <<vars, clock, gate, schedule, cycles, settled>>

----------------------------------------------------------------------------
Environment ==
  \/ \E row \in OperatorRows : Appear(row)
  \/ \E row \in Removable : Vanish(row)

DriverNext ==
  \/ \E down \in SUBSET Flaky : StartLoop(Surface \ down)
  \/ TimePasses
  \/ BeginIteration \/ ReadGate
  \/ \E p \in pending : NotYet(p) \/ Postpone(p) \/ StartDownload(p)
  \/ \E outcome \in Outcomes : TriggerRust(outcome) \/ TriggerMfc(outcome)
  \/ RecordDownload \/ DownloadsDone
  \/ NoCycle \/ DelayCycle \/ PassiveCycle \/ BeginSearch
  \/ \E hash \in Offered \cup {NoHash}, deaf \in SUBSET Flaky : EndSearch(hash, deaf)
  \/ \E down \in SUBSET Flaky : Observe(Surface \ down)
  \/ Sleep \/ WindDown
  \/ Environment /\ UNCHANGED driverVars

DriverSpec == DriverInit /\ [][DriverNext]_allVars

----------------------------------------------------------------------------
DriverTypeOK ==
  /\ stage \in Stages /\ clock \in Nat /\ gate \in BOOLEAN
  /\ pending \subseteq Pending /\ todo \subseteq 1..MaxCycle
  /\ current \in Pending \cup {NoDownload}
  /\ autoCycle \in 0..MaxCycle /\ nextAuto \in Nat
  /\ searches \subseteq (1..MaxCycle) \X Nat
  /\ settled \subseteq [cycle : 1..MaxCycle, hash : Offered, ok : BOOLEAN, excused : BOOLEAN]

(* The driver keeps the tracker's protocol: it ticks at most once in an       *)
(* iteration, records a synchronized download before that tick and never     *)
(* twice under one id, however long its calls take and however many pending   *)
(* downloads come due together.  What is proved of the tracker holds of it.  *)
KeepsTrackerProtocol == Spec

(* Once an iteration has been through the pending downloads, none of them is  *)
(* overdue: each that had come due was started or postponed.                 *)
NoneOverdue ==
  stage \in {"auto", "searching", "tick", "sleep"} => \A p \in pending : p.due > now

(* "Keep searches few and widely spaced": two cycles that search are apart by *)
(* a search interval for each cycle from the one to the other, also after an  *)
(* outage or a slow cycle: cycles that were missed are not made up for.       *)
Intervals(m, n) == (n - m) * SearchInterval
Gentle ==
  \A s1, s2 \in searches :
    s1[1] < s2[1] => s2[2] >= s1[2] + Intervals(s1[1], s2[1])

(* A transfer a client already has is left alone; the driver starts the same  *)
(* download a second time only when an outage had postponed one of the two    *)
(* past the next cycle's choice, or a transfer list could not be read when    *)
(* one was chosen.                                                           *)
Repeated(d1, d2) == d1.cycle # d2.cycle /\ d1.hash = d2.hash /\ d1.ok /\ d2.ok
RepeatsComeFromOutages ==
  \A d1, d2 \in settled : Repeated(d1, d2) => d1.excused \/ d2.excused

(* A download the driver started once, on both clients, and that no action of   *)
(* an operator competes for, is reported as one pair, its own two halves:     *)
(* neither half is taken by another action, nor ages out alone.              *)
StartedOnce(hash) ==
  Cardinality({d \in settled : d.hash = hash}) = 1 /\ \A p \in pending : p.hash # hash
Contested(hash) == \E a \in observed : a.key = hash /\ a.id \notin SyncIds
TwinsStayTogether ==
  \A r \in reports : \A a \in r.members :
    a.id \in SyncIds /\ StartedOnce(a.key) /\ ~Contested(a.key)
      => {b.id : b \in r.members} = {<<c, a.id[2]>> : c \in Client}
====
