---- MODULE SoakDriverProofs ----
(***************************************************************************)
(* The soak's main loop keeps its tracker's protocol, so that what is proved  *)
(* of the tracker holds in it; it starts downloads and searches when it       *)
(* should, for any rows, hashes, intervals and bounds.                      *)
(***************************************************************************)
EXTENDS SoakDriver, ActionTrackerProofs

(* The iteration's time is behind the clock, and no tick has run at that time      *)
(* before the iteration's own.                                               *)
Clocks ==
  /\ now \in Nat /\ lastTick \in Int /\ lastTick <= now /\ now <= clock
  /\ stage \in Stages \ {"startup", "top", "sleep", "ended"} => lastTick < now
  /\ stage # "startup" => phase = "loop"
  /\ stage = "startup" => now = 0 /\ searches = {}

(* A download being started waits still; cycles are numbered upwards, and a cycle    *)
(* has one download, which waits or is settled.                               *)
Starting ==
  stage \in {"rust", "mfc", "record"} => current \in pending /\ current.cycle \in todo /\ gate
Numbered(c) == c <= autoCycle /\ (stage = "searching" => c < autoCycle)
OnePerCycle ==
  /\ \A p, q \in pending : p.cycle = q.cycle => p = q
  /\ \A d, e \in settled : d.cycle = e.cycle => d = e
  /\ \A p \in pending, d \in settled : p.cycle # d.cycle
  /\ \A p \in pending : Numbered(p.cycle)
  /\ \A d \in settled : Numbered(d.cycle)
  /\ stage = "searching" => autoCycle > 0

(* A synchronized action comes from a download that both clients accepted.            *)
SyncIsSettled ==
  \A a \in observed : a.id \in SyncIds =>
    \E d \in settled : d.ok /\ d.cycle = a.id[2] /\ d.hash = a.key

(* The downloads visited in this iteration are not overdue.                          *)
Swept ==
  stage \in {"downloads", "rust", "mfc", "record"} =>
    \A p \in pending : p.cycle \notin todo => p.due > now

(* Searches lie behind, an interval for each cycle that has begun since, and the next   *)
(* cycle lies one more ahead.                                                        *)
Spaced ==
  \A s \in searches :
    /\ s[1] <= autoCycle /\ clock >= s[2] + Intervals(s[1], autoCycle)
    /\ stage # "searching" => nextAuto >= s[2] + Intervals(s[1], autoCycle + 1)

DriverInv ==
  /\ DriverTypeOK /\ Clocks /\ Starting /\ OnePerCycle /\ SyncIsSettled
  /\ Swept /\ NoneOverdue /\ Spaced /\ Gentle

USE DriverAssumption, TimesAssumption

LEMMA DriverInitInv == DriverInit => DriverInv
<1> SUFFICES ASSUME DriverInit PROVE DriverInv
  OBVIOUS
<1> USE DEF DriverInit, Init
<1>1. DriverTypeOK
  <2>1. autoCycle \in 0..MaxCycle /\ stage \in Stages /\ current \in Pending \cup {NoDownload}
    BY DEF Stages
  <2> QED
    BY <2>1 DEF DriverTypeOK
<1>2. Clocks
  BY DEF Clocks, Stages
<1> QED
  BY <1>1, <1>2 DEF DriverInv, Starting, OnePerCycle, SyncIsSettled, Swept, NoneOverdue, Spaced, Gentle

(* What only time, the lists or the iteration's place change leaves the schedule, the  *)
(* cycles and the observations as they were.                                 *)
LEMMA Frame ==
  ASSUME DriverInv, UNCHANGED <<observed, pending, settled, cycles>>,
         clock' \in Nat, clock <= clock', stage' = "searching" <=> stage = "searching"
  PROVE  OnePerCycle' /\ SyncIsSettled' /\ Spaced' /\ Gentle'
<1> USE DEF DriverInv, cycles
<1>1. OnePerCycle'
  BY DEF OnePerCycle, Numbered
<1>2. SyncIsSettled'
  BY DEF SyncIsSettled
<1>3. \A s \in searches :
        s[1] \in Nat /\ s[2] \in Nat /\ Intervals(s[1], autoCycle) \in Int
  BY DEF DriverTypeOK, Intervals
<1>4. clock \in Nat
  BY DEF DriverTypeOK
<1>5. Spaced'
  BY <1>3, <1>4 DEF Spaced
<1>6. Gentle'
  BY DEF Gentle
<1> QED
  BY <1>1, <1>2, <1>5, <1>6

(* Calls take time.                                                                 *)
LEMMA TimeInv ==
  ASSUME DriverInv, TimePasses
  PROVE  DriverInv'
<1> USE DEF TimePasses, vars, tracker, schedule, cycles
<1>1. clock \in Nat /\ clock' = clock + 1 /\ stage' = stage /\ stage \in Calling
  BY DEF DriverInv, DriverTypeOK
<1>2. OnePerCycle' /\ SyncIsSettled' /\ Spaced' /\ Gentle'
  BY <1>1, Frame
<1>3. DriverTypeOK'
  BY <1>1 DEF DriverInv, DriverTypeOK
<1>4. Clocks'
  BY <1>1 DEF DriverInv, Clocks
<1>5. Starting' /\ Swept' /\ NoneOverdue'
  BY <1>1 DEF DriverInv, Starting, Swept, NoneOverdue
<1> QED
  BY <1>2, <1>3, <1>4, <1>5 DEF DriverInv

(* The loop begins.                                                                  *)
LEMMA StartInv ==
  ASSUME DriverInv, NEW ok, StartLoop(ok)
  PROVE  DriverInv'
<1> USE DEF StartLoop, Prime, schedule, Started
<1>1. DriverTypeOK'
  BY DEF DriverInv, DriverTypeOK, Stages
<1>2. Clocks'
  BY DEF DriverInv, Clocks, Stages
<1>3. Starting' /\ Swept' /\ NoneOverdue'
  BY DEF Starting, Swept, NoneOverdue
<1>4. OnePerCycle' /\ SyncIsSettled'
  BY DEF DriverInv, OnePerCycle, Numbered, SyncIsSettled
<1>5. Spaced' /\ Gentle'
  BY DEF DriverInv, Clocks, Spaced, Gentle
<1> QED
  BY <1>1, <1>2, <1>3, <1>4, <1>5 DEF DriverInv

(* An iteration begins, and reads the gate.                                           *)
LEMMA BeginInv ==
  ASSUME DriverInv, BeginIteration \/ ReadGate
  PROVE  DriverInv'
<1> USE DEF cycles, Iterate, tracker, vars
<1>1. clock \in Nat /\ clock' = clock /\ stage' # "searching" /\ stage # "searching"
  BY DEF BeginIteration, ReadGate, DriverInv, DriverTypeOK
<1>2. OnePerCycle' /\ SyncIsSettled' /\ Spaced' /\ Gentle'
  <2>1. UNCHANGED <<observed, pending, settled, cycles>>
    BY DEF BeginIteration, ReadGate, schedule
  <2> QED
    BY <1>1, <2>1, Frame
<1>3. CASE BeginIteration
  <2>1. DriverTypeOK'
    BY <1>3 DEF BeginIteration, DriverInv, DriverTypeOK, Stages, schedule
  <2>2. Clocks'
    BY <1>1, <1>3 DEF BeginIteration, DriverInv, Clocks, Stages
  <2>3. Starting' /\ Swept' /\ NoneOverdue'
    BY <1>3 DEF BeginIteration, Starting, Swept, NoneOverdue
  <2> QED
    BY <1>2, <2>1, <2>2, <2>3 DEF DriverInv
<1>4. CASE ReadGate
  <2>1. {p.cycle : p \in pending} \subseteq 1..MaxCycle
    BY DEF DriverInv, DriverTypeOK, Pending
  <2>2. DriverTypeOK'
    BY <1>4, <2>1 DEF ReadGate, DriverInv, DriverTypeOK, Stages
  <2>3. Clocks'
    BY <1>4 DEF ReadGate, DriverInv, Clocks, Stages
  <2>4. Starting' /\ Swept' /\ NoneOverdue'
    BY <1>4 DEF ReadGate, Starting, Swept, NoneOverdue
  <2> QED
    BY <1>2, <2>2, <2>3, <2>4 DEF DriverInv
<1> QED
  BY <1>3, <1>4

(* A pending download is left to wait: it is not due at a clock that the iteration's   *)
(* time has not passed.                                                        *)
LEMMA NotYetInv ==
  ASSUME DriverInv, NEW p \in pending, NotYet(p)
  PROVE  DriverInv'
<1> USE DEF vars, tracker, loop, cycles
<1>1. /\ stage = "downloads" /\ clock < p.due /\ todo' = todo \ {p.cycle} /\ p \in Waiting
      /\ UNCHANGED <<vars, loop, pending, current, cycles, settled>>
      /\ clock \in Nat /\ now \in Nat /\ now <= clock /\ p.due \in Nat
  BY DEF NotYet, Turn, Due, DriverInv, DriverTypeOK, Pending, Clocks
<1>2. OnePerCycle' /\ SyncIsSettled' /\ Spaced' /\ Gentle'
  BY <1>1, Frame
<1>3. DriverTypeOK' /\ Clocks'
  BY <1>1 DEF DriverInv, DriverTypeOK, Clocks
<1>4. Starting' /\ NoneOverdue'
  BY <1>1 DEF Starting, NoneOverdue
<1>5. Swept'
  <2> SUFFICES ASSUME NEW q \in pending, q.cycle \notin todo \ {p.cycle}
               PROVE  q.due > now
    BY <1>1 DEF Swept
  <2>1. CASE q.cycle \notin todo
    BY <1>1, <2>1 DEF DriverInv, Swept
  <2>2. CASE q.cycle = p.cycle
    <3>1. q = p
      BY <2>2 DEF DriverInv, OnePerCycle
    <3> QED
      BY <1>1, <3>1
  <2> QED
    BY <2>1, <2>2
<1> QED
  BY <1>2, <1>3, <1>4, <1>5 DEF DriverInv

(* A download is postponed: its new time lies ahead.                                   *)
LEMMA PostponeInv ==
  ASSUME DriverInv, NEW p \in pending, Postpone(p)
  PROVE  DriverInv'
<1> DEFINE first == [p EXCEPT !.due = clock + Postponement]
           late == [first EXCEPT !.delayed = TRUE]
<1> USE DEF vars, tracker, loop, cycles
<1>1. /\ stage = "downloads" /\ todo' = todo \ {p.cycle} /\ pending' = (pending \ {p}) \cup {late}
      /\ UNCHANGED <<vars, loop, current, cycles, settled>>
  BY DEF Postpone, Turn
<1>2. clock \in Nat /\ now \in Nat /\ now <= clock /\ Postponement \in Nat /\ Postponement > 0
  BY DEF DriverInv, DriverTypeOK, Clocks
<1>3. p \in Pending /\ late \in Pending /\ late.cycle = p.cycle /\ late.due = clock + Postponement
  <2>1. p \in Pending
    BY DEF DriverInv, DriverTypeOK
  <2>2. first \in Pending /\ first.cycle = p.cycle /\ first.due = clock + Postponement
    BY <1>2, <2>1 DEF Pending
  <2> HIDE DEF first
  <2> QED
    BY <2>1, <2>2 DEF Pending
<1> HIDE DEF late
<1>4. DriverTypeOK' /\ Clocks'
  BY <1>1, <1>3 DEF DriverInv, DriverTypeOK, Clocks
<1>5. Starting' /\ NoneOverdue'
  BY <1>1 DEF Starting, NoneOverdue
<1>6. OnePerCycle'
  BY <1>1, <1>3 DEF DriverInv, OnePerCycle, Numbered
<1>7. SyncIsSettled' /\ Spaced' /\ Gentle'
  BY <1>1 DEF DriverInv, SyncIsSettled, Spaced, Gentle
<1>8. Swept'
  <2> SUFFICES ASSUME NEW q \in pending', q.cycle \notin todo \ {p.cycle}
               PROVE  q.due > now
    BY <1>1 DEF Swept
  <2>1. CASE q = late
    BY <1>2, <1>3, <2>1
  <2>2. CASE q \in pending /\ q # p
    <3>1. q.cycle # p.cycle
      BY <2>2 DEF DriverInv, OnePerCycle
    <3> QED
      BY <1>1, <2>2, <3>1 DEF DriverInv, Swept
  <2> QED
    BY <1>1, <2>1, <2>2
<1> QED
  BY <1>4, <1>5, <1>6, <1>7, <1>8 DEF DriverInv

(* The driver starts a download.                                                       *)
LEMMA StartDownloadInv ==
  ASSUME DriverInv, NEW p \in pending, StartDownload(p)
  PROVE  DriverInv'
<1> USE DEF vars, tracker, cycles
<1>1. /\ stage = "downloads" /\ p \in Waiting /\ gate /\ current' = p /\ stage' = "rust"
      /\ UNCHANGED <<vars, clock, gate, pending, todo, cycles, settled>>
      /\ clock \in Nat
  BY DEF StartDownload, Turn, DriverInv, DriverTypeOK
<1>2. OnePerCycle' /\ SyncIsSettled' /\ Spaced' /\ Gentle'
  BY <1>1, Frame
<1>3. DriverTypeOK' /\ Clocks'
  BY <1>1 DEF DriverInv, DriverTypeOK, Clocks, Stages
<1>4. Starting' /\ NoneOverdue' /\ Swept'
  BY <1>1 DEF DriverInv, Starting, NoneOverdue, Swept, Waiting
<1> QED
  BY <1>2, <1>3, <1>4 DEF DriverInv

(* A download is settled: its cycle is neither pending nor to be visited any more.       *)
LEMMA SettleKeeps ==
  ASSUME DriverInv, stage \in {"rust", "mfc", "record"}, NEW ok \in BOOLEAN,
         SettleDownload(current, ok), stage' = "downloads", current' = NoDownload,
         UNCHANGED <<now, clock, gate, cycles>>
  PROVE  DriverTypeOK' /\ Starting' /\ OnePerCycle' /\ Swept' /\ NoneOverdue' /\ Spaced' /\ Gentle'
<1> DEFINE new == [cycle |-> current.cycle, hash |-> current.hash, ok |-> ok,
                   excused |-> current.delayed \/ current.blind]
<1>1. /\ pending' = pending \ {current} /\ todo' = todo \ {current.cycle}
      /\ settled' = settled \cup {new}
  BY DEF SettleDownload
<1>2. current \in pending /\ current \in Pending
  BY DEF DriverInv, Starting, DriverTypeOK
<1>3. /\ new \in [cycle : 1..MaxCycle, hash : Offered, ok : BOOLEAN, excused : BOOLEAN]
      /\ new.cycle = current.cycle
  BY <1>2 DEF Pending
<1> HIDE DEF new
<1>4. DriverTypeOK'
  BY <1>1, <1>3 DEF DriverInv, DriverTypeOK, Stages, cycles
<1>5. Starting' /\ NoneOverdue'
  BY DEF Starting, NoneOverdue
<1>6. \A q \in pending' : q \in pending /\ q.cycle # current.cycle
  BY <1>1, <1>2 DEF DriverInv, OnePerCycle
<1>7. OnePerCycle'
  <2>1. \A q \in pending' : Numbered(q.cycle)'
    BY <1>6 DEF DriverInv, OnePerCycle, Numbered, cycles
  <2>2. \A d \in settled' : Numbered(d.cycle)'
    BY <1>1, <1>2, <1>3 DEF DriverInv, OnePerCycle, Numbered, cycles
  <2>3. \A d, e \in settled' : d.cycle = e.cycle => d = e
    BY <1>1, <1>2, <1>3 DEF DriverInv, OnePerCycle
  <2>4. \A q \in pending', d \in settled' : q.cycle # d.cycle
    BY <1>1, <1>3, <1>6 DEF DriverInv, OnePerCycle
  <2> QED
    BY <1>6, <2>1, <2>2, <2>3, <2>4 DEF DriverInv, OnePerCycle
<1>8. Swept'
  BY <1>1, <1>6 DEF DriverInv, Swept
<1>9. Spaced' /\ Gentle'
  BY DEF DriverInv, Spaced, Gentle, cycles
<1> QED
  BY <1>4, <1>5, <1>7, <1>8, <1>9

(* A client answers, refuses, or its answer is lost.                                     *)
LEMMA TriggerInv ==
  ASSUME DriverInv, NEW client \in Client, NEW next \in {"mfc", "record"}, NEW outcome,
         TriggerOn(client, next, outcome)
  PROVE  DriverInv'
<1>1. /\ stage = client /\ stage \in {"rust", "mfc"}
      /\ UNCHANGED <<phase, now, lastTick, tracker, baseline, clock, gate, cycles>>
  BY DEF TriggerOn, Client
<1>2. CASE outcome = "accepted"
  <2>1. stage' = next /\ UNCHANGED <<schedule, settled>> /\ clock \in Nat
    BY <1>2 DEF TriggerOn, DriverInv, DriverTypeOK
  <2>2. OnePerCycle' /\ SyncIsSettled' /\ Spaced' /\ Gentle'
    BY <1>1, <2>1, Frame DEF tracker, schedule
  <2>3. DriverTypeOK'
    BY <1>1, <2>1 DEF DriverInv, DriverTypeOK, Stages, schedule, cycles
  <2>4. Clocks'
    BY <1>1, <2>1 DEF DriverInv, Clocks, Stages
  <2>5. Starting' /\ Swept' /\ NoneOverdue'
    BY <1>1, <2>1 DEF DriverInv, Starting, Swept, NoneOverdue, schedule
  <2> QED
    BY <2>2, <2>3, <2>4, <2>5 DEF DriverInv
<1>3. CASE outcome # "accepted"
  <2>1. SettleDownload(current, FALSE) /\ stage' = "downloads" /\ current' = NoDownload
    BY <1>3 DEF TriggerOn
  <2>2. DriverTypeOK' /\ Starting' /\ OnePerCycle' /\ Swept' /\ NoneOverdue' /\ Spaced' /\ Gentle'
    BY <1>1, <2>1, SettleKeeps
  <2>3. SyncIsSettled'
    BY <1>1, <2>1 DEF DriverInv, SyncIsSettled, SettleDownload, tracker
  <2>4. Clocks'
    BY <1>1, <2>1 DEF DriverInv, Clocks, Stages
  <2> QED
    BY <2>2, <2>3, <2>4 DEF DriverInv
<1> QED
  BY <1>2, <1>3

(* Both clients accepted it: its synchronized actions come from a settled download.       *)
LEMMA RecordInv ==
  ASSUME DriverInv, RecordDownload
  PROVE  DriverInv'
<1>1. /\ stage = "record" /\ Records("download", current.hash, current.cycle)
      /\ SettleDownload(current, TRUE) /\ stage' = "downloads" /\ current' = NoDownload
      /\ UNCHANGED <<listed, phase, now, lastTick, baseline, clock, gate, cycles>>
  BY DEF RecordDownload
<1>2. DriverTypeOK' /\ Starting' /\ OnePerCycle' /\ Swept' /\ NoneOverdue' /\ Spaced' /\ Gentle'
  BY <1>1, SettleKeeps
<1>3. Clocks'
  BY <1>1 DEF DriverInv, Clocks, Stages
<1>4. SyncIsSettled'
  <2> DEFINE new == [cycle |-> current.cycle, hash |-> current.hash, ok |-> TRUE,
                     excused |-> current.delayed \/ current.blind]
  <2>1. /\ observed' = observed \cup {SyncAction(c, "download", current.hash, current.cycle) : c \in Client}
        /\ settled' = settled \cup {new}
        /\ new.ok /\ new.cycle = current.cycle /\ new.hash = current.hash
    BY <1>1 DEF Records, SettleDownload
  <2> HIDE DEF new
  <2>2. \A c \in Client : /\ SyncAction(c, "download", current.hash, current.cycle).id[2] = current.cycle
                          /\ SyncAction(c, "download", current.hash, current.cycle).key = current.hash
    BY DEF SyncAction
  <2> QED
    BY <2>1, <2>2 DEF DriverInv, SyncIsSettled
<1> QED
  BY <1>2, <1>3, <1>4 DEF DriverInv

(* The pending downloads have been visited.                                              *)
LEMMA DownloadsDoneInv ==
  ASSUME DriverInv, DownloadsDone
  PROVE  DriverInv'
<1> USE DEF vars, tracker, schedule, cycles
<1>1. /\ stage = "downloads" /\ Waiting = {} /\ stage' = "auto"
      /\ UNCHANGED <<vars, clock, gate, schedule, cycles, settled>> /\ clock \in Nat
  BY DEF DownloadsDone, DriverInv, DriverTypeOK
<1>2. OnePerCycle' /\ SyncIsSettled' /\ Spaced' /\ Gentle'
  BY <1>1, Frame
<1>3. DriverTypeOK' /\ Clocks'
  BY <1>1 DEF DriverInv, DriverTypeOK, Clocks, Stages
<1>4. Starting' /\ Swept'
  BY <1>1 DEF Starting, Swept
<1>5. NoneOverdue'
  BY <1>1 DEF DriverInv, Swept, NoneOverdue, Waiting
<1> QED
  BY <1>2, <1>3, <1>4, <1>5 DEF DriverInv

(* No automatic cycle, one that is delayed, or one that has nothing to do: the next        *)
(* cycle does not come nearer.                                                     *)
LEMMA IdleCycleInv ==
  ASSUME DriverInv, NoCycle \/ DelayCycle \/ PassiveCycle
  PROVE  DriverInv'
<1>1. /\ stage = "auto" /\ stage' = "tick"
      /\ UNCHANGED <<vars, clock, gate, schedule, searches, settled>>
      /\ clock \in Nat /\ nextAuto \in Nat /\ autoCycle \in Nat
      /\ SearchInterval \in Nat /\ Postponement \in Nat
  BY DEF NoCycle, DelayCycle, PassiveCycle, DriverInv, DriverTypeOK, cycles
<1>2. /\ nextAuto' \in Nat /\ nextAuto <= nextAuto'
      /\ autoCycle' \in 0..MaxCycle /\ autoCycle <= autoCycle'
  <2>1. CASE NoCycle
    BY <2>1 DEF NoCycle, DriverInv, DriverTypeOK, cycles
  <2>2. CASE DelayCycle
    BY <1>1, <2>2 DEF DelayCycle, CycleDue, DriverInv, DriverTypeOK
  <2>3. CASE PassiveCycle
    BY <1>1, <2>3 DEF PassiveCycle, CycleDue, DriverInv, DriverTypeOK
  <2> QED
    BY <2>1, <2>2, <2>3
<1> USE DEF vars, tracker, schedule
<1>3. DriverTypeOK' /\ Clocks'
  BY <1>1, <1>2 DEF DriverInv, DriverTypeOK, Clocks, Stages
<1>4. Starting' /\ Swept' /\ NoneOverdue'
  BY <1>1 DEF DriverInv, Starting, Swept, NoneOverdue
<1>5. OnePerCycle'
  <2>1. (\A p \in pending : p.cycle \in Nat) /\ (\A d \in settled : d.cycle \in Nat)
    BY DEF DriverInv, DriverTypeOK, Pending
  <2>2. (\A p \in pending : Numbered(p.cycle)') /\ (\A d \in settled : Numbered(d.cycle)')
    BY <1>1, <1>2, <2>1 DEF DriverInv, OnePerCycle, Numbered
  <2> QED
    BY <1>1, <2>2 DEF DriverInv, OnePerCycle
<1>6. SyncIsSettled' /\ Gentle'
  BY <1>1 DEF DriverInv, SyncIsSettled, Gentle
<1>7. Spaced'
  <2>1. \A s \in searches :
          /\ s[1] \in Nat /\ s[2] \in Nat /\ Intervals(s[1], autoCycle) \in Int
          /\ Intervals(s[1], autoCycle + 1)
               = Intervals(s[1], autoCycle) + SearchInterval
          /\ Intervals(s[1], autoCycle' + 1) = Intervals(s[1], autoCycle') + SearchInterval
    <3>1. \A s \in searches : s[1] \in Nat /\ s[2] \in Nat
      BY DEF DriverInv, DriverTypeOK
    <3>2. autoCycle' \in Nat
      BY <1>2
    <3>3. ASSUME NEW s \in searches, NEW n \in Nat
          PROVE  /\ Intervals(s[1], n) \in Int
                 /\ Intervals(s[1], n + 1) = Intervals(s[1], n) + SearchInterval
      BY <1>1, <3>1 DEF Intervals
    <3> QED
      BY <1>1, <3>1, <3>2, <3>3
  <2>2. CASE PassiveCycle
    <3>1. /\ autoCycle' = autoCycle + 1 /\ nextAuto' = clock + SearchInterval /\ clock >= nextAuto
          /\ searches' = searches /\ stage = "auto"
      BY <2>2 DEF PassiveCycle, CycleDue
    <3> SUFFICES ASSUME NEW s \in searches
                 PROVE  /\ s[1] <= autoCycle'
                        /\ clock >= s[2] + Intervals(s[1], autoCycle')
                        /\ clock + SearchInterval >= s[2] + Intervals(s[1], autoCycle' + 1)
      BY <1>1, <3>1 DEF Spaced
    <3>2. s[1] <= autoCycle /\ nextAuto >= s[2] + Intervals(s[1], autoCycle + 1)
      BY <3>1 DEF DriverInv, Spaced
    <3> QED
      BY <1>1, <2>1, <3>1, <3>2
  <2>3. CASE ~PassiveCycle
    <3>1. autoCycle' = autoCycle /\ searches' = searches /\ stage = "auto"
      BY <1>1, <2>3 DEF NoCycle, DelayCycle, cycles
    <3> QED
      BY <1>1, <1>2, <2>1, <3>1 DEF DriverInv, Spaced
  <2> QED
    BY <2>2, <2>3
<1> QED
  BY <1>3, <1>4, <1>5, <1>6, <1>7 DEF DriverInv

(* A cycle begins to search: every earlier one lies an interval back.                      *)
LEMMA BeginSearchInv ==
  ASSUME DriverInv, BeginSearch
  PROVE  DriverInv'
<1>1. /\ stage = "auto" /\ stage' = "searching" /\ CycleDue /\ autoCycle' = autoCycle + 1
      /\ searches' = searches \cup {<<autoCycle + 1, clock>>}
      /\ UNCHANGED <<vars, clock, gate, schedule, nextAuto, settled>>
      /\ clock \in Nat /\ nextAuto \in Nat /\ autoCycle \in Nat /\ autoCycle' \in 1..MaxCycle
      /\ SearchInterval \in Nat
  BY DEF BeginSearch, CycleDue, DriverInv, DriverTypeOK
<1> USE DEF vars, tracker, schedule
<1>2. DriverTypeOK'
  BY <1>1 DEF DriverInv, DriverTypeOK, Stages
<1>3. Clocks'
  BY <1>1 DEF DriverInv, Clocks, Stages
<1>4. Starting' /\ Swept' /\ NoneOverdue'
  BY <1>1 DEF DriverInv, Starting, Swept, NoneOverdue
<1>5. OnePerCycle'
  <2>1. (\A p \in pending : p.cycle \in Nat) /\ (\A d \in settled : d.cycle \in Nat)
    BY DEF DriverInv, DriverTypeOK, Pending
  <2>2. (\A p \in pending : Numbered(p.cycle)') /\ (\A d \in settled : Numbered(d.cycle)')
    BY <1>1, <2>1 DEF DriverInv, OnePerCycle, Numbered
  <2> QED
    BY <1>1, <2>2 DEF DriverInv, OnePerCycle
<1>6. SyncIsSettled'
  BY <1>1 DEF DriverInv, SyncIsSettled
<1>7. \A s \in searches : /\ s[1] \in Nat /\ s[2] \in Nat /\ s[1] <= autoCycle
                          /\ clock >= s[2] + Intervals(s[1], autoCycle + 1)
  <2> SUFFICES ASSUME NEW s \in searches
               PROVE  /\ s[1] \in Nat /\ s[2] \in Nat /\ s[1] <= autoCycle
                      /\ clock >= s[2] + Intervals(s[1], autoCycle + 1)
    OBVIOUS
  <2>1. s[1] \in Nat /\ s[2] \in Nat
    BY DEF DriverInv, DriverTypeOK
  <2>2. Intervals(s[1], autoCycle + 1) \in Int
    BY <1>1, <2>1 DEF Intervals
  <2>3. s[1] <= autoCycle /\ nextAuto >= s[2] + Intervals(s[1], autoCycle + 1)
    BY <1>1 DEF DriverInv, Spaced
  <2>4. clock >= nextAuto
    BY <1>1 DEF CycleDue
  <2> QED
    BY <1>1, <2>1, <2>2, <2>3, <2>4
<1>8. Spaced'
  <2> SUFFICES ASSUME NEW s \in searches'
               PROVE  /\ s[1] <= autoCycle'
                      /\ clock' >= s[2] + Intervals(s[1], autoCycle')
    BY <1>1 DEF Spaced
  <2>1. CASE s \in searches
    BY <1>1, <1>7, <2>1
  <2>2. CASE s = <<autoCycle + 1, clock>>
    <3>1. Intervals(s[1], autoCycle') = 0
      BY <1>1, <2>2 DEF Intervals
    <3> QED
      BY <1>1, <2>2, <3>1
  <2> QED
    BY <1>1, <2>1, <2>2
<1>9. Gentle'
  <2> SUFFICES ASSUME NEW s1 \in searches', NEW s2 \in searches', s1[1] < s2[1]
               PROVE  s2[2] >= s1[2] + Intervals(s1[1], s2[1])
    BY DEF Gentle
  <2>1. CASE s1 \in searches /\ s2 \in searches
    BY <2>1 DEF DriverInv, Gentle
  <2>2. CASE s1 \in searches /\ s2 = <<autoCycle + 1, clock>>
    <3>1. s2[1] = autoCycle + 1 /\ s2[2] = clock
      BY <2>2
    <3>2. clock >= s1[2] + Intervals(s1[1], autoCycle + 1)
      BY <1>7, <2>2
    <3> QED
      BY <3>1, <3>2
  <2>3. CASE s1 = <<autoCycle + 1, clock>>
    <3>1. s2[1] <= autoCycle + 1 /\ s2[1] \in Nat
      BY <1>1, <1>7
    <3> QED
      BY <1>1, <2>3, <3>1
  <2> QED
    BY <1>1, <2>1, <2>2, <2>3
<1> QED
  BY <1>2, <1>3, <1>4, <1>5, <1>6, <1>8, <1>9 DEF DriverInv

(* A cycle ends, with or without a download for later; the next is an interval away.       *)
LEMMA EndSearchInv ==
  ASSUME DriverInv, NEW hash, NEW deaf, EndSearch(hash, deaf)
  PROVE  DriverInv'
<1> DEFINE new == [cycle |-> autoCycle, hash |-> hash, due |-> clock + DownloadDelay,
                   delayed |-> FALSE, blind |-> deaf # {}]
<1>1. /\ stage = "searching" /\ stage' = "tick" /\ nextAuto' = clock + SearchInterval
      /\ UNCHANGED <<vars, clock, gate, todo, current, autoCycle, searches, settled>>
      /\ \/ pending' = pending
         \/ pending' = pending \cup {new} /\ hash \in Offered /\ DownloadCycle(autoCycle)
      /\ clock \in Nat /\ autoCycle \in 0..MaxCycle /\ now \in Nat /\ now <= clock
      /\ SearchInterval \in Nat /\ DownloadDelay \in Nat /\ DownloadDelay > 0
  BY DEF EndSearch, FromNow, Eligible, DriverInv, DriverTypeOK, Clocks
<1>2. autoCycle \in 1..MaxCycle /\ SearchInterval > 0
  BY <1>1 DEF DriverInv, OnePerCycle
<1>3. pending' = pending \/ (/\ pending' = pending \cup {new}
                             /\ new \in Pending /\ new.cycle = autoCycle /\ new.due > now)
  BY <1>1, <1>2 DEF Pending
<1> HIDE DEF new
<1> USE DEF vars, tracker
<1>4. DriverTypeOK'
  <2>1. pending' \subseteq Pending
    BY <1>3 DEF DriverInv, DriverTypeOK
  <2> QED
    BY <1>1, <2>1 DEF DriverInv, DriverTypeOK, Stages
<1>5. Clocks'
  BY <1>1 DEF DriverInv, Clocks, Stages
<1>6. Starting' /\ Swept'
  BY <1>1 DEF Starting, Swept
<1>7. NoneOverdue'
  BY <1>1, <1>3 DEF DriverInv, NoneOverdue
<1>8. OnePerCycle'
  <2>1. /\ \A p \in pending : p.cycle \in Nat /\ p.cycle < autoCycle
        /\ \A d \in settled : d.cycle \in Nat /\ d.cycle < autoCycle
    BY <1>1 DEF DriverInv, DriverTypeOK, Pending, OnePerCycle, Numbered
  <2>2. (\A p \in pending' : Numbered(p.cycle)') /\ (\A d \in settled' : Numbered(d.cycle)')
    BY <1>1, <1>2, <1>3, <2>1 DEF Numbered
  <2>3. \A p \in pending', d \in settled : p.cycle # d.cycle
    BY <1>3, <2>1 DEF DriverInv, OnePerCycle
  <2>4. \A p, q \in pending' : p.cycle = q.cycle => p = q
    BY <1>3, <2>1 DEF DriverInv, OnePerCycle
  <2> QED
    BY <1>1, <2>2, <2>3, <2>4 DEF DriverInv, OnePerCycle
<1>9. SyncIsSettled' /\ Gentle'
  BY <1>1 DEF DriverInv, SyncIsSettled, Gentle
<1>10. Spaced'
  <2> SUFFICES ASSUME NEW s \in searches
               PROVE  /\ s[1] <= autoCycle /\ clock >= s[2] + Intervals(s[1], autoCycle)
                      /\ nextAuto' >= s[2] + Intervals(s[1], autoCycle + 1)
    BY <1>1 DEF Spaced
  <2>1. s[1] \in Nat /\ s[2] \in Nat
    BY DEF DriverInv, DriverTypeOK
  <2>2. s[1] <= autoCycle /\ clock >= s[2] + Intervals(s[1], autoCycle)
    BY DEF DriverInv, Spaced
  <2>3. /\ Intervals(s[1], autoCycle) \in Int
        /\ Intervals(s[1], autoCycle + 1)
             = Intervals(s[1], autoCycle) + SearchInterval
    BY <1>1, <2>1 DEF Intervals
  <2> QED
    BY <1>1, <2>1, <2>2, <2>3
<1> QED
  BY <1>4, <1>5, <1>6, <1>7, <1>8, <1>9, <1>10 DEF DriverInv

(* The tick, if the gate is open: what it observes comes from rows.                         *)
LEMMA ObserveInv ==
  ASSUME DriverInv, NEW ok, Observe(ok)
  PROVE  DriverInv'
<1>1. /\ stage = "tick" /\ stage' = "sleep" /\ clock \in Nat
      /\ UNCHANGED <<listed, phase, now, baseline, clock, gate, schedule, cycles, settled>>
      /\ lastTick' \in {lastTick, now}
  BY DEF Observe, Ticks, tracker, DriverInv, DriverTypeOK
<1>2. SyncIsSettled'
  <2>1. \A a \in observed' \ observed : a.id \notin SyncIds
    <3>1. CASE gate
      <4>1. PICK place : observed' = Ingested(ok, place)
        BY <3>1 DEF Observe, Ticks
      <4>2. \A a \in observed' \ observed : \E row \in NewRows(ok) : a.id = <<"row", row.id>>
        BY <4>1 DEF Ingested, RowAction
      <4>3. \A n : <<"row", n>> \notin SyncIds
        BY DEF SyncIds, Client
      <4> QED
        BY <4>2, <4>3
    <3>2. CASE ~gate
      BY <3>2 DEF Observe, tracker
    <3> QED
      BY <3>1, <3>2
  <2> QED
    BY <1>1, <2>1 DEF DriverInv, SyncIsSettled
<1>3. DriverTypeOK'
  BY <1>1 DEF DriverInv, DriverTypeOK, Stages, schedule, cycles
<1>4. Clocks'
  BY <1>1 DEF DriverInv, Clocks, Stages
<1>5. Starting' /\ Swept' /\ NoneOverdue'
  BY <1>1 DEF DriverInv, Starting, Swept, NoneOverdue, schedule
<1>6. OnePerCycle'
  BY <1>1 DEF DriverInv, OnePerCycle, Numbered, schedule, cycles
<1>7. Spaced' /\ Gentle'
  BY <1>1 DEF DriverInv, Spaced, Gentle, cycles
<1> QED
  BY <1>2, <1>3, <1>4, <1>5, <1>6, <1>7 DEF DriverInv

(* The loop sleeps, ends, or stands by while rows come and go.                               *)
LEMMA RestInv ==
  ASSUME DriverInv, Sleep \/ WindDown \/ (Environment /\ UNCHANGED driverVars) \/ UNCHANGED allVars
  PROVE  DriverInv'
<1>1. /\ UNCHANGED <<phase, now, lastTick, tracker, gate, schedule, cycles, settled>>
      /\ clock \in Nat /\ clock' \in Nat /\ clock <= clock'
      /\ \/ stage = "sleep" /\ stage' \in {"top", "ended"}
         \/ stage' = stage /\ clock' = clock
  BY DEF Sleep, WindDown, Environment, Appear, Vanish, driverVars, allVars, vars, loop,
         DriverInv, DriverTypeOK
<1>2. OnePerCycle' /\ SyncIsSettled' /\ Spaced' /\ Gentle'
  BY <1>1, Frame DEF tracker, schedule
<1>3. DriverTypeOK'
  BY <1>1 DEF DriverInv, DriverTypeOK, Stages, schedule, cycles
<1>4. Clocks'
  BY <1>1 DEF DriverInv, Clocks, Stages, cycles
<1>5. Starting' /\ Swept' /\ NoneOverdue'
  BY <1>1 DEF DriverInv, Starting, Swept, NoneOverdue, schedule
<1> QED
  BY <1>2, <1>3, <1>4, <1>5 DEF DriverInv

LEMMA DriverStep == DriverInv /\ [DriverNext]_allVars => DriverInv'
<1> SUFFICES ASSUME DriverInv, [DriverNext]_allVars PROVE DriverInv'
  OBVIOUS
<1>1. ASSUME NEW outcome \in Outcomes, TriggerRust(outcome) \/ TriggerMfc(outcome)
      PROVE  DriverInv'
  BY <1>1, TriggerInv DEF TriggerRust, TriggerMfc, Client
<1> QED
  BY <1>1, StartInv, TimeInv, BeginInv, NotYetInv, PostponeInv, StartDownloadInv, RecordInv,
     DownloadsDoneInv, IdleCycleInv, BeginSearchInv, EndSearchInv, ObserveInv, RestInv DEF DriverNext

LEMMA DriverInductive == DriverSpec => []DriverInv
BY DriverInitInv, DriverStep, PTL DEF DriverSpec

----------------------------------------------------------------------------
(* The loop's variables keep their types: in particular a configured number of cycles is     *)
(* never exceeded.                                                                   *)
THEOREM DriverTypeCorrect == DriverSpec => []DriverTypeOK
<1>1. DriverInv => DriverTypeOK
  BY DEF DriverInv
<1> QED
  BY <1>1, DriverInductive, PTL

(* No pending download is passed over when its time has come.                                *)
THEOREM NothingOverdue == DriverSpec => []NoneOverdue
<1>1. DriverInv => NoneOverdue
  BY DEF DriverInv
<1> QED
  BY <1>1, DriverInductive, PTL

(* Two cycles that search are the search interval apart, whatever outages and slow calls      *)
(* come between them.                                                                 *)
THEOREM SearchesAreGentle == DriverSpec => []Gentle
<1>1. DriverInv => Gentle
  BY DEF DriverInv
<1> QED
  BY <1>1, DriverInductive, PTL

----------------------------------------------------------------------------
(* A client that carries out a request lists one more transfer, or one it listed already.     *)
LEMMA TriggerRefines ==
  ASSUME NEW client, NEW hash, NEW outcome, Trigger(client, hash, outcome),
         UNCHANGED <<phase, now, lastTick, tracker, baseline>>, listed \subseteq Rows
  PROVE  Next \/ UNCHANGED vars
<1>1. CASE outcome = "refused" \/ Transfer(client, hash) \subseteq listed
  <2>1. listed' = listed
    BY <1>1 DEF Trigger
  <2> QED
    BY <2>1 DEF vars
<1>2. CASE outcome # "refused" /\ ~(Transfer(client, hash) \subseteq listed)
  <2>1. PICK row \in Transfer(client, hash) : row \notin listed
    BY <1>2
  <2>2. row \in Rows /\ Transfer(client, hash) = {row}
    BY TransfersAssumption DEF Transfer, SurfaceOf
  <2>3. \A other \in ListedOn(SurfaceOf(row)) : other.id # row.id
    BY <2>1, TransfersAssumption DEF ListedOn, Transfer
  <2>4. Appear(row)
    BY <1>2, <2>1, <2>2, <2>3 DEF Trigger, Appear
  <2> QED
    BY <2>2, <2>4 DEF Next
<1> QED
  BY <1>1, <1>2

(* A cycle's synchronized actions are new.                                                      *)
LEMMA CycleIsFresh ==
  ASSUME DriverInv, stage = "record"
  PROVE  \A a \in observed, c \in Client : a.id # <<c, current.cycle>>
<1> SUFFICES ASSUME NEW a \in observed, NEW c \in Client, a.id = <<c, current.cycle>>
             PROVE  FALSE
  OBVIOUS
<1>1. current \in pending /\ current.cycle \in 1..MaxCycle
  BY DEF DriverInv, Starting, DriverTypeOK, Pending
<1>2. a.id \in SyncIds /\ a.id[2] = current.cycle
  BY <1>1 DEF SyncIds
<1>3. PICK d \in settled : d.cycle = current.cycle
  BY <1>2 DEF DriverInv, SyncIsSettled
<1> QED
  BY <1>1, <1>3 DEF DriverInv, OnePerCycle

(* What the clients list are rows.                                                              *)
ListsRows == listed \subseteq Rows

LEMMA ListsRowsOnly == DriverSpec => []ListsRows
<1>1. DriverInit => ListsRows
  BY BoundsAssumption DEF DriverInit, Init, ListsRows
<1>2. ListsRows /\ [DriverNext]_allVars => ListsRows'
  <2> SUFFICES ASSUME ListsRows, [DriverNext]_allVars PROVE listed' \subseteq Rows
    BY DEF ListsRows
  <2>1. ASSUME NEW outcome \in Outcomes, TriggerRust(outcome) \/ TriggerMfc(outcome)
        PROVE  listed' \subseteq Rows
    BY <2>1 DEF TriggerRust, TriggerMfc, TriggerOn, Trigger, Transfer, ListsRows
  <2>2. CASE Environment
    BY <2>2, DriverAssumption DEF Environment, Appear, Vanish, ListsRows
  <2>3. ASSUME NEW ok, StartLoop(ok) \/ Observe(ok) PROVE UNCHANGED listed
    BY <2>3 DEF StartLoop, Prime, Observe
  <2>4. ASSUME NEW p \in pending, NotYet(p) \/ Postpone(p) \/ StartDownload(p) PROVE UNCHANGED listed
    BY <2>4 DEF NotYet, Postpone, StartDownload, vars
  <2>5. ASSUME NEW hash, NEW deaf, EndSearch(hash, deaf) PROVE UNCHANGED listed
    BY <2>5 DEF EndSearch, vars
  <2>6. ASSUME TimePasses \/ BeginIteration \/ ReadGate \/ RecordDownload \/ DownloadsDone
               \/ NoCycle \/ DelayCycle \/ PassiveCycle \/ BeginSearch \/ Sleep \/ WindDown
               \/ UNCHANGED allVars
        PROVE  UNCHANGED listed
    BY <2>6 DEF TimePasses, BeginIteration, Iterate, ReadGate, RecordDownload, DownloadsDone, NoCycle,
                DelayCycle, PassiveCycle, BeginSearch, Sleep, WindDown, allVars, vars
  <2> QED
    BY <2>1, <2>2, <2>3, <2>4, <2>5, <2>6 DEF DriverNext, ListsRows
<1> QED
  BY <1>1, <1>2, PTL DEF DriverSpec

(* Each step of the loop is one of the tracker's protocol, or none.                           *)
LEMMA DriverRefines == DriverInv /\ ListsRows /\ [DriverNext]_allVars => [Next]_vars
<1> SUFFICES ASSUME DriverInv, ListsRows, [DriverNext]_allVars PROVE Next \/ UNCHANGED vars
  OBVIOUS
<1>1. ASSUME NEW down \in SUBSET Flaky, StartLoop(Surface \ down) PROVE Next
  BY <1>1 DEF StartLoop, Next
<1>2. CASE BeginIteration
  <2>1. Iterate(clock)
    BY <1>2 DEF BeginIteration
  <2>2. clock \in 1..MaxTime
    BY <2>1 DEF Iterate, DriverInv, DriverTypeOK, Clocks
  <2> QED
    BY <2>1, <2>2 DEF Next
<1>3. ASSUME NEW outcome \in Outcomes, TriggerRust(outcome) \/ TriggerMfc(outcome)
      PROVE  Next \/ UNCHANGED vars
  BY <1>3, TriggerRefines DEF TriggerRust, TriggerMfc, TriggerOn, ListsRows
<1>4. CASE RecordDownload
  <2>1. current \in pending /\ current.hash \in Keys /\ current.cycle \in 1..MaxCycle
    BY <1>4 DEF RecordDownload, DriverInv, Starting, DriverTypeOK, Pending
  <2>2. \A a \in observed, c \in Client : a.id # <<c, current.cycle>>
    BY <1>4, CycleIsFresh DEF RecordDownload
  <2>3. RecordSynchronized("download", current.hash, current.cycle)
    BY <1>4, <2>2 DEF RecordDownload, RecordSynchronized, DriverInv, Clocks, Stages
  <2> QED
    BY <2>1, <2>3 DEF Next
<1>5. ASSUME NEW down \in SUBSET Flaky, Observe(Surface \ down) PROVE Next \/ UNCHANGED vars
  <2>1. CASE gate
    <3>1. Tick(Surface \ down)
      BY <1>5, <2>1 DEF Observe, Tick, DriverInv, Clocks, Stages
    <3> QED
      BY <3>1 DEF Next
  <2>2. CASE ~gate
    BY <1>5, <2>2 DEF Observe, vars
  <2> QED
    BY <2>1, <2>2
<1>6. CASE Environment
  BY <1>6, DriverAssumption DEF Environment, Next
<1>7. CASE TimePasses \/ ReadGate \/ DownloadsDone \/ NoCycle \/ DelayCycle \/ PassiveCycle
           \/ BeginSearch \/ Sleep \/ WindDown \/ UNCHANGED allVars
  BY <1>7 DEF TimePasses, ReadGate, DownloadsDone, NoCycle, DelayCycle, PassiveCycle, BeginSearch,
              Sleep, WindDown, allVars
<1>8. ASSUME NEW p \in pending, NotYet(p) \/ Postpone(p) \/ StartDownload(p) PROVE UNCHANGED vars
  BY <1>8 DEF NotYet, Postpone, StartDownload
<1>9. ASSUME NEW hash, NEW deaf, EndSearch(hash, deaf) PROVE UNCHANGED vars
  BY <1>9 DEF EndSearch
<1> QED
  BY <1>1, <1>2, <1>3, <1>4, <1>5, <1>6, <1>7, <1>8, <1>9 DEF DriverNext

(* The loop implements the tracker's specification: it ticks at most once in an iteration,     *)
(* records a synchronized download before that tick, and each cycle's once.              *)
THEOREM DriverKeepsProtocol == DriverSpec => KeepsTrackerProtocol
<1>1. DriverInit => Init
  BY DEF DriverInit
<1> QED
  BY <1>1, DriverInductive, ListsRowsOnly, DriverRefines, PTL DEF DriverSpec, Spec, KeepsTrackerProtocol

(* So the tracker's promises hold in the loop: each action is reported at most once, nothing   *)
(* waits for longer than it should, no echo of the driver's downloads is observed, and    *)
(* what the soak found stays out of it.                                                 *)
COROLLARY TrackerInDriver ==
  DriverSpec => [](ReportedAtMostOnce /\ PendingIsBounded /\ EchoSuppressed /\ PolledBaselineSilent)
BY DriverKeepsProtocol, AtMostOnce, BoundedWait, NoEcho, BaselineRespected, PTL
   DEF KeepsTrackerProtocol

----------------------------------------------------------------------------
(* When a delayed download cannot overtake the next cycle, transfers stay listed, and both      *)
(* clients list what they start, a download is chosen again only because of an outage.     *)
ChosenOnce ==
  /\ ~FixedHash /\ Removable = {} /\ DownloadDelay <= SearchInterval
  /\ \A hash \in Offered, client \in Client : Transfer(client, hash) # {}

(* A download that no outage delayed is the newest, and is due before the next cycle; a         *)
(* cycle that searches finds none of them waiting.                                      *)
Lone == \A p, q \in pending : ~p.delayed /\ q # p => q.cycle < p.cycle
Sooner == stage # "searching" => \A p \in pending : ~p.delayed => p.due <= nextAuto
AllDelayed == stage = "searching" => \A p \in pending : p.delayed

(* The pending downloads are visited in their order, and when an undelayed one has been,         *)
(* no other follows, so that no time passes before the cycle is considered.               *)
InOrder ==
  stage \in {"downloads", "rust", "mfc", "record"} =>
    \A p, q \in pending : q.cycle \in todo /\ p.cycle \notin todo => p.cycle < q.cycle
NotDue ==
  /\ stage = "downloads" => \A p \in pending : ~p.delayed /\ p.cycle \notin todo => clock < p.due
  /\ stage \in {"rust", "mfc", "record"} => \A p \in pending : ~p.delayed => p.cycle \in todo
  /\ stage = "auto" => \A p \in pending : ~p.delayed => clock < p.due

(* What both clients accepted, they list.                                                       *)
AcceptedListed ==
  /\ \A d \in settled, client \in Client : d.ok => Transfer(client, d.hash) \subseteq listed
  /\ stage \in {"mfc", "record"} => Transfer("rust", current.hash) \subseteq listed
  /\ stage = "record" => Transfer("mfc", current.hash) \subseteq listed

(* A download that was chosen again was chosen blindly, or the first had been delayed.            *)
ChosenAgain ==
  \A p \in pending, d \in settled :
    d.hash = p.hash /\ d.ok /\ ~d.excused => p.blind \/ p.delayed

Schedule == Lone /\ Sooner /\ AllDelayed /\ InOrder /\ NotDue /\ (stage = "startup" => pending = {})
Choices == AcceptedListed /\ ChosenAgain /\ RepeatsComeFromOutages

LEMMA ScheduleInit == DriverInit => Schedule /\ Choices
BY DEF DriverInit, Schedule, Choices, Lone, Sooner, AllDelayed, InOrder, NotDue, AcceptedListed,
       ChosenAgain, RepeatsComeFromOutages

(* The schedule of the downloads.                                                               *)
LEMMA ScheduleStep ==
  ASSUME ChosenOnce, DriverInv, Schedule, [DriverNext]_allVars
  PROVE  Schedule'
<1> USE DEF Schedule
<1>0. /\ clock \in Nat /\ nextAuto \in Nat /\ DownloadDelay \in Nat /\ SearchInterval \in Nat
      /\ Postponement \in Nat /\ DownloadDelay <= SearchInterval
      /\ \A p \in pending : p.cycle \in Nat /\ p.due \in Nat
  BY DEF DriverInv, DriverTypeOK, Pending, ChosenOnce
<1>1. ASSUME NEW ok, StartLoop(ok) PROVE Schedule'
  BY <1>1 DEF StartLoop, schedule, Lone, Sooner, AllDelayed, InOrder, NotDue
<1>2. CASE TimePasses
  <2>1. stage \in {"status", "rust", "mfc", "searching", "tick"}
        /\ UNCHANGED <<stage, schedule, cycles>>
    BY <1>2 DEF TimePasses, Calling
  <2> QED
    BY <2>1 DEF schedule, cycles, Lone, Sooner, AllDelayed, InOrder, NotDue
<1>3. CASE BeginIteration \/ ReadGate
  BY <1>3 DEF BeginIteration, ReadGate, schedule, cycles, Lone, Sooner, AllDelayed, InOrder, NotDue
<1>4. ASSUME NEW p \in pending, NotYet(p) PROVE Schedule'
  <2>1. /\ stage = "downloads" /\ clock < p.due /\ todo' = todo \ {p.cycle}
        /\ UNCHANGED <<loop, pending, cycles>>
        /\ \A q \in pending : q.cycle \in todo => p.cycle <= q.cycle
    BY <1>4 DEF NotYet, Turn, Due, Waiting, DriverInv, DriverTypeOK, Pending
  <2>2. Lone' /\ Sooner' /\ AllDelayed'
    BY <2>1 DEF loop, cycles, Lone, Sooner, AllDelayed
  <2>3. InOrder'
    BY <1>0, <2>1 DEF loop, InOrder
  <2>4. NotDue'
    BY <2>1 DEF loop, NotDue, DriverInv, OnePerCycle
  <2> QED
    BY <2>1, <2>2, <2>3, <2>4 DEF loop
<1>5. ASSUME NEW p \in pending, Postpone(p) PROVE Schedule'
  <2> DEFINE first == [p EXCEPT !.due = clock + Postponement]
             late == [first EXCEPT !.delayed = TRUE]
  <2>1. /\ stage = "downloads" /\ todo' = todo \ {p.cycle} /\ pending' = (pending \ {p}) \cup {late}
        /\ UNCHANGED <<loop, cycles>>
        /\ \A q \in pending : q.cycle \in todo => p.cycle <= q.cycle
    BY <1>5 DEF Postpone, Turn, Waiting
  <2>2. late.cycle = p.cycle /\ late.delayed = TRUE
    <3>1. p \in Pending
      BY DEF DriverInv, DriverTypeOK
    <3>2. first \in Pending /\ first.cycle = p.cycle
      BY <1>0, <3>1 DEF Pending
    <3> HIDE DEF first
    <3> QED
      BY <3>2 DEF Pending
  <2> HIDE DEF late
  <2>3. Lone' /\ Sooner' /\ AllDelayed'
    BY <2>1, <2>2 DEF loop, cycles, Lone, Sooner, AllDelayed
  <2>4. \A q \in pending : q.cycle = p.cycle => q = p
    BY DEF DriverInv, OnePerCycle
  <2>5. InOrder'
    BY <1>0, <2>1, <2>2, <2>4 DEF loop, InOrder
  <2>6. NotDue'
    BY <2>1, <2>2, <2>4 DEF loop, NotDue
  <2> QED
    BY <2>1, <2>3, <2>5, <2>6 DEF loop
<1>6. ASSUME NEW p \in pending, StartDownload(p) PROVE Schedule'
  <2>1. /\ stage = "downloads" /\ stage' = "rust" /\ p.cycle \in todo
        /\ UNCHANGED <<clock, pending, todo, cycles>>
    BY <1>6 DEF StartDownload, Turn, Waiting
  <2>2. \A q \in pending : ~q.delayed => q.cycle \in todo
    <3> SUFFICES ASSUME NEW q \in pending, ~q.delayed, q.cycle \notin todo
                 PROVE  FALSE
      OBVIOUS
    <3>1. p.cycle < q.cycle /\ q.cycle < p.cycle
      BY <2>1 DEF Lone, InOrder
    <3> QED
      BY <1>0, <3>1
  <2> QED
    BY <2>1, <2>2 DEF cycles, Lone, Sooner, AllDelayed, InOrder, NotDue
<1>7. ASSUME NEW outcome, TriggerRust(outcome) \/ TriggerMfc(outcome), UNCHANGED schedule
      PROVE  Schedule'
  BY <1>7 DEF TriggerRust, TriggerMfc, TriggerOn, SettleDownload, schedule, cycles,
              Lone, Sooner, AllDelayed, InOrder, NotDue
<1>8. ASSUME NEW ok, SettleDownload(current, ok), stage \in {"rust", "mfc", "record"},
             stage' = "downloads", UNCHANGED <<clock, cycles>>
      PROVE  Schedule'
  <2>1. /\ current \in pending /\ pending' = pending \ {current} /\ todo' = todo \ {current.cycle}
        /\ \A q \in pending : q.cycle = current.cycle => q = current
    BY <1>8 DEF SettleDownload, DriverInv, Starting, OnePerCycle
  <2>2. Lone' /\ Sooner' /\ AllDelayed'
    BY <1>8, <2>1 DEF cycles, Lone, Sooner, AllDelayed
  <2>3. InOrder'
    BY <1>8, <2>1 DEF InOrder
  <2>4. NotDue'
    BY <1>8, <2>1 DEF NotDue
  <2> QED
    BY <1>8, <2>2, <2>3, <2>4
<1>9. CASE DownloadsDone
  <2>1. \A p \in pending : p.cycle \notin todo
    BY <1>9 DEF DownloadsDone, Waiting
  <2> QED
    BY <1>9, <2>1 DEF DownloadsDone, schedule, cycles, Lone, Sooner, AllDelayed, InOrder, NotDue
<1>10. CASE NoCycle \/ DelayCycle \/ PassiveCycle
  <2>1. /\ stage = "auto" /\ stage' = "tick" /\ UNCHANGED schedule
        /\ nextAuto' \in Nat /\ nextAuto <= nextAuto'
    BY <1>0, <1>10 DEF NoCycle, DelayCycle, PassiveCycle, CycleDue, cycles
  <2> QED
    BY <1>0, <2>1 DEF schedule, Lone, Sooner, AllDelayed, InOrder, NotDue
<1>11. CASE BeginSearch
  <2>1. /\ stage = "auto" /\ stage' = "searching" /\ UNCHANGED schedule /\ clock >= nextAuto
    BY <1>11 DEF BeginSearch, CycleDue
  <2>2. \A p \in pending : p.delayed
    BY <1>0, <2>1 DEF Sooner, NotDue
  <2> QED
    BY <2>1, <2>2 DEF schedule, Lone, Sooner, AllDelayed, InOrder, NotDue
<1>12. ASSUME NEW hash, NEW deaf, EndSearch(hash, deaf) PROVE Schedule'
  <2> DEFINE new == [cycle |-> autoCycle, hash |-> hash, due |-> clock + DownloadDelay,
                     delayed |-> FALSE, blind |-> deaf # {}]
  <2>1. /\ stage = "searching" /\ stage' = "tick" /\ nextAuto' = clock + SearchInterval
        /\ pending' \subseteq pending \cup {new}
        /\ new.cycle = autoCycle /\ new.due = clock + DownloadDelay
    BY <1>12 DEF EndSearch, FromNow
  <2>2. \A p \in pending : p.delayed /\ p.cycle < autoCycle
    BY <2>1 DEF AllDelayed, DriverInv, OnePerCycle, Numbered
  <2> HIDE DEF new
  <2>3. Lone' /\ Sooner'
    BY <1>0, <2>1, <2>2 DEF Lone, Sooner
  <2> QED
    BY <2>1, <2>3 DEF AllDelayed, InOrder, NotDue
<1>13. ASSUME NEW ok, Observe(ok) PROVE Schedule'
  BY <1>13 DEF Observe, schedule, cycles, Lone, Sooner, AllDelayed, InOrder, NotDue
<1>14. CASE Sleep \/ WindDown
  BY <1>14 DEF Sleep, WindDown, schedule, cycles, Lone, Sooner, AllDelayed, InOrder, NotDue
<1>15. CASE UNCHANGED driverVars
  BY <1>15 DEF driverVars, loop, schedule, cycles, Lone, Sooner, AllDelayed, InOrder, NotDue
<1>16. ASSUME NEW outcome, TriggerRust(outcome) \/ TriggerMfc(outcome) PROVE Schedule'
  <2>1. /\ stage \in {"rust", "mfc"} /\ UNCHANGED <<clock, cycles>>
        /\ \/ UNCHANGED schedule
           \/ SettleDownload(current, FALSE) /\ stage' = "downloads"
    BY <1>16 DEF TriggerRust, TriggerMfc, TriggerOn
  <2> QED
    BY <1>7, <1>8, <1>16, <2>1
<1>17. CASE RecordDownload
  BY <1>8, <1>17 DEF RecordDownload
<1> HIDE DEF Schedule
<1> QED
  BY <1>1, <1>2, <1>3, <1>4, <1>5, <1>6, <1>9, <1>10, <1>11, <1>12, <1>13, <1>14, <1>15, <1>16, <1>17
     DEF DriverNext, allVars

(* What was chosen: transfers stay listed, so only a list that could not be read hides one.      *)
LEMMA ChoicesStep ==
  ASSUME ChosenOnce, DriverInv, Schedule, Choices, [DriverNext]_allVars
  PROVE  Choices'
<1> USE DEF Choices
<1>1. listed \subseteq listed'
  <2>1. ASSUME NEW client, NEW next, NEW outcome, TriggerOn(client, next, outcome)
        PROVE  listed \subseteq listed'
    BY <2>1 DEF TriggerOn, Trigger
  <2>2. CASE Environment
    BY <2>2 DEF Environment, Appear, ChosenOnce
  <2> QED
    BY <2>1, <2>2 DEF DriverNext, allVars, vars, StartLoop, Prime, TimePasses, BeginIteration, Iterate,
         ReadGate, NotYet, Postpone, StartDownload, TriggerRust, TriggerMfc, RecordDownload,
         DownloadsDone, NoCycle, DelayCycle, PassiveCycle, BeginSearch, EndSearch, Observe, Sleep,
         WindDown
<1>2. ASSUME UNCHANGED settled, pending' \subseteq pending,
             stage' \notin {"mfc", "record"} \/ UNCHANGED <<stage, current>>
      PROVE  Choices'
  BY <1>1, <1>2 DEF AcceptedListed, ChosenAgain, RepeatsComeFromOutages
<1>3. ASSUME NEW p \in pending, Postpone(p) PROVE Choices'
  <2> DEFINE first == [p EXCEPT !.due = clock + Postponement]
             late == [first EXCEPT !.delayed = TRUE]
  <2>1. /\ pending' = (pending \ {p}) \cup {late} /\ stage' = "downloads" /\ UNCHANGED settled
    BY <1>3 DEF Postpone, Turn, loop
  <2>2. late.delayed = TRUE
    <3>1. p \in Pending /\ clock + Postponement \in Nat
      BY DEF DriverInv, DriverTypeOK
    <3>2. first \in Pending
      BY <3>1 DEF Pending
    <3> HIDE DEF first
    <3> QED
      BY <3>2 DEF Pending
  <2> HIDE DEF late
  <2> QED
    BY <1>1, <2>1, <2>2 DEF AcceptedListed, ChosenAgain, RepeatsComeFromOutages
<1>4. ASSUME NEW client \in Client, TriggerOn(client, IF client = "rust" THEN "mfc" ELSE "record", "accepted")
      PROVE  Choices'
  <2>1. /\ stage = client /\ stage' = (IF client = "rust" THEN "mfc" ELSE "record")
        /\ UNCHANGED <<current, pending, settled>> /\ Transfer(client, current.hash) \subseteq listed'
    BY <1>4 DEF TriggerOn, Trigger, schedule
  <2> QED
    BY <1>1, <2>1 DEF AcceptedListed, ChosenAgain, RepeatsComeFromOutages, Client
<1>5. ASSUME NEW ok \in BOOLEAN, SettleDownload(current, ok), stage \in {"rust", "mfc", "record"},
             stage' = "downloads", ok => stage = "record"
      PROVE  Choices'
  <2> DEFINE new == [cycle |-> current.cycle, hash |-> current.hash, ok |-> ok,
                     excused |-> current.delayed \/ current.blind]
  <2>1. /\ current \in pending /\ pending' = pending \ {current} /\ settled' = settled \cup {new}
        /\ new.ok = ok /\ new.hash = current.hash
        /\ new.excused <=> current.delayed \/ current.blind
    BY <1>5 DEF SettleDownload, DriverInv, Starting
  <2> HIDE DEF new
  <2>2. ok => \A client \in Client : Transfer(client, current.hash) \subseteq listed
    BY <1>5 DEF AcceptedListed, Client
  <2>3. AcceptedListed'
    BY <1>1, <1>5, <2>1, <2>2 DEF AcceptedListed
  <2>4. ASSUME NEW p \in pending', ~new.excused PROVE p.delayed
    <3>1. p \in pending /\ p # current /\ ~current.delayed
      BY <2>1, <2>4
    <3>2. p.cycle \in Nat /\ current.cycle \in Nat
      BY <2>1, <3>1 DEF DriverInv, DriverTypeOK, Pending
    <3> QED
      BY <2>1, <3>1, <3>2 DEF Schedule, Lone
  <2>5. ChosenAgain'
    BY <2>1, <2>4 DEF ChosenAgain
  <2>6. RepeatsComeFromOutages'
    BY <2>1 DEF ChosenAgain, RepeatsComeFromOutages, Repeated
  <2> QED
    BY <2>3, <2>5, <2>6
<1>6. ASSUME NEW hash \in Offered \cup {NoHash}, NEW deaf \in SUBSET Flaky, EndSearch(hash, deaf)
      PROVE  Choices'
  <2> DEFINE new == [cycle |-> autoCycle, hash |-> hash, due |-> clock + DownloadDelay,
                     delayed |-> FALSE, blind |-> deaf # {}]
  <2>1. CASE UNCHANGED pending
    BY <1>2, <1>6, <2>1 DEF EndSearch
  <2>2. CASE Eligible(hash, deaf) /\ pending' = pending \cup {new}
    <3>1. new.hash = hash /\ (new.blind <=> deaf # {}) /\ hash \in Offered
      BY <2>2 DEF Eligible
    <3> HIDE DEF new
    <3>2. ASSUME NEW d \in settled, d.hash = hash, d.ok PROVE new.blind
      <4>1. Transfer("rust", hash) \subseteq listed
        BY <3>2 DEF AcceptedListed, Client
      <4>2. PICK row \in Transfer("rust", hash) : TRUE
        BY <3>1 DEF ChosenOnce, Client
      <4>3. ~Known(hash, deaf)
        BY <2>2 DEF Eligible, ChosenOnce
      <4>4. deaf # {}
        BY <4>1, <4>2, <4>3 DEF Known, Transfer
      <4> QED
        BY <3>1, <4>4
    <3>3. stage' = "tick" /\ UNCHANGED settled
      BY <1>6 DEF EndSearch
    <3> QED
      BY <1>1, <2>2, <3>1, <3>2, <3>3 DEF AcceptedListed, ChosenAgain, RepeatsComeFromOutages
  <2> QED
    BY <1>6, <2>1, <2>2 DEF EndSearch
<1>7. ASSUME NEW outcome \in Outcomes, TriggerRust(outcome) \/ TriggerMfc(outcome) PROVE Choices'
  <2>1. CASE outcome = "accepted"
    BY <1>4, <1>7, <2>1 DEF TriggerRust, TriggerMfc, Client
  <2>2. CASE outcome # "accepted"
    <3>1. stage \in {"rust", "mfc"} /\ SettleDownload(current, FALSE) /\ stage' = "downloads"
      BY <1>7, <2>2 DEF TriggerRust, TriggerMfc, TriggerOn
    <3> QED
      BY <1>5, <3>1
  <2> QED
    BY <2>1, <2>2
<1>8. CASE RecordDownload
  BY <1>5, <1>8 DEF RecordDownload
<1>9. ASSUME NEW ok, StartLoop(ok) \/ Observe(ok) PROVE Choices'
  BY <1>2, <1>9 DEF StartLoop, Observe, schedule
<1>10. CASE TimePasses \/ BeginIteration \/ ReadGate \/ DownloadsDone \/ Sleep \/ WindDown
            \/ UNCHANGED driverVars \/ UNCHANGED allVars
  BY <1>2, <1>10 DEF TimePasses, BeginIteration, ReadGate, DownloadsDone, Sleep, WindDown, driverVars,
                     allVars, loop, schedule
<1>11. CASE NoCycle \/ DelayCycle \/ PassiveCycle \/ BeginSearch
  BY <1>2, <1>11 DEF NoCycle, DelayCycle, PassiveCycle, BeginSearch, schedule
<1>12. ASSUME NEW p \in pending, NotYet(p) \/ StartDownload(p) PROVE Choices'
  BY <1>2, <1>12 DEF NotYet, StartDownload, Turn, loop
<1> HIDE DEF Choices
<1> QED
  BY <1>3, <1>6, <1>7, <1>8, <1>9, <1>10, <1>11, <1>12 DEF DriverNext

(* "Transfers a client already has are left alone": the same download is started a second time  *)
(* only when an outage had postponed one of the two, or a transfer list could not be read      *)
(* when it was chosen.  For a search interval that the download delay does not exceed, and    *)
(* transfers that nobody removes.                                                          *)
THEOREM RepeatsFromOutages ==
  ASSUME ChosenOnce
  PROVE  DriverSpec => []RepeatsComeFromOutages
<1> DEFINE Chosen == Schedule /\ Choices
<1>1. DriverInit => Chosen
  BY ScheduleInit
<1>2. DriverInv /\ Chosen /\ [DriverNext]_allVars => Chosen'
  BY ScheduleStep, ChoicesStep
<1>3. Chosen => RepeatsComeFromOutages
  BY DEF Choices
<1> HIDE DEF Chosen
<1> QED
  BY <1>1, <1>2, <1>3, DriverInductive, PTL DEF DriverSpec

----------------------------------------------------------------------------
(* Nobody else transfers what the driver's searches may offer.                                  *)
Undisturbed ==
  \A row \in OperatorRows \cup Preexisting : row.kind = "download" => row.key \notin Offered

(* An offered transfer is listed because the driver started it; it is observed as a row only     *)
(* when an earlier start failed, since both halves of a success leave their key behind.     *)
OfOffer(row) == row.kind = "download" /\ row.key \in Offered
ListedByDriver ==
  \A row \in listed : OfOffer(row) =>
    \/ \E d \in settled : d.hash = row.key
    \/ stage \in {"mfc", "record"} /\ current.hash = row.key
OkIsSynchronized == \A d \in settled : d.ok => <<"download", d.hash>> \in synchronizedKeys
FailedFirst ==
  \A a \in observed : a.id \in RowIds /\ OfOffer(a) => \E d \in settled : d.hash = a.key /\ ~d.ok

(* A synchronized action has one counterpart of its cycle, seen at the same time, and the        *)
(* two are processed together.                                                             *)
Halves ==
  \A a \in observed : a.id \in SyncIds =>
    /\ a.kind = "download" /\ a.client = a.id[1]
    /\ a.key \in Offered
    /\ \A c \in Client : \E b \in observed : b.id = <<c, a.id[2]>> /\ b.at = a.at /\ b.key = a.key
    /\ \A b \in observed : b.id = a.id => b = a
Together ==
  \A a, b \in observed :
    /\ a.id \in SyncIds /\ b.id \in SyncIds /\ a.id[2] = b.id[2] /\ a.key = b.key
    /\ StartedOnce(a.key) /\ a.id \in processed
    => b.id \in processed

(* Where nobody competes, a single start is always one pair.                                    *)
OnePair ==
  \A r \in reports : \A a \in r.members :
    a.id \in SyncIds /\ StartedOnce(a.key) => {b.id : b \in r.members} = {<<c, a.id[2]>> : c \in Client}

Origins == ListedByDriver /\ OkIsSynchronized /\ FailedFirst
Pairing == IsFiniteSet(settled) /\ Origins /\ Halves /\ Together /\ OnePair

(* A hash that was started once was started by one download.                                    *)
LEMMA OneDownload ==
  ASSUME IsFiniteSet(settled), NEW h, StartedOnce(h),
         NEW d \in settled, d.hash = h, NEW e \in settled, e.hash = h
  PROVE  d = e
<1> DEFINE D == {x \in settled : x.hash = h}
<1>1. IsFiniteSet(D) /\ Cardinality(D) = 1
  BY FS_Subset DEF StartedOnce
<1>2. PICK x : D = {x}
  BY <1>1, FS_Singleton
<1> QED
  BY <1>2

(* No step takes a second start back: whoever leaves the pending downloads is settled.          *)
LEMMA OnceBefore ==
  ASSUME IsFiniteSet(settled'), settled \subseteq settled',
         \A p \in pending : \/ \E q \in pending' : q.hash = p.hash
                           \/ \E e \in settled' \ settled : e.hash = p.hash,
         NEW h, StartedOnce(h)', NEW d \in settled, d.hash = h
  PROVE  StartedOnce(h)
<1> DEFINE D == {x \in settled' : x.hash = h}
<1>1. IsFiniteSet(D) /\ Cardinality(D) = 1
  BY FS_Subset DEF StartedOnce
<1>2. PICK y : D = {y}
  BY <1>1, FS_Singleton
<1>3. \A x \in D : x = d
  BY <1>2
<1>4. {x \in settled : x.hash = h} = D
  BY <1>3
<1>5. \A p \in pending : p.hash # h
  BY <1>3 DEF StartedOnce
<1> QED
  BY <1>1, <1>4, <1>5 DEF StartedOnce

(* So steps other than a tick keep what was promised of the actions there were.                  *)
LEMMA OldHalves ==
  ASSUME IInv, DriverInv, Pairing, IsFiniteSet(settled'), settled \subseteq settled',
         \A p \in pending : \/ \E q \in pending' : q.hash = p.hash
                           \/ \E e \in settled' \ settled : e.hash = p.hash,
         UNCHANGED <<processed, reports>>
  PROVE  /\ \A a \in observed : a.id \in SyncIds /\ StartedOnce(a.key)' => StartedOnce(a.key)
         /\ OnePair'
<1>1. ASSUME NEW a \in observed, a.id \in SyncIds, StartedOnce(a.key)' PROVE StartedOnce(a.key)
  <2>1. PICK d \in settled : d.hash = a.key
    BY <1>1 DEF DriverInv, SyncIsSettled
  <2> DEFINE h == a.key
  <2>2. StartedOnce(h)' /\ d.hash = h
    BY <1>1, <2>1
  <2> HIDE DEF h
  <2>3. StartedOnce(h)
    BY <2>2, OnceBefore
  <2> QED
    BY <2>3 DEF h
<1>2. OnePair'
  <2> SUFFICES ASSUME NEW r \in reports, NEW a \in r.members, a.id \in SyncIds, StartedOnce(a.key)'
               PROVE  {b.id : b \in r.members} = {<<c, a.id[2]>> : c \in Client}
    BY DEF OnePair
  <2>1. a \in observed
    BY DEF IInv, ReportsAreProcessed
  <2> QED
    BY <1>1, <2>1 DEF Pairing, OnePair
<1> QED
  BY <1>1, <1>2

(* Steps that neither settle a download nor list an offered transfer.                           *)
LEMMA PairingFrame ==
  ASSUME IInv, DriverInv, Pairing,
         UNCHANGED <<synchronizedKeys, observed, processed, reports, settled>>,
         \A p \in pending : \E q \in pending' : q.hash = p.hash,
         ListedByDriver'
  PROVE  Pairing'
<1>1. /\ IsFiniteSet(settled') /\ settled \subseteq settled'
      /\ \A a \in observed : a.id \in SyncIds /\ StartedOnce(a.key)' => StartedOnce(a.key)
      /\ OnePair'
  <2>1. IsFiniteSet(settled') /\ settled \subseteq settled'
    BY DEF Pairing
  <2> QED
    BY <2>1, OldHalves
<1>2. OkIsSynchronized' /\ FailedFirst' /\ Halves'
  BY DEF Pairing, Origins, OkIsSynchronized, FailedFirst, Halves
<1>3. Together'
  BY <1>1 DEF Pairing, Together
<1> QED
  BY <1>1, <1>2, <1>3 DEF Pairing, Origins

(* A download that is settled is remembered under its own cycle.                                *)
LEMMA SettledIsNew ==
  ASSUME DriverInv, Pairing, stage \in {"rust", "mfc", "record"}, NEW ok \in BOOLEAN,
         SettleDownload(current, ok)
  PROVE  /\ IsFiniteSet(settled') /\ settled \subseteq settled'
         /\ \A p \in pending : \/ \E q \in pending' : q.hash = p.hash
                              \/ \E e \in settled' \ settled : e.hash = p.hash
         /\ \E new : /\ settled' = settled \cup {new}
                    /\ new.ok = ok /\ new.hash = current.hash /\ new.cycle = current.cycle
<1> DEFINE new == [cycle |-> current.cycle, hash |-> current.hash, ok |-> ok,
                   excused |-> current.delayed \/ current.blind]
<1>1. /\ current \in pending /\ pending' = pending \ {current} /\ settled' = settled \cup {new}
      /\ new.ok = ok /\ new.hash = current.hash /\ new.cycle = current.cycle
  BY DEF SettleDownload, DriverInv, Starting
<1> HIDE DEF new
<1>2. new \notin settled
  BY <1>1 DEF DriverInv, OnePerCycle
<1>3. IsFiniteSet(settled')
  BY <1>1, FS_AddElement DEF Pairing
<1> QED
  BY <1>1, <1>2, <1>3

(* A client carries the request out or not.                                                     *)
LEMMA TriggerPairing ==
  ASSUME IInv, DriverInv, Pairing, NEW client \in Client, NEW outcome \in Outcomes,
         TriggerOn(client, IF client = "rust" THEN "mfc" ELSE "record", outcome)
  PROVE  Pairing'
<1>1. /\ stage = client /\ stage \in {"rust", "mfc"} /\ UNCHANGED <<phase, now, lastTick, tracker, baseline>>
      /\ \A row \in listed' : row \in listed \/ row.key = current.hash
  BY DEF TriggerOn, Trigger, Transfer, Client
<1>2. CASE outcome = "accepted"
  <2>1. stage' \in {"mfc", "record"} /\ UNCHANGED <<schedule, settled>>
    BY <1>2 DEF TriggerOn
  <2>2. ListedByDriver'
    BY <1>1, <2>1 DEF Pairing, Origins, ListedByDriver, OfOffer, schedule
  <2> QED
    BY <1>1, <2>1, <2>2, PairingFrame DEF schedule, tracker
<1>3. CASE outcome # "accepted"
  <2>1. SettleDownload(current, FALSE)
    BY <1>3 DEF TriggerOn
  <2>2. PICK new : settled' = settled \cup {new} /\ new.ok = FALSE /\ new.hash = current.hash
    BY <1>1, <2>1, SettledIsNew
  <2>3. IsFiniteSet(settled')
        /\ (\A a \in observed : a.id \in SyncIds /\ StartedOnce(a.key)' => StartedOnce(a.key))
        /\ OnePair'
    BY <1>1, <2>1, SettledIsNew, OldHalves DEF tracker
  <2>4. ListedByDriver'
    BY <1>1, <2>2 DEF Pairing, Origins, ListedByDriver, OfOffer
  <2>5. OkIsSynchronized' /\ FailedFirst' /\ Halves'
    BY <1>1, <2>2 DEF Pairing, Origins, OkIsSynchronized, FailedFirst, Halves, tracker
  <2>6. Together'
    BY <1>1, <2>3 DEF Pairing, Together, tracker
  <2> QED
    BY <2>3, <2>4, <2>5, <2>6 DEF Pairing, Origins
<1> QED
  BY <1>2, <1>3

(* Both halves of a download are recorded.                                                      *)
LEMMA RecordPairing ==
  ASSUME IInv, DriverInv, Pairing, RecordDownload
  PROVE  Pairing'
<1> DEFINE Half(c) == SyncAction(c, "download", current.hash, current.cycle)
<1>1. /\ stage = "record" /\ SettleDownload(current, TRUE) /\ stage' = "downloads"
      /\ synchronizedKeys' = synchronizedKeys \cup {<<"download", current.hash>>}
      /\ observed' = observed \cup {Half(c) : c \in Client}
      /\ UNCHANGED <<listed, processed, reports>>
  BY DEF RecordDownload, Records
<1>2. /\ current \in pending /\ current.cycle \in 1..MaxCycle /\ current.hash \in Offered
  BY <1>1 DEF DriverInv, Starting, DriverTypeOK, Pending
<1>3. \A c \in Client : /\ Half(c).id = <<c, current.cycle>> /\ Half(c).id[1] = c
                       /\ Half(c).id[2] = current.cycle
                       /\ Half(c).client = c /\ Half(c).kind = "download"
                       /\ Half(c).key = current.hash /\ Half(c).at = now
  BY DEF SyncAction
<1> HIDE DEF Half
<1>4. PICK new : settled' = settled \cup {new} /\ new.ok = TRUE /\ new.hash = current.hash
  BY <1>1, SettledIsNew
<1>5. IsFiniteSet(settled')
      /\ (\A a \in observed : a.id \in SyncIds /\ StartedOnce(a.key)' => StartedOnce(a.key))
      /\ OnePair'
  BY <1>1, SettledIsNew, OldHalves
<1>6. \A a \in observed, c \in Client : a.id # Half(c).id
  BY <1>1, <1>3, CycleIsFresh
<1>7. ListedByDriver' /\ OkIsSynchronized'
  BY <1>1, <1>4 DEF Pairing, Origins, ListedByDriver, OkIsSynchronized, OfOffer
<1>8. FailedFirst'
  <2>1. ASSUME NEW c \in Client PROVE Half(c).id \notin RowIds
    <3>1. Half(c).id = <<c, current.cycle>> /\ <<c, current.cycle>> \in SyncIds
      BY <1>2, <1>3, IdKinds
    <3> QED
      BY <3>1, IdKinds
  <2> QED
    BY <1>1, <1>4, <2>1 DEF Pairing, Origins, FailedFirst
<1>9. Halves'
  <2>1. ASSUME NEW a \in observed, a.id \in SyncIds
        PROVE  /\ a.kind = "download" /\ a.client = a.id[1] /\ a.key \in Offered
               /\ \A c \in Client : \E b \in observed' : b.id = <<c, a.id[2]>> /\ b.at = a.at /\ b.key = a.key
               /\ \A b \in observed' : b.id = a.id => b = a
    BY <1>1, <1>6, <2>1 DEF Pairing, Halves
  <2>2. ASSUME NEW x \in Client
        PROVE  /\ Half(x).kind = "download" /\ Half(x).client = Half(x).id[1] /\ Half(x).key \in Offered
               /\ \A c \in Client : \E b \in observed' : /\ b.id = <<c, Half(x).id[2]>>
                                                       /\ b.at = Half(x).at /\ b.key = Half(x).key
               /\ \A b \in observed' : b.id = Half(x).id => b = Half(x)
    BY <1>1, <1>2, <1>3, <1>6
  <2> SUFFICES ASSUME NEW a \in observed', a.id \in SyncIds
               PROVE  /\ a.kind = "download" /\ a.client = a.id[1] /\ a.key \in Offered
                      /\ \A c \in Client : \E b \in observed' : b.id = <<c, a.id[2]>> /\ b.at = a.at /\ b.key = a.key
                      /\ \A b \in observed' : b.id = a.id => b = a
    BY DEF Halves
  <2>3. CASE a \in observed
    BY <2>1, <2>3
  <2>4. ASSUME NEW x \in Client, a = Half(x)
        PROVE  /\ a.kind = "download" /\ a.client = a.id[1] /\ a.key \in Offered
               /\ \A c \in Client : \E b \in observed' : b.id = <<c, a.id[2]>> /\ b.at = a.at /\ b.key = a.key
               /\ \A b \in observed' : b.id = a.id => b = a
    BY <2>2, <2>4
  <2> QED
    BY <1>1, <2>3, <2>4
<1>10. Together'
  <2> SUFFICES ASSUME NEW a \in observed', NEW b \in observed', a.id \in SyncIds, b.id \in SyncIds,
                      a.id[2] = b.id[2], a.key = b.key, StartedOnce(a.key)', a.id \in processed
               PROVE  b.id \in processed
    BY <1>1 DEF Together
  <2>1. \A c \in Client : Half(c).id \notin processed
    BY <1>6 DEF IInv, ProcessedAreObserved
  <2>2. a \in observed
    BY <1>1, <2>1
  <2>3. b \in observed
    <3> SUFFICES ASSUME NEW c \in Client, b = Half(c) PROVE FALSE
      BY <1>1
    <3>1. a.id[2] = current.cycle
      BY <1>3
    <3>2. a.id = <<a.id[1], current.cycle>> /\ a.id[1] \in Client
      BY <3>1 DEF SyncIds
    <3> QED
      BY <1>3, <1>6, <2>2, <3>2
  <2> QED
    BY <1>5, <2>2, <2>3 DEF Pairing, Together
<1> QED
  BY <1>5, <1>7, <1>8, <1>9, <1>10 DEF Pairing, Origins

(* What a tick hands out, for its order of the rows and its correlation.                        *)
HandsOut(ok, place, pairs) ==
  LET actions == Ingested(ok, place)
  IN  Outcome(ActiveOf("rust", actions) \cup ActiveOf("mfc", actions), pairs)

(* In a tick the halves of a single start find each other and nobody else: they are the only     *)
(* actions of their kind and key.                                                          *)
LEMMA HalvesPair ==
  ASSUME IInv, DriverInv, Pairing, NEW ok, NEW place, NEW pairs, TickStep(ok, place, pairs),
         NEW a \in observed, a.id \in SyncIds, a.id \notin processed, StartedOnce(a.key)
  PROVE  \E r, m \in observed :
           /\ r.id = <<"rust", a.id[2]>> /\ m.id = <<"mfc", a.id[2]>>
           /\ a = r \/ a = m
           /\ \A x \in HandsOut(ok, place, pairs) : r \in x \/ m \in x => x = {r, m}
<1> DEFINE actions == Ingested(ok, place)
           rusts == ActiveOf("rust", actions)
           mfcs == ActiveOf("mfc", actions)
           n == a.id[2]
<1>1. /\ place \in Placings(NewRows(ok)) /\ pairs \subseteq Candidates(rusts, mfcs)
      /\ Correlation(rusts, mfcs, pairs)
  BY DEF TickStep
<1>2. /\ a.kind = "download" /\ a.client = a.id[1] /\ a.id = <<a.client, n>> /\ a.client \in Client
      /\ n \in 1..MaxCycle
  BY DEF Pairing, Halves, SyncIds
<1>3. ASSUME NEW c \in Client
      PROVE  \E b \in observed : /\ b.id = <<c, n>> /\ b.at = a.at /\ b.key = a.key /\ b.kind = "download"
                               /\ b.client = c /\ b.id \notin processed
  <2>1. PICK b \in observed : b.id = <<c, n>> /\ b.at = a.at /\ b.key = a.key
    BY DEF Pairing, Halves
  <2>2. b.id \in SyncIds /\ b.id[2] = n /\ b.id[1] = c
    BY <1>2, <2>1 DEF SyncIds
  <2>3. b.kind = "download" /\ b.client = c
    BY <2>2 DEF Pairing, Halves
  <2>4. b.id \notin processed
    BY <2>1, <2>2 DEF Pairing, Together
  <2> QED
    BY <2>1, <2>3, <2>4
<1>4. PICK r \in observed : /\ r.id = <<"rust", n>> /\ r.at = a.at /\ r.key = a.key /\ r.kind = "download"
                           /\ r.client = "rust" /\ r.id \notin processed
  BY <1>3 DEF Client
<1>5. PICK m \in observed : /\ m.id = <<"mfc", n>> /\ m.at = a.at /\ m.key = a.key /\ m.kind = "download"
                           /\ m.client = "mfc" /\ m.id \notin processed
  BY <1>3 DEF Client
<1> HIDE DEF n
<1>6. \A b \in observed : b.id \in SyncIds => \A x \in observed : x.id = b.id => x = b
  BY DEF Pairing, Halves
<1>7. r.id \in SyncIds /\ m.id \in SyncIds
  BY <1>2, <1>4, <1>5 DEF SyncIds, Client
<1>8. a = r \/ a = m
  BY <1>2, <1>4, <1>5, <1>6 DEF Client
<1>9. PICK d \in settled : d.ok /\ d.cycle = n /\ d.hash = a.key
  BY DEF DriverInv, SyncIsSettled, n
<1>10. ASSUME NEW b \in actions, b.kind = "download", b.key = a.key PROVE b = r \/ b = m
  <2>1. CASE b \in observed /\ b.id \in SyncIds
    <3>1. PICK e \in settled : e.cycle = b.id[2] /\ e.hash = b.key
      BY <2>1 DEF DriverInv, SyncIsSettled
    <3>2. e = d
      BY <1>9, <1>10, <3>1, OneDownload DEF Pairing
    <3>3. b.id = <<b.id[1], n>> /\ b.id[1] \in Client
      BY <1>9, <2>1, <3>1, <3>2 DEF SyncIds
    <3> QED
      BY <1>4, <1>5, <1>6, <1>7, <2>1, <3>3 DEF Client
  <2>2. CASE b \in observed /\ b.id \in RowIds
    <3>1. a.key \in Offered
      BY DEF Pairing, Halves
    <3>2. PICK e \in settled : e.hash = a.key /\ ~e.ok
      BY <1>10, <2>2, <3>1 DEF Pairing, Origins, FailedFirst, OfOffer
    <3> QED
      BY <1>9, <3>2, OneDownload DEF Pairing
  <2>3. CASE b \notin observed
    <3>1. PICK row \in NewRows(ok) : row.kind = b.kind /\ row.key = b.key
      BY <2>3, NewActions DEF IInv
    <3>2. <<a.kind, a.key>> \in synchronizedKeys
      BY DEF IInv, SyncActionsAreRecorded
    <3> QED
      BY <1>2, <1>10, <3>1, <3>2 DEF NewRows
  <2>4. b \in observed => b.id \in SyncIds \/ b.id \in RowIds
    BY DEF IInv, TypeOK, Action, Ids
  <2> QED
    BY <2>1, <2>2, <2>3, <2>4
<1>11. r \in rusts /\ m \in mfcs
  BY <1>4, <1>5 DEF ActiveOf, Ingested
<1>12. \A p \in pairs : p[1] = r \/ p[2] = m => p = <<r, m>>
  <2> SUFFICES ASSUME NEW p \in pairs, p[1] = r \/ p[2] = m
               PROVE  p = <<r, m>>
    OBVIOUS
  <2>1. p \in rusts \X mfcs /\ p[1].kind = p[2].kind /\ p[1].key = p[2].key
    BY <1>1 DEF Candidates, Compatible
  <2>2. p = <<p[1], p[2]>> /\ p[1] \in actions /\ p[2] \in actions
        /\ p[1].client = "rust" /\ p[2].client = "mfc"
    BY <2>1 DEF ActiveOf
  <2>3. /\ p[1].kind = "download" /\ p[1].key = a.key
        /\ p[2].kind = "download" /\ p[2].key = a.key
    BY <1>4, <1>5, <2>1
  <2>4. p[1] = r /\ p[2] = m
    BY <1>4, <1>5, <1>10, <2>2, <2>3
  <2> QED
    BY <2>2, <2>4
<1>13. <<r, m>> \in pairs
  <2>1. Compatible(r, m)
    <3>1. r.at = m.at /\ r.at \in Nat
      BY <1>4, <1>5 DEF IInv, TypeOK, Action
    <3>2. Distance(r, m) <= Window
      BY <3>1 DEF Distance
    <3> QED
      BY <1>4, <1>5, <3>2 DEF Compatible
  <2>2. m \in FreeFor(r, mfcs, pairs)
    BY <1>11, <1>12, <2>1 DEF FreeFor
  <2>3. PICK q \in FreeFor(r, mfcs, pairs) : <<r, q>> \in pairs
    BY <1>1, <1>11, <2>2 DEF Correlation
  <2> QED
    BY <1>12, <2>3
<1>14. ASSUME NEW x \in HandsOut(ok, place, pairs), r \in x \/ m \in x PROVE x = {r, m}
  <2>1. CASE \E p \in pairs : x = {p[1], p[2]}
    <3>1. PICK p \in pairs : x = {p[1], p[2]}
      BY <2>1
    <3>2. p[1].client = "rust" /\ p[2].client = "mfc"
      BY <1>1 DEF Candidates, ActiveOf
    <3>3. p[1] = r \/ p[2] = m
      BY <1>4, <1>5, <1>14, <3>1, <3>2
    <3>4. p = <<r, m>>
      BY <1>12, <3>3
    <3> QED
      BY <3>1, <3>4
  <2>2. CASE \E b \in (rusts \cup mfcs) \ Paired(pairs) : x = {b}
    <3>1. r \in Paired(pairs) /\ m \in Paired(pairs)
      BY <1>13 DEF Paired
    <3> QED
      BY <1>14, <2>2, <3>1
  <2> QED
    BY <2>1, <2>2 DEF HandsOut, Outcome
<1> QED
  BY <1>4, <1>5, <1>8, <1>14 DEF n

(* A tick keeps the halves together.                                                            *)
LEMMA TickPairing ==
  ASSUME IInv, DriverInv, Pairing, stage = "tick", stage' = "sleep", NEW ok, Tick(ok),
         UNCHANGED <<settled, pending>>
  PROVE  Pairing'
<1>1. PICK place, pairs : TickStep(ok, place, pairs)
  BY TickHasStep
<1> DEFINE actions == Ingested(ok, place)
           out == HandsOut(ok, place, pairs)
<1>2. /\ observed' = actions
      /\ \A x \in out : \A a \in x : a \in observed' /\ a.id \notin processed /\ a.id \in processed'
      /\ processed' = processed \cup {a.id : a \in UNION out}
      /\ reports' = reports \cup {[members |-> x, at |-> now] : x \in out}
      /\ UNCHANGED <<listed, synchronizedKeys>>
  BY <1>1, HandedOut DEF HandsOut, TickStep, Tick, Ticks
<1>3. \A a \in actions : a.id \in SyncIds => a \in observed
  <2> SUFFICES ASSUME NEW a \in actions \ observed PROVE a.id \notin SyncIds
    OBVIOUS
  <2>1. PICK row \in NewRows(ok) : row \in Rows /\ a.id = <<"row", row.id>>
    BY <1>1, NewActions DEF IInv, TickStep
  <2> QED
    BY <2>1, IdKinds
<1>4. observed \subseteq actions
  BY DEF Ingested
<1>5. ASSUME NEW a \in observed, a.id \in SyncIds, a.id \notin processed, StartedOnce(a.key)
      PROVE  \E r, m \in observed :
               /\ r.id = <<"rust", a.id[2]>> /\ m.id = <<"mfc", a.id[2]>>
               /\ a = r \/ a = m
               /\ \A x \in out : r \in x \/ m \in x => x = {r, m}
  BY <1>1, <1>5, HalvesPair
<1> HIDE DEF actions, out
<1>6. \A h : StartedOnce(h)' <=> StartedOnce(h)
  BY DEF StartedOnce
<1>7. ListedByDriver' /\ OkIsSynchronized' /\ IsFiniteSet(settled')
  BY <1>2 DEF Pairing, Origins, ListedByDriver, OkIsSynchronized
<1>8. FailedFirst'
  <2> SUFFICES ASSUME NEW a \in actions, a.id \in RowIds, OfOffer(a)
               PROVE  \E d \in settled : d.hash = a.key /\ ~d.ok
    BY <1>2 DEF FailedFirst
  <2>1. CASE a \in observed
    BY <2>1 DEF Pairing, Origins, FailedFirst
  <2>2. CASE a \notin observed
    <3>1. PICK row \in NewRows(ok) : row.kind = a.kind /\ row.key = a.key
      BY <1>1, <2>2, NewActions DEF IInv, TickStep, actions
    <3>2. row \in listed /\ <<row.kind, row.key>> \notin synchronizedKeys
      BY <3>1 DEF NewRows, Fresh, Polled
    <3>3. PICK d \in settled : d.hash = row.key
      BY <3>1, <3>2 DEF Pairing, Origins, ListedByDriver, OfOffer
    <3>4. ~d.ok
      BY <3>1, <3>2, <3>3 DEF Pairing, Origins, OkIsSynchronized, OfOffer
    <3> QED
      BY <3>1, <3>3, <3>4
  <2> QED
    BY <2>1, <2>2
<1>9. Halves'
  <2> SUFFICES ASSUME NEW a \in actions, a.id \in SyncIds
               PROVE  /\ a.kind = "download" /\ a.client = a.id[1] /\ a.key \in Offered
                      /\ \A c \in Client : \E b \in actions : b.id = <<c, a.id[2]>> /\ b.at = a.at /\ b.key = a.key
                      /\ \A b \in actions : b.id = a.id => b = a
    BY <1>2 DEF Halves
  <2> QED
    BY <1>3, <1>4 DEF Pairing, Halves
<1>10. Together'
  <2> SUFFICES ASSUME NEW a \in observed, NEW b \in observed, a.id \in SyncIds, b.id \in SyncIds,
                      a.id[2] = b.id[2], a.key = b.key, StartedOnce(a.key), a.id \in processed'
               PROVE  b.id \in processed'
    BY <1>2, <1>3, <1>6 DEF Together
  <2>1. CASE a.id \in processed
    BY <1>2, <2>1 DEF Pairing, Together
  <2>2. CASE a.id \notin processed
    <3>1. PICK x \in out : \E z \in x : z.id = a.id
      BY <1>2, <2>2
    <3>2. a \in x
      BY <1>2, <1>3, <3>1 DEF Pairing, Halves
    <3>3. PICK r, m \in observed :
            /\ r.id = <<"rust", a.id[2]>> /\ m.id = <<"mfc", a.id[2]>>
            /\ a = r \/ a = m
            /\ \A z \in out : r \in z \/ m \in z => z = {r, m}
      BY <1>5, <2>2
    <3>4. r.id \in processed' /\ m.id \in processed'
      BY <1>2, <3>1, <3>2, <3>3
    <3>5. b.id = r.id \/ b.id = m.id
      BY <3>3 DEF SyncIds, Client
    <3> QED
      BY <3>4, <3>5
  <2> QED
    BY <2>1, <2>2
<1>11. OnePair'
  <2> SUFFICES ASSUME NEW rep \in reports', NEW a \in rep.members, a.id \in SyncIds, StartedOnce(a.key)
               PROVE  {b.id : b \in rep.members} = {<<c, a.id[2]>> : c \in Client}
    BY <1>6 DEF OnePair
  <2>1. CASE rep \in reports
    BY <2>1 DEF Pairing, OnePair
  <2>2. CASE \E x \in out : rep.members = x
    <3>1. rep.members \in out /\ a \in observed /\ a.id \notin processed
      BY <1>2, <1>3, <2>2
    <3>2. PICK r, m \in observed :
            /\ r.id = <<"rust", a.id[2]>> /\ m.id = <<"mfc", a.id[2]>>
            /\ a = r \/ a = m
            /\ \A z \in out : r \in z \/ m \in z => z = {r, m}
      BY <1>5, <3>1
    <3>3. rep.members = {r, m}
      BY <3>1, <3>2
    <3> QED
      BY <3>2, <3>3 DEF Client
  <2> QED
    BY <1>2, <2>1, <2>2
<1> QED
  BY <1>7, <1>8, <1>9, <1>10, <1>11 DEF Pairing, Origins

(* Every step of the loop.                                                                      *)
LEMMA PairingStep ==
  ASSUME Undisturbed, IInv, DriverInv, Pairing, [DriverNext]_allVars
  PROVE  Pairing'
<1>1. ASSUME UNCHANGED <<listed, tracker, settled>>, \A p \in pending : \E q \in pending' : q.hash = p.hash,
             stage \notin {"mfc", "record"} \/ UNCHANGED <<stage, current>>
      PROVE  Pairing'
  BY <1>1, PairingFrame DEF Pairing, Origins, ListedByDriver, tracker
<1>2. ASSUME NEW ok, StartLoop(ok) PROVE Pairing'
  BY <1>2, PairingFrame DEF StartLoop, Prime, schedule, Pairing, Origins, ListedByDriver
<1>3. CASE TimePasses \/ BeginIteration \/ ReadGate \/ DownloadsDone \/ Sleep \/ WindDown
           \/ UNCHANGED allVars
  BY <1>1, <1>3 DEF TimePasses, BeginIteration, Iterate, ReadGate, DownloadsDone, Sleep, WindDown,
                    allVars, vars, driverVars, loop, schedule
<1>4. CASE NoCycle \/ DelayCycle \/ PassiveCycle \/ BeginSearch
  BY <1>1, <1>4 DEF NoCycle, DelayCycle, PassiveCycle, BeginSearch, vars, schedule
<1>5. ASSUME NEW p \in pending, NotYet(p) \/ StartDownload(p) PROVE Pairing'
  BY <1>1, <1>5 DEF NotYet, StartDownload, Turn, vars, loop
<1>6. ASSUME NEW p \in pending, Postpone(p) PROVE Pairing'
  <2> DEFINE first == [p EXCEPT !.due = clock + Postponement]
             late == [first EXCEPT !.delayed = TRUE]
  <2>1. /\ pending' = (pending \ {p}) \cup {late} /\ stage = "downloads" /\ UNCHANGED <<vars, settled>>
    BY <1>6 DEF Postpone, Turn
  <2>2. late.hash = p.hash
    <3>1. p \in Pending /\ clock + Postponement \in Nat
      BY DEF DriverInv, DriverTypeOK
    <3>2. first \in Pending /\ first.hash = p.hash
      BY <3>1 DEF Pending
    <3> HIDE DEF first
    <3> QED
      BY <3>2 DEF Pending
  <2> HIDE DEF late
  <2> QED
    BY <1>1, <2>1, <2>2 DEF vars
<1>7. ASSUME NEW outcome \in Outcomes, TriggerRust(outcome) \/ TriggerMfc(outcome) PROVE Pairing'
  BY <1>7, TriggerPairing DEF TriggerRust, TriggerMfc, Client
<1>8. CASE RecordDownload
  BY <1>8, RecordPairing
<1>9. ASSUME NEW hash, NEW deaf, EndSearch(hash, deaf) PROVE Pairing'
  BY <1>1, <1>9 DEF EndSearch, vars
<1>10. ASSUME NEW down \in SUBSET Flaky, Observe(Surface \ down) PROVE Pairing'
  <2>1. CASE gate
    <3>1. Tick(Surface \ down)
      BY <1>10, <2>1 DEF Observe, Tick, DriverInv, Clocks, Stages
    <3> QED
      BY <1>10, <3>1, TickPairing DEF Observe, schedule
  <2>2. CASE ~gate
    BY <1>1, <1>10, <2>2 DEF Observe, schedule
  <2> QED
    BY <2>1, <2>2
<1>11. CASE Environment /\ UNCHANGED driverVars
  <2>1. /\ UNCHANGED <<tracker, settled, pending, stage, current>>
        /\ \A row \in listed' : row \in listed \/ row \in OperatorRows
    BY <1>11 DEF Environment, Appear, Vanish, driverVars, loop, schedule
  <2>2. ListedByDriver'
    BY <2>1 DEF Undisturbed, Pairing, Origins, ListedByDriver, OfOffer
  <2> QED
    BY <2>1, <2>2, PairingFrame DEF tracker
<1> QED
  BY <1>2, <1>3, <1>4, <1>5, <1>6, <1>7, <1>8, <1>9, <1>10, <1>11 DEF DriverNext

(* A download the driver started once, on both clients, is reported as one pair, its own two     *)
(* halves, wherever the poll fails and however long the calls take, as long as nobody else     *)
(* transfers what the driver's searches may offer.                                         *)
THEOREM TwinsArePaired ==
  ASSUME Undisturbed
  PROVE  DriverSpec => []TwinsStayTogether
<1>1. DriverInit => Pairing
  BY FS_EmptySet DEF DriverInit, Init, Undisturbed, Pairing, Origins, ListedByDriver, OkIsSynchronized,
                     FailedFirst, Halves, Together, OnePair, OfOffer
<1>2. IInv /\ DriverInv /\ Pairing /\ [DriverNext]_allVars => Pairing'
  BY PairingStep
<1>3. Pairing => TwinsStayTogether
  BY DEF Pairing, OnePair, TwinsStayTogether
<1>4. DriverSpec => []IInv
  BY DriverKeepsProtocol, Invariance, PTL DEF KeepsTrackerProtocol
<1> QED
  BY <1>1, <1>2, <1>3, <1>4, DriverInductive, PTL DEF DriverSpec
====
