---- MODULE Lane ----
(***************************************************************************)
(* A run of one lane: the steps of its body in order, an exception or a      *)
(* Ctrl-C at any of them, and then its `finally` block, entry by entry, each *)
(* of which may fail as well.  The lanes themselves are in Table.            *)
(***************************************************************************)
EXTENDS LaneSteps, Integers

CONSTANTS
  Table,     \* lane -> its record, as LaneOf builds it
  MaxFaults  \* bound: exceptions, and kills that do not work, of one run

Steps == [op : {"work", "start", "spawn", "adopt", "close", "kill", "leave"},
          res : STRING, skip : Nat, under : {"finally", "rescue", "phase", "bare"}]
Entries == [op : {"release", "probe", "audit", "report"}, res : STRING,
            error : {"noted", "demotes", "fails", "raises", "forced"},
            keep : {"never", "passed", "always"}]
Statuses == {"running", "passed", "failed", "inconclusive"}

ASSUME TableAssumption ==
  /\ MaxFaults \in Nat
  /\ \A n \in DOMAIN Table :
       /\ Table[n].body \in Seq(Steps) /\ Table[n].cleanup \in Seq(Entries)
       /\ Table[n].errors \subseteq Statuses /\ Table[n].ends \subseteq Statuses
       /\ Table[n].code \in {"reported", "returned"} /\ Table[n].base \subseteq STRING

Creates(s) == s.op \in {"start", "spawn"}
Finishes(s) == s.op \in {"close", "kill"}
(* Where steps i and j are taken, no option has left out step k in between.     *)
Bound(body, i, k, j) ==
  \A m \in DOMAIN body : (i < m /\ m <= k /\ k < m + body[m].skip) => j < m + body[m].skip

(* The discipline of a lane: its teardown names whatever its body creates;      *)
(* what is created a second time has been closed or killed in between; and     *)
(* what is closed or killed has been stored.                                *)
Disciplined(body, cleanup) ==
  \A i \in DOMAIN body : Creates(body[i]) =>
    /\ \E k \in DOMAIN cleanup : cleanup[k].op = "release" /\ cleanup[k].res = body[i].res
    /\ \A j \in DOMAIN body : (i < j /\ Creates(body[j]) /\ body[j].res = body[i].res) =>
         \E k \in DOMAIN body : /\ i < k /\ k < j /\ Bound(body, i, k, j)
                                /\ Finishes(body[k]) /\ body[k].res = body[i].res
    /\ \A j \in DOMAIN body :
         (i < j /\ body[i].op = "spawn" /\ Finishes(body[j]) /\ body[j].res = body[i].res) =>
           \E k \in DOMAIN body : /\ i < k /\ k < j /\ Bound(body, i, k, j)
                                  /\ body[k].op = "adopt" /\ body[k].res = body[i].res

(* What everything else lives on is not finished in the body, has nothing on it  *)
(* yet where the `except` gives it back, and comes last in the teardown.        *)
Releases(e) == e.op = "release"
BaseLast(l) ==
  /\ \A i \in DOMAIN l.body : Finishes(l.body[i]) => l.body[i].res \notin l.base
  /\ \A i, j \in DOMAIN l.body :
       (i < j /\ Creates(l.body[i]) /\ l.body[j].under = "rescue") => l.body[i].res \in l.base
  /\ \A j, k \in DOMAIN l.cleanup :
       (Releases(l.cleanup[j]) /\ Releases(l.cleanup[k])
          /\ l.cleanup[j].res \notin l.base /\ l.cleanup[k].res \in l.base) => j < k

(* What a phase takes it stores at once.                                      *)
PhasesStore(body) ==
  \A i \in DOMAIN body : body[i].under = "phase" => body[i].op \in {"work", "start", "close"}

(* A lane that computes its exit code from the report writes one, and changes    *)
(* nothing of its verdict afterwards.                                       *)
Judges(e) == e.op = "audit" \/ (Releases(e) /\ e.error \in {"demotes", "fails"})
ReportLast(l) ==
  /\ \E k \in DOMAIN l.cleanup : l.cleanup[k].op = "report"
  /\ \A j, k \in DOMAIN l.cleanup : (l.cleanup[k].op = "report" /\ k < j) => ~Judges(l.cleanup[j])

ASSUME DisciplineAssumption ==
  \A n \in DOMAIN Table : /\ Disciplined(Table[n].body, Table[n].cleanup)
                           /\ PhasesStore(Table[n].body)
ASSUME BaseAssumption == \A n \in DOMAIN Table : BaseLast(Table[n])
ASSUME ReportAssumption ==
  \A n \in DOMAIN Table : Table[n].code = "reported" => ReportLast(Table[n])

VARIABLES
  name,         \* the lane
  phase,        \* where it is: "body", "cleanup", "ended"
  at,           \* the next step or entry
  running,      \* instances of resources that exist: [res, since]
  held,         \* instances the lane's variables name
  attempted,    \* instances it has tried to give back
  unadopted,    \* instances started by a callee that has not returned
  presumed,     \* instances taken for gone: killed with no look at the outcome, or
                \* not closed, which was only noted
  kept,         \* instances left alive for --keep-running
  keepRunning,  \* --keep-running
  status,       \* report["status"]
  written,      \* the status in the report on disk, "none" before
  exit,         \* the exit code: "none" while open, "zero", "nonzero"
  torn,         \* an exception left the function past its `finally` block
  faults        \* faults so far

vars == <<name, phase, at, running, held, attempted, unadopted, presumed, kept,
          keepRunning, status, written, exit, torn, faults>>
owned == <<running, held, attempted, unadopted, presumed, kept>>
verdict == <<status, written, exit, torn>>

lane == Table[name]
step == lane.body[at]
entry == lane.cleanup[at]
Instance(r) == [res |-> r, since |-> at]
Held(r) == {h \in held : h.res = r}

Init ==
  /\ name \in DOMAIN Table /\ phase = "body" /\ at = 1
  /\ running = {} /\ held = {} /\ attempted = {} /\ unadopted = {} /\ presumed = {} /\ kept = {}
  /\ keepRunning \in BOOLEAN
  /\ status = "running" /\ written = "none" /\ exit = "none" /\ torn = FALSE
  /\ faults = 0

----------------------------------------------------------------------------
(* The body.                                                                *)
InBody == phase = "body" /\ at \in DOMAIN lane.body
Fault == faults < MaxFaults /\ faults' = faults + 1
Onward == at' = at + 1 /\ UNCHANGED <<name, phase, keepRunning>>
ToCleanup == phase' = "cleanup" /\ at' = 1 /\ UNCHANGED <<name, keepRunning>>

(* The lane's variable names the new instances of a resource from now on.     *)
Stored(new) ==
  {h \in held : \A n \in new : h.res = n.res => n.since <= h.since} \cup new

(* An option leaves out the step and those that belong to it.                 *)
Omit ==
  /\ InBody /\ step.skip > 0
  /\ at' = at + step.skip
  /\ UNCHANGED <<name, phase, keepRunning, owned, verdict, faults>>

(* The step takes nothing and gives nothing back.                            *)
Pass ==
  /\ InBody
  /\ \/ step.op = "work"
     \/ step.op \in {"close", "kill"} /\ Held(step.res) = {}
     \/ step.op = "adopt" /\ {u \in unadopted : u.res = step.res} = {}
  /\ Onward /\ UNCHANGED <<owned, verdict, faults>>

StartStep ==
  /\ InBody /\ step.op = "start"
  /\ running' = running \cup {Instance(step.res)}
  /\ held' = Stored({Instance(step.res)})
  /\ Onward /\ UNCHANGED <<attempted, unadopted, presumed, kept, verdict, faults>>

SpawnStep ==
  /\ InBody /\ step.op = "spawn"
  /\ running' = running \cup {Instance(step.res)}
  /\ unadopted' = unadopted \cup {Instance(step.res)}
  /\ Onward /\ UNCHANGED <<held, attempted, presumed, kept, verdict, faults>>

AdoptStep ==
  /\ InBody /\ step.op = "adopt"
  /\ LET new == {u \in unadopted : u.res = step.res} IN
       /\ new # {}
       /\ held' = Stored(new)
       /\ unadopted' = unadopted \ new
  /\ Onward /\ UNCHANGED <<running, attempted, presumed, kept, verdict, faults>>

(* A close that fails is logged, and the body goes on.                        *)
CloseLogged ==
  /\ InBody /\ step.op = "close" /\ Held(step.res) # {}
  /\ running' \in {running, running \ Held(step.res)}
  /\ held' = held \ Held(step.res)
  /\ attempted' = attempted \cup Held(step.res)
  /\ Onward /\ UNCHANGED <<unadopted, presumed, kept, verdict, faults>>

CloseStep ==
  /\ InBody /\ step.op = "close" /\ Held(step.res) # {}
  /\ running' = running \ Held(step.res)
  /\ held' = held \ Held(step.res)
  /\ attempted' = attempted \cup Held(step.res)
  /\ Onward /\ UNCHANGED <<unadopted, presumed, kept, verdict, faults>>

KillStep ==
  /\ InBody /\ step.op = "kill" /\ Held(step.res) # {}
  /\ \/ running' = running \ Held(step.res) /\ UNCHANGED faults
     \/ running' = running /\ Fault
  /\ attempted' = attempted \cup Held(step.res)
  /\ presumed' = presumed \cup Held(step.res)
  /\ Onward /\ UNCHANGED <<held, unadopted, kept, verdict>>

(* A return statement fixes the exit code, unless the lane computes it from    *)
(* the report at the very end.                                              *)
ExitOf(s) == IF s = "passed" THEN "zero" ELSE "nonzero"
FixedAsStatus(s) == s
FixedAlways(s) == ExitOf(s)
FixedBy(s) == IF lane.code = "returned" THEN ExitOf(s) ELSE "none"

LeaveStep ==
  /\ InBody /\ step.op = "leave"
  /\ status' = "passed" /\ exit' = FixedBy("passed")
  /\ ToCleanup /\ UNCHANGED <<owned, written, torn, faults>>

Finish ==
  /\ phase = "body" /\ at > Len(lane.body)
  /\ status' \in lane.ends /\ exit' = FixedBy(status')
  /\ ToCleanup /\ UNCHANGED <<owned, written, torn, faults>>

(* What an exception leaves of the step it comes from: a start has started      *)
(* nothing; a close has been tried, and the resource may be gone.  A phase      *)
(* does not try it again: its variable is gone.                              *)
Tried == IF step.op \in {"close", "kill"} THEN Held(step.res) ELSE {}
Interrupted ==
  /\ attempted' = attempted \cup Tried
  /\ running' \in {running, running \ Tried}
  /\ held' = IF step.under = "phase" THEN held \ Tried ELSE held
  /\ UNCHANGED <<unadopted, kept>>

(* The phase notes the error, and the lane goes on.                           *)
RaiseNoted ==
  /\ Fault /\ InBody /\ step.under = "phase"
  /\ Interrupted
  /\ presumed' = presumed \cup Tried
  /\ Onward /\ UNCHANGED verdict

(* `except Exception` sees an error and not a Ctrl-C.                         *)
RaiseInTry ==
  /\ Fault /\ InBody /\ step.under \in {"finally", "phase"}
  /\ Interrupted
  /\ \/ step.under = "finally" /\ status' \in lane.errors /\ exit' = FixedBy(status')
     \/ status' = status /\ exit' = "nonzero"
  /\ ToCleanup /\ UNCHANGED <<presumed, written, torn>>

Torn == phase' = "ended" /\ torn' = TRUE /\ exit' = "nonzero"

RaiseBare ==
  /\ Fault /\ InBody /\ step.under \in {"rescue", "bare"}
  /\ Interrupted
  /\ Torn /\ UNCHANGED <<name, at, keepRunning, presumed, status, written>>

(* The `except` that gives the base back before it raises again.             *)
OfBase == {h \in held : h.res \in lane.base}
RaiseRescuedAnywhere ==
  /\ Fault /\ InBody
  /\ attempted' = attempted \cup OfBase
  /\ running' \in {running, running \ OfBase}
  /\ Torn /\ UNCHANGED <<name, at, keepRunning, held, unadopted, presumed, kept, status, written>>

RaiseRescued ==
  /\ Fault /\ InBody /\ step.under = "rescue"
  /\ attempted' = attempted \cup OfBase
  /\ running' \in {running, running \ OfBase}
  /\ Torn /\ UNCHANGED <<name, at, keepRunning, held, unadopted, presumed, kept, status, written>>

----------------------------------------------------------------------------
(* The teardown.                                                            *)
InCleanup == phase = "cleanup" /\ at \in DOMAIN lane.cleanup
Spared == keepRunning /\ (entry.keep = "always" \/ (entry.keep = "passed" /\ status = "passed"))
Due == InCleanup /\ entry.op = "release" /\ ~Spared

Keep ==
  /\ InCleanup /\ entry.op = "release" /\ Spared
  /\ kept' = kept \cup Held(entry.res)
  /\ Onward /\ UNCHANGED <<running, held, attempted, unadopted, presumed, verdict, faults>>

(* What a passed run used is left as it is.                                  *)
GiveBackAfterFailure ==
  /\ Due
  /\ LET due == IF status = "passed" THEN {} ELSE Held(entry.res) IN
       running' = running \ due /\ attempted' = attempted \cup due
  /\ Onward /\ UNCHANGED <<held, unadopted, presumed, kept, verdict, faults>>

GiveBack ==
  /\ Due
  /\ running' = running \ Held(entry.res)
  /\ attempted' = attempted \cup Held(entry.res)
  /\ Onward /\ UNCHANGED <<held, unadopted, presumed, kept, verdict, faults>>

(* The release raises, with the resource gone or not.                        *)
Refused ==
  /\ Due /\ Held(entry.res) # {}
  /\ running' \in {running, running \ Held(entry.res)}
  /\ attempted' = attempted \cup Held(entry.res)
  /\ UNCHANGED <<held, unadopted, presumed, kept>>

Demoted == CASE entry.error = "demotes" /\ status = "passed" -> "failed"
             [] entry.error = "fails" -> "failed"
             [] OTHER -> status

ReleaseNoted ==
  /\ Fault /\ Refused /\ entry.error # "raises"
  /\ status' = Demoted
  /\ Onward /\ UNCHANGED <<written, exit, torn>>

ReleaseRaises ==
  /\ Fault /\ Refused /\ entry.error \in {"raises", "forced"}
  /\ Torn /\ UNCHANGED <<name, at, keepRunning, status, written>>

Examine ==
  /\ InCleanup /\ entry.op \in {"probe", "audit"}
  /\ status' \in IF entry.op = "audit" THEN {status, "failed"} ELSE {status}
  /\ Onward /\ UNCHANGED <<owned, written, exit, torn, faults>>

WriteReport ==
  /\ InCleanup /\ entry.op = "report"
  /\ written' = status
  /\ Onward /\ UNCHANGED <<owned, status, exit, torn, faults>>

EntryRaises ==
  /\ Fault /\ InCleanup /\ entry.op \in {"probe", "report"}
  /\ Torn /\ UNCHANGED <<name, at, keepRunning, owned, status, written>>

End ==
  /\ phase = "cleanup" /\ at > Len(lane.cleanup)
  /\ exit' = IF exit = "none" THEN ExitOf(status) ELSE exit
  /\ phase' = "ended"
  /\ UNCHANGED <<name, at, keepRunning, owned, status, written, torn, faults>>

Body == \/ Omit \/ Pass \/ StartStep \/ SpawnStep \/ AdoptStep \/ CloseStep \/ KillStep \/ LeaveStep
        \/ Finish \/ RaiseNoted \/ RaiseInTry \/ RaiseBare \/ RaiseRescued
Cleanup == \/ Keep \/ GiveBack \/ ReleaseNoted \/ ReleaseRaises \/ Examine \/ WriteReport
           \/ EntryRaises \/ End
Next == Body \/ Cleanup
Spec == Init /\ [][Next]_vars

----------------------------------------------------------------------------
Instances == [res : STRING, since : Nat]

(* Every variable has its type.                                             *)
TypeOK ==
  /\ name \in DOMAIN Table /\ phase \in {"body", "cleanup", "ended"} /\ at \in Nat \ {0}
  /\ running \subseteq Instances /\ held \subseteq Instances /\ attempted \subseteq Instances
  /\ unadopted \subseteq Instances /\ presumed \subseteq Instances /\ kept \subseteq Instances
  /\ keepRunning \in BOOLEAN /\ torn \in BOOLEAN /\ faults \in Nat
  /\ status \in Statuses /\ written \in Statuses \cup {"none"}
  /\ exit \in {"none", "zero", "nonzero"}

(* Tried, or never the lane's to try: what the lane answers for.               *)
Settled == attempted \cup unadopted \cup kept

(* A lane that gets to the end of its teardown has tried to give back every      *)
(* resource it was ever handed, however the body went, through restarts and     *)
(* forced kills as well; what survives is what could not be closed, what an     *)
(* exception kept from being handed over, or what --keep-running spares.       *)
NothingForgotten == (phase = "ended" /\ ~torn) => running \subseteq Settled

(* The volume a run works on is not given back before the lane has tried to      *)
(* give back everything on it that it knows of and was not asked to keep: what   *)
(* still writes to a disk that is detached refused to close, or was never        *)
(* handed over, and is not a client the teardown had yet to come to.           *)
VolumeLast ==
  \A v \in attempted : v.res \in lane.base =>
    \A i \in running : i.res \notin lane.base => i \in Settled

(* A second instance of a resource (a client on the same profile, a server on   *)
(* the same port) is started beside a running one in two ways only: the code     *)
(* killed the older one and does not look at the outcome, or one of its phases   *)
(* only noted that it would not close.  Everywhere else a close that fails        *)
(* keeps the next start from being reached.                                  *)
OneOfEach ==
  \A older, newer \in running :
    (older.res = newer.res /\ older.since < newer.since) => older \in presumed

(* The report on disk and the exit code tell the same story: zero with a        *)
(* passed report only, and a passed report with zero.  A lane that fixes its    *)
(* code where the body returns can still demote its report afterwards, so for   *)
(* it only the second half holds.                                            *)
VerdictsAgree ==
  (phase = "ended" /\ ~torn) =>
    /\ written = "passed" => exit = "zero"
    /\ (exit = "zero" /\ lane.code = "reported") => written = "passed"
====
