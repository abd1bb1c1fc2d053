---- MODULE LiveE2ESuite ----
(***************************************************************************)
(* The aggregate live E2E runner (run_live_e2e_suite of                    *)
(* emule_test_harness/live_e2e_suite.py): for one selected suite after the *)
(* other it puts the VPN into the scenario's state, runs the child under a *)
(* wall-clock limit and optionally under an ETW CPU capture, puts the VPN   *)
(* back, and decides; then it publishes the aggregate.  The VPN, the        *)
(* machine's only kernel logger and a child that survives its termination  *)
(* outlive the suite that touched them; the tunnel changes by itself at any *)
(* time, and a child that runs, or survives, may change the VPN too.        *)
(***************************************************************************)
EXTENDS Integers, Sequences, FiniteSets

CONSTANTS
  Count,       \* number of selected suites
  Guarded,     \* suites with accepts_vpn_guard_profile
  Profiled,    \* suites run under a CPU capture
  Probed,      \* suites whose public IP is compared (VPN scope, hide.me, CIDRs)
  Scenarios,   \* the values vpn_guard_scenario may have
  Configured   \* hooks the VPN guard configuration has a command for

Suites == 1..Count
Hooks == {"connect", "disconnect", "allowlistEmulebb", "removeAllowlistEmulebb",
          "checkConnected", "checkDisconnected", "checkAllowlisted", "checkNotAllowlisted"}

ASSUME SuitesAssumption ==
  /\ Count \in Nat
  /\ Guarded \subseteq Suites /\ Profiled \subseteq Suites /\ Probed \subseteq Suites
ASSUME OptionsAssumption ==
  /\ Scenarios \subseteq {"success", "off", "vpn-off", "not-allowlisted"}
  /\ Configured \subseteq Hooks

VARIABLES
  scenario,   \* vpn_guard_scenario
  failFast,   \* --fail-fast
  stage,      \* where the run is
  suite,      \* the current suite, 0 before the first
  todo,       \* hooks of the running sequence still to run
  vpn,        \* the machine's VPN: tunnel up, application allowlisted
  raising,    \* an exception is passing through the finally block
  logger,     \* the suite that started the kernel logger's session, 0 if it is off
  capture,    \* what start_cpu_profile came to for the current suite
  alive,      \* suites whose child process runs
  facts,      \* suite -> exit, whose samples its trace has, public IP matched
  verdict,    \* suite -> status
  summary,    \* summary["status"]
  disturbed,  \* history: what the VPN still owes a restore: "none", a change by the
              \* setup's hooks, or the whole run of a suite that has hooks
  meddled     \* history: the VPN was changed from outside after checkConnected looked

machine == <<vpn, logger, alive>>
results == <<facts, verdict, summary>>
options == <<scenario, failFast>>
history == <<disturbed, meddled>>
vars == <<options, stage, suite, todo, raising, capture, machine, results, history>>

Home == [up |-> TRUE, allowed |-> TRUE]
Unknown == [exit |-> "none", trace |-> 0, matched |-> FALSE]

Init ==
  /\ scenario \in Scenarios /\ failFast \in BOOLEAN
  /\ stage = "next" /\ suite = 0 /\ todo = <<>> /\ raising = FALSE /\ capture = "none"
  /\ vpn = Home /\ logger = 0 /\ alive = {}
  /\ facts = [s \in Suites |-> Unknown] /\ verdict = [s \in Suites |-> "none"]
  /\ summary = "passed" /\ disturbed = "none" /\ meddled = FALSE

----------------------------------------------------------------------------
(* setup_vpn_guard_campaign_scenario and restore_vpn_guard_campaign_scenario. *)
HookedSuite(s) == s \in Guarded /\ scenario # "off"
Hooked == HookedSuite(suite)

SetupHooks ==
  CASE scenario = "vpn-off" -> <<"removeAllowlistEmulebb", "disconnect", "checkDisconnected">>
    [] scenario = "not-allowlisted" ->
         <<"connect", "removeAllowlistEmulebb", "checkConnected", "checkNotAllowlisted">>
    [] OTHER -> <<"connect", "allowlistEmulebb", "checkConnected", "checkAllowlisted">>

RestoreUnchecked == <<"connect", "allowlistEmulebb">>
RestoreHooks == <<"connect", "allowlistEmulebb", "checkConnected", "checkAllowlisted">>

Effect(hook) ==
  CASE hook = "connect" -> [vpn EXCEPT !.up = TRUE]
    [] hook = "disconnect" -> [vpn EXCEPT !.up = FALSE]
    [] hook = "allowlistEmulebb" -> [vpn EXCEPT !.allowed = TRUE]
    [] hook = "removeAllowlistEmulebb" -> [vpn EXCEPT !.allowed = FALSE]
    [] OTHER -> vpn

Confirmed(hook) ==
  /\ hook = "checkConnected" => vpn.up
  /\ hook = "checkDisconnected" => ~vpn.up
  /\ hook = "checkAllowlisted" => vpn.allowed
  /\ hook = "checkNotAllowlisted" => ~vpn.allowed

(* One hook: a hook without a command is skipped; a command may do nothing,   *)
(* and a check that succeeds has seen what it asks for.                      *)
Hook ==
  /\ stage \in {"setup", "restore"} /\ todo # <<>>
  /\ IF Head(todo) \in Configured
     THEN Confirmed(Head(todo)) /\ vpn' \in {vpn, Effect(Head(todo))}
     ELSE vpn' = vpn
  /\ todo' = Tail(todo)
  /\ disturbed' = IF stage = "setup" /\ vpn' # vpn THEN "setup" ELSE disturbed
  /\ UNCHANGED <<options, stage, suite, raising, capture, logger, alive, results, meddled>>

(* A command fails, times out or is cut by Ctrl-C, with or without its effect: *)
(* the sequence is abandoned and nothing catches the error; the setup is      *)
(* outside the try.  A restore that fails has been tried.                    *)
HookFails ==
  /\ stage \in {"setup", "restore"} /\ todo # <<>> /\ Head(todo) \in Configured
  /\ vpn' \in {vpn, Effect(Head(todo))}
  /\ stage' = "raised"
  /\ disturbed' = IF stage = "restore" THEN "none" ELSE disturbed
  /\ UNCHANGED <<options, suite, todo, raising, capture, logger, alive, results, meddled>>

(* The VPN changes from outside the runner, whatever the runner is doing.      *)
Looked == stage = "verdict" \/ (stage = "restore" /\ Len(todo) <= 1)
FromOutside ==
  /\ meddled' = (meddled \/ Looked)
  /\ UNCHANGED <<options, stage, suite, todo, raising, capture, logger, alive, results, disturbed>>

(* The tunnel goes down, or comes back, by itself.                           *)
TunnelChanges == vpn' = [vpn EXCEPT !.up = ~vpn.up] /\ FromOutside

(* A child runs hooks of its own (rest-api-smoke.py does), and one that has    *)
(* survived its termination goes on doing so.                                *)
ChildTouchesVpn ==
  /\ alive # {}
  /\ vpn' \in [up : BOOLEAN, allowed : BOOLEAN]
  /\ FromOutside

----------------------------------------------------------------------------
NextSuiteUnbounded ==
  /\ stage = "next"
  /\ suite' = suite + 1
  /\ stage' = "setup"
  /\ todo' = IF HookedSuite(suite') THEN SetupHooks ELSE <<>>
  /\ capture' = "none" /\ meddled' = FALSE
  /\ UNCHANGED <<options, raising, machine, results, disturbed>>

NextSuite ==
  /\ stage = "next" /\ suite < Count
  /\ suite' = suite + 1
  /\ stage' = "setup"
  /\ todo' = IF HookedSuite(suite') THEN SetupHooks ELSE <<>>
  /\ capture' = "none" /\ meddled' = FALSE
  /\ UNCHANGED <<options, raising, machine, results, disturbed>>

(* From here on the finally block runs the restore hooks, however it is left.  *)
SetupDone ==
  /\ stage = "setup" /\ todo = <<>>
  /\ stage' = IF suite \in Profiled THEN "capture" ELSE "launch"
  /\ todo' = IF Hooked THEN RestoreHooks ELSE <<>>
  /\ disturbed' = IF Hooked THEN "suite" ELSE "none"
  /\ UNCHANGED <<options, suite, raising, capture, machine, results, meddled>>

(* xperf, or the symbols, are missing: the child runs, its profile has failed. *)
NoCapture ==
  /\ stage = "capture"
  /\ capture' = "failed" /\ stage' = "launch"
  /\ UNCHANGED <<options, suite, todo, raising, machine, results, history>>

(* start_cpu_profile: a session that exists is cancelled and the start tried  *)
(* again; either command may fail, with or without its effect.               *)
StartCaptureReusing(ok) ==
  /\ stage = "capture"
  /\ logger' \in (IF logger # 0 THEN {logger} ELSE IF ok THEN {suite} ELSE {0, suite})
  /\ capture' = IF ok THEN "started" ELSE "refused"
  /\ stage' = "launch"
  /\ UNCHANGED <<options, suite, todo, raising, vpn, alive, results, history>>

StartCapture(ok) ==
  /\ stage = "capture"
  /\ logger' \in (IF ok THEN {suite} ELSE {logger, 0, suite})
  /\ capture' = IF ok THEN "started" ELSE "refused"
  /\ stage' = "launch"
  /\ UNCHANGED <<options, suite, todo, raising, vpn, alive, results, history>>

(* run_suite_command.                                                       *)
Exited(code) ==
  /\ facts' = [facts EXCEPT ![suite].exit = code]
  /\ stage' = IF capture \in {"started", "refused"} THEN "stop" ELSE "restore"

Launch ==
  /\ stage = "launch"
  /\ alive' = alive \cup {suite} /\ stage' = "child"
  /\ UNCHANGED <<options, suite, todo, raising, capture, vpn, logger, results, history>>

ChildExits(code) ==
  /\ stage = "child" /\ suite \in alive
  /\ alive' = alive \ {suite} /\ Exited(code)
  /\ UNCHANGED <<options, suite, todo, raising, capture, vpn, logger, verdict, summary, history>>

(* The limit passes: terminate_process_tree may be refused or fail, which is   *)
(* only noted, then the child is waited for during ten more seconds.         *)
ChildTimesOut(killed) ==
  /\ stage = "child"
  /\ alive' = IF killed THEN alive \ {suite} ELSE alive
  /\ stage' = "reap"
  /\ UNCHANGED <<options, suite, todo, raising, capture, vpn, logger, results, history>>

ReapForever ==
  /\ stage = "reap" /\ suite \notin alive
  /\ Exited("timeout")
  /\ UNCHANGED <<options, suite, todo, raising, capture, machine, verdict, summary, history>>

Reap ==
  /\ stage = "reap"
  /\ Exited("timeout")
  /\ UNCHANGED <<options, suite, todo, raising, capture, machine, verdict, summary, history>>

LeftoverExits(s) ==
  /\ s \in alive /\ (s # suite \/ stage # "child")
  /\ alive' = alive \ {s}
  /\ UNCHANGED <<options, stage, suite, todo, raising, capture, vpn, logger, results, history>>

(* Ctrl-C, or an exception (a child that cannot be started), inside the try:   *)
(* the restore hooks run; a capture that was on stays on, one that was being  *)
(* started or stopped may have been.                                         *)
InterruptUnrestored ==
  /\ stage \in {"capture", "launch", "child", "reap", "stop"}
  /\ stage' = "raised" /\ raising' = TRUE
  /\ UNCHANGED <<options, suite, todo, capture, machine, results, history>>

Interrupt ==
  /\ stage \in {"capture", "launch", "child", "reap", "stop"}
  /\ stage' = "restore" /\ raising' = TRUE
  /\ logger' \in {logger} \cup (IF stage = "capture" THEN {0, suite} ELSE {})
                        \cup (IF stage = "stop" THEN {0} ELSE {})
  /\ UNCHANGED <<options, suite, todo, capture, vpn, alive, results, history>>

(* stop_cpu_profile and the export, also after a start that was refused.      *)
StopCapture(ok) ==
  /\ stage = "stop" /\ (ok => logger # 0)
  /\ logger' \in (IF ok THEN {0} ELSE {logger, 0})
  /\ facts' = [facts EXCEPT ![suite].trace = IF ok THEN logger ELSE 0]
  /\ capture' \in (IF ok /\ capture = "started" THEN {"passed", "failed"} ELSE {"failed"})
  /\ stage' = "restore"
  /\ UNCHANGED <<options, suite, todo, raising, vpn, alive, verdict, summary, history>>

RestoreDone ==
  /\ stage = "restore" /\ todo = <<>>
  /\ stage' = IF raising THEN "raised" ELSE "verdict"
  /\ disturbed' = "none"
  /\ UNCHANGED <<options, suite, todo, raising, capture, machine, results, meddled>>

----------------------------------------------------------------------------
(* The suite's status: its return code, then the profile, then the public IP. *)
StatusByExit(matched) ==
  IF facts[suite].exit = "ok" THEN "passed" ELSE "failed"

StatusOf(matched) ==
  IF suite \in Probed /\ ~matched THEN "failed"
  ELSE IF facts[suite].exit = "ok" /\ capture # "failed" THEN "passed" ELSE "failed"

VerdictGoingOn(matched) ==
  /\ stage = "verdict"
  /\ facts' = [facts EXCEPT ![suite].matched = matched]
  /\ verdict' = [verdict EXCEPT ![suite] = StatusOf(matched)]
  /\ summary' = IF StatusOf(matched) = "failed" THEN "failed" ELSE summary
  /\ stage' = "next"
  /\ UNCHANGED <<options, suite, todo, raising, capture, machine, history>>

Verdict(matched) ==
  /\ stage = "verdict"
  /\ facts' = [facts EXCEPT ![suite].matched = matched]
  /\ verdict' = [verdict EXCEPT ![suite] = StatusOf(matched)]
  /\ summary' = IF StatusOf(matched) = "failed" THEN "failed" ELSE summary
  /\ stage' = IF StatusOf(matched) = "failed" /\ failFast THEN "publish" ELSE "next"
  /\ UNCHANGED <<options, suite, todo, raising, capture, machine, history>>

LastSuite ==
  /\ stage = "next" /\ suite = Count
  /\ stage' = "publish"
  /\ UNCHANGED <<options, suite, todo, raising, capture, machine, results, history>>

Publish ==
  /\ stage = "publish" /\ stage' = "ended"
  /\ UNCHANGED <<options, suite, todo, raising, capture, machine, results, history>>

----------------------------------------------------------------------------
RunnerStep ==
  \/ NextSuite \/ Hook \/ HookFails \/ SetupDone
  \/ NoCapture \/ \E ok \in BOOLEAN : StartCapture(ok)
  \/ Launch
  \/ \E killed \in BOOLEAN : ChildTimesOut(killed)
  \/ Reap
  \/ \E ok \in BOOLEAN : StopCapture(ok)
  \/ RestoreDone
  \/ \E matched \in BOOLEAN : Verdict(matched)
  \/ LastSuite \/ Publish

Next ==
  \/ RunnerStep
  \/ \E code \in {"ok", "bad"} : ChildExits(code)
  \/ \E s \in Suites : LeftoverExits(s)
  \/ Interrupt \/ TunnelChanges \/ ChildTouchesVpn

Spec == Init /\ [][Next]_vars

(* The runner goes on, its wall-clock limits included; no child has to exit,  *)
(* and nobody has to press Ctrl-C.                                           *)
FairSpec == Spec /\ WF_vars(RunnerStep)

----------------------------------------------------------------------------
Stages == {"next", "setup", "capture", "launch", "child", "reap", "stop", "restore",
           "verdict", "publish", "ended", "raised"}
Statuses == {"none", "passed", "failed"}

TypeOK ==
  /\ scenario \in Scenarios /\ failFast \in BOOLEAN
  /\ stage \in Stages /\ suite \in 0..Count /\ todo \in Seq(Hooks)
  /\ vpn \in [up : BOOLEAN, allowed : BOOLEAN] /\ raising \in BOOLEAN
  /\ logger \in 0..Count /\ alive \subseteq Suites
  /\ capture \in {"none", "started", "refused", "passed", "failed"}
  /\ facts \in [Suites -> [exit : {"none", "ok", "bad", "timeout"}, trace : 0..Count,
                           matched : BOOLEAN]]
  /\ verdict \in [Suites -> Statuses] /\ summary \in Statuses
  /\ disturbed \in {"none", "setup", "suite"} /\ meddled \in BOOLEAN

(* A suite that is judged "passed" stands on evidence of its own: it exited     *)
(* cleanly, was sampled by its own CPU capture where one was asked for (not   *)
(* by a session an earlier suite left on), and used the expected public       *)
(* address where that is compared; an aggregate that passed has only such.    *)
Proven(s) ==
  /\ facts[s].exit = "ok"
  /\ s \in Profiled => facts[s].trace = s
  /\ s \in Probed => facts[s].matched

PassedIsProven ==
  /\ \A s \in Suites : verdict[s] = "passed" => Proven(s)
  /\ stage = "ended" /\ summary = "passed" => \A s \in Suites : Proven(s)

(* Whatever the tunnel, the child and a survivor did to the VPN, and however    *)
(* the child ended, the VPN is up and the application allowlisted when a      *)
(* guarded suite is judged, unless it was changed after the restore's checks  *)
(* had looked: that, the code cannot see.                                    *)
VpnBackBeforeVerdict ==
  (stage = "verdict" /\ Hooked /\ {"checkConnected", "checkAllowlisted"} \subseteq Configured)
    => vpn = Home \/ meddled

(* Once the setup of a suite has come to its end, its restore hooks are run to *)
(* the last, or to one that fails, before the run goes on or is over: also    *)
(* when the capture, the launch or the wait for the child raised, or Ctrl-C.  *)
RestoreAlwaysTried ==
  stage \in {"next", "verdict", "publish", "ended", "raised"} => disturbed # "suite"

(* A run that is over has judged every selected suite, in order, unless       *)
(* --fail-fast asked it to stop at a failure: then that failure is the last   *)
(* suite judged, and no suite after it was started.                          *)
NoSuiteSkipped ==
  stage = "ended" =>
    LET judged == {s \in Suites : verdict[s] # "none"}
        failed == {s \in Suites : verdict[s] = "failed"}
    IN  IF failFast /\ failed # {}
        THEN failed = {suite} /\ judged = 1..suite
             /\ \A s \in Suites : s > suite => facts[s] = Unknown
        ELSE judged = Suites

(* "Restores the operator VPN state after one live-wire suite": no run that    *)
(* has run a suite is over while a change that its setup hooks made to the    *)
(* VPN still waits for the restore hooks.                                    *)
RestoredWhenOver ==
  (stage \in {"ended", "raised"} /\ \E s \in Suites : facts[s].exit # "none")
    => disturbed # "setup"

(* Every run comes to an end, whether or not the children ever exit.          *)
RunEnds == <>(stage \in {"ended", "raised"})
====
