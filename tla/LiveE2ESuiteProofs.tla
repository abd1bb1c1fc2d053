---- MODULE LiveE2ESuiteProofs ----
(***************************************************************************)
(* The aggregate runner, for any number of suites: what a "passed" stands    *)
(* on, the VPN before a verdict, its restore, and which suites are judged.   *)
(***************************************************************************)
EXTENDS LiveE2ESuite, SequenceTheorems, TLAPS

----------------------------------------------------------------------------
(* The hooks a restore has still to run.                                       *)
CheckBoth == <<"checkConnected", "checkAllowlisted">>
CheckLast == <<"checkAllowlisted">>
RestoreLeft == {RestoreHooks, <<"allowlistEmulebb", "checkConnected", "checkAllowlisted">>,
                CheckBoth, CheckLast, <<>>}
ChecksConfigured == {"checkConnected", "checkAllowlisted"} \subseteq Configured

----------------------------------------------------------------------------
(* Where the run is: a suite that is being handled is one of the selection.    *)
Place ==
  /\ stage \in Stages \ {"next", "publish", "ended"} => suite \in Suites
  /\ stage = "next" => suite <= Count
  /\ raising => stage \in {"restore", "raised"}

(* The restore hooks wait untouched until the child is over; what a check has   *)
(* seen is still so, unless the VPN was changed from outside since.            *)
Inside == {"capture", "launch", "child", "reap", "stop"}
VpnPlan ==
  Hooked => /\ stage \in Inside => todo = RestoreHooks
            /\ stage = "restore" => todo \in RestoreLeft
            /\ stage = "restore" /\ ChecksConfigured /\ ~meddled =>
                 /\ todo = CheckLast => vpn.up
                 /\ todo = <<>> => vpn.up /\ vpn.allowed

(* A suite with hooks owes its restore from the end of its setup to the end of   *)
(* its restore.                                                             *)
Owed == disturbed = "suite" => stage \in Inside \cup {"restore"}

(* A capture that was started is the suite's own, and a profile that passed     *)
(* shows the suite's own samples.                                           *)
CaptureOwned ==
  /\ stage \in {"setup", "capture"} => capture = "none"
  /\ stage \in {"launch", "child", "reap", "stop"} /\ capture = "started" => logger = suite
  /\ stage = "stop" => capture \in {"started", "refused"}
  /\ stage \in {"launch", "child", "reap"} => capture \in {"none", "started", "refused", "failed"}
  /\ stage \in {"launch", "child", "reap"} /\ suite \in Profiled => capture # "none"
  /\ stage \in {"restore", "verdict"} /\ ~raising /\ suite \in Profiled =>
       /\ capture \in {"passed", "failed"}
       /\ capture = "passed" => facts[suite].trace = suite

(* The suites that have been judged are those before the current one, and the   *)
(* current one between its verdict and the next; those after it are untouched. *)
Decided(s) == s < suite \/ (s = suite /\ stage \in {"next", "publish", "ended"})
Judgement ==
  /\ \A s \in Suites : /\ Decided(s) => verdict[s] # "none"
                       /\ ~Decided(s) => verdict[s] = "none"
                       /\ s > suite => facts[s] = Unknown
                       /\ verdict[s] = "passed" => Proven(s)
                       /\ verdict[s] = "failed" => summary = "failed"

(* --fail-fast goes on only while nothing has failed, and a run that is over     *)
(* has come to its last suite or to a failure that it stops at.               *)
Stopping ==
  /\ failFast => \A s \in Suites :
       verdict[s] = "failed" => s = suite /\ stage \in {"publish", "ended"}
  /\ stage \in {"publish", "ended"} =>
       \/ suite = Count
       \/ failFast /\ suite \in Suites /\ verdict[suite] = "failed"

IInv ==
  TypeOK /\ Place /\ VpnPlan /\ VpnBackBeforeVerdict /\ Owed /\ CaptureOwned /\ Judgement /\ Stopping

----------------------------------------------------------------------------
(* The hooks of a setup and of a restore are hooks, and so are those left when   *)
(* the first has run.                                                       *)
LEMMA HookSequences ==
  /\ SetupHooks \in Seq(Hooks) /\ RestoreHooks \in Seq(Hooks) /\ <<>> \in Seq(Hooks)
  /\ \A rest \in Seq(Hooks) : rest # <<>> => Head(rest) \in Hooks /\ Tail(rest) \in Seq(Hooks)
<1>1. SetupHooks \in Seq(Hooks) /\ RestoreHooks \in Seq(Hooks) /\ <<>> \in Seq(Hooks)
  <2>1. CASE scenario = "vpn-off"
    BY <2>1 DEF SetupHooks, RestoreHooks, Hooks
  <2>2. CASE scenario = "not-allowlisted"
    BY <2>2 DEF SetupHooks, RestoreHooks, Hooks
  <2>3. CASE scenario \notin {"vpn-off", "not-allowlisted"}
    <3>1. SetupHooks = <<"connect", "allowlistEmulebb", "checkConnected", "checkAllowlisted">>
      BY <2>3 DEF SetupHooks
    <3> QED
      BY <3>1 DEF RestoreHooks, Hooks
  <2> QED
    BY <2>1, <2>2, <2>3
<1>2. ASSUME NEW rest \in Seq(Hooks), rest # <<>>
      PROVE  Head(rest) \in Hooks /\ Tail(rest) \in Seq(Hooks)
  BY <1>2, HeadTailProperties
<1> QED
  BY <1>1, <1>2

(* A restore runs its hooks one by one.                                        *)
LEMMA RestoreStep ==
  ASSUME NEW rest \in RestoreLeft, rest # <<>>
  PROVE  /\ Tail(rest) \in RestoreLeft
         /\ Tail(rest) = CheckLast => Head(rest) = "checkConnected"
         /\ Tail(rest) = <<>> => rest = CheckLast /\ Head(rest) = "checkAllowlisted"
         /\ Tail(rest) = <<>> \/ Tail(rest) = CheckLast
              => Head(rest) \in {"checkConnected", "checkAllowlisted"}
<1> DEFINE second == <<"allowlistEmulebb", "checkConnected", "checkAllowlisted">>
<1>1. Len(RestoreHooks) = 4 /\ Len(second) = 3 /\ Len(CheckBoth) = 2 /\ Len(CheckLast) = 1
  BY DEF RestoreHooks, CheckBoth, CheckLast
<1>2. Tail(RestoreHooks) = second /\ Tail(second) = CheckBoth /\ Tail(CheckBoth) = CheckLast
      /\ Tail(CheckLast) = <<>>
  BY DEF RestoreHooks, CheckBoth, CheckLast
<1>3. Head(CheckBoth) = "checkConnected" /\ Head(CheckLast) = "checkAllowlisted"
  BY DEF CheckBoth, CheckLast
<1>4. second # <<>> /\ CheckBoth # <<>> /\ CheckLast # <<>> /\ second # CheckLast /\ CheckBoth # CheckLast
  BY <1>1 DEF CheckBoth, CheckLast
<1>5. rest \in {RestoreHooks, second, CheckBoth, CheckLast}
  BY DEF RestoreLeft
<1> HIDE DEF second
<1> QED
  BY <1>2, <1>3, <1>4, <1>5 DEF RestoreLeft, second

----------------------------------------------------------------------------
(* The start: nothing is running, nothing is judged.                            *)
LEMMA InitInv == Init => IInv
<1> SUFFICES ASSUME Init PROVE IInv
  OBVIOUS
<1> USE SuitesAssumption, OptionsAssumption DEF Init
<1>1. TypeOK
  <2>1. 0 \in 0..Count
    OBVIOUS
  <2>2. Unknown \in [exit : {"none", "ok", "bad", "timeout"}, trace : 0..Count, matched : BOOLEAN]
    BY <2>1 DEF Unknown
  <2>3. vpn \in [up : BOOLEAN, allowed : BOOLEAN]
    BY DEF Home
  <2>4. todo \in Seq(Hooks)
    BY HookSequences
  <2> QED
    BY <2>1, <2>2, <2>3, <2>4 DEF TypeOK, Stages, Statuses
<1>2. Place /\ VpnPlan /\ VpnBackBeforeVerdict /\ Owed /\ CaptureOwned
  BY DEF Place, VpnPlan, Inside, VpnBackBeforeVerdict, Owed, CaptureOwned, Stages
<1>3. Judgement /\ Stopping
  BY DEF Judgement, Stopping, Decided, Proven, Suites
<1> QED
  BY <1>1, <1>2, <1>3 DEF IInv

(* Every step keeps the types.                                                 *)
LEMMA TypeStep ==
  ASSUME TypeOK, Place, [Next]_vars
  PROVE  TypeOK'
<1> USE SuitesAssumption, OptionsAssumption
    DEF TypeOK, options, machine, results, history, Stages, Statuses
<1>s. stage \notin {"next", "publish", "ended"} => suite \in Suites
  BY DEF Place
<1>h. \A hook : Effect(hook) \in [up : BOOLEAN, allowed : BOOLEAN]
  BY DEF Effect
<1>u. \A code : code \in {"ok", "bad", "timeout"} =>
        (suite \in Suites => [facts EXCEPT ![suite].exit = code] \in
           [Suites -> [exit : {"none", "ok", "bad", "timeout"}, trace : 0..Count,
                       matched : BOOLEAN]])
  OBVIOUS
<1>1. CASE NextSuite
  <2>1. suite' \in 0..Count
    BY <1>1 DEF NextSuite
  <2>2. todo' \in Seq(Hooks)
    BY <1>1, HookSequences DEF NextSuite
  <2> QED
    BY <1>1, <2>1, <2>2 DEF NextSuite
<1>2. CASE Hook
  <2>1. vpn' \in [up : BOOLEAN, allowed : BOOLEAN] /\ todo' \in Seq(Hooks)
    BY <1>2, <1>h, HookSequences DEF Hook
  <2>2. disturbed' \in {"none", "setup", "suite"}
    BY <1>2 DEF Hook
  <2> QED
    BY <1>2, <2>1, <2>2 DEF Hook
<1>3. CASE HookFails
  BY <1>3, <1>h DEF HookFails
<1>4. CASE SetupDone
  BY <1>4, HookSequences DEF SetupDone
<1>5. CASE NoCapture
  BY <1>5 DEF NoCapture
<1>6. ASSUME NEW ok \in BOOLEAN, StartCapture(ok) PROVE TypeOK'
  BY <1>6, <1>s DEF StartCapture, Suites
<1>7. CASE Launch
  BY <1>7, <1>s, HookSequences DEF Launch
<1>8. ASSUME NEW killed \in BOOLEAN, ChildTimesOut(killed) PROVE TypeOK'
  BY <1>8 DEF ChildTimesOut
<1>9. CASE Reap
  BY <1>9, <1>s, <1>u DEF Reap, Exited
<1>10. ASSUME NEW ok \in BOOLEAN, StopCapture(ok) PROVE TypeOK'
  <2> DEFINE sampled == IF ok THEN logger ELSE 0
  <2>1. sampled \in 0..Count /\ facts' = [facts EXCEPT ![suite].trace = sampled] /\ suite \in Suites
    BY <1>10, <1>s DEF StopCapture
  <2> HIDE DEF sampled
  <2>2. facts' \in [Suites -> [exit : {"none", "ok", "bad", "timeout"}, trace : 0..Count,
                               matched : BOOLEAN]]
    BY <2>1
  <2>3. logger' \in 0..Count
    BY <1>10 DEF StopCapture
  <2> QED
    BY <1>10, <2>2, <2>3 DEF StopCapture
<1>11. CASE RestoreDone
  BY <1>11 DEF RestoreDone
<1>12. ASSUME NEW matched \in BOOLEAN, Verdict(matched) PROVE TypeOK'
  <2>1. StatusOf(matched) \in {"passed", "failed"}
    BY DEF StatusOf
  <2>2. facts' \in [Suites -> [exit : {"none", "ok", "bad", "timeout"}, trace : 0..Count,
                               matched : BOOLEAN]]
    BY <1>12, <1>s DEF Verdict
  <2> QED
    BY <1>12, <2>1, <2>2 DEF Verdict
<1>13. CASE LastSuite \/ Publish
  BY <1>13 DEF LastSuite, Publish
<1>14. ASSUME NEW code \in {"ok", "bad"}, ChildExits(code) PROVE TypeOK'
  BY <1>14, <1>s, <1>u DEF ChildExits, Exited
<1>15. ASSUME NEW s \in Suites, LeftoverExits(s) PROVE TypeOK'
  BY <1>15 DEF LeftoverExits
<1>16. CASE Interrupt
  BY <1>16, <1>s DEF Interrupt, Suites
<1>17. CASE TunnelChanges \/ ChildTouchesVpn
  <2>1. vpn' \in [up : BOOLEAN, allowed : BOOLEAN]
    BY <1>17 DEF TunnelChanges, ChildTouchesVpn
  <2>2. FromOutside
    BY <1>17 DEF TunnelChanges, ChildTouchesVpn
  <2> QED
    BY <2>1, <2>2 DEF FromOutside, Looked
<1>18. CASE UNCHANGED vars
  BY <1>18 DEF vars
<1> QED
  BY <1>1, <1>2, <1>3, <1>4, <1>5, <1>6, <1>7, <1>8, <1>9, <1>10, <1>11, <1>12, <1>13, <1>14,
     <1>15, <1>16, <1>17, <1>18 DEF Next, RunnerStep

(* What the steps are, without the machine's own: for the parts of the            *)
(* invariant that speak of the runner only.                                   *)
Idle == UNCHANGED <<options, stage, suite, todo, raising, capture, facts, verdict, summary>>

LEMMA OutsideSteps ==
  ASSUME [Next]_vars
  PROVE  RunnerStep \/ (\E code \in {"ok", "bad"} : ChildExits(code)) \/ Interrupt
         \/ (Idle /\ logger' = logger)
BY DEF Next, vars, LeftoverExits, TunnelChanges, ChildTouchesVpn, FromOutside, Idle, options, machine,
       results, history

(* Every step keeps the run in its place.                                        *)
LEMMA PlaceStep ==
  ASSUME TypeOK, Place, [Next]_vars
  PROVE  Place'
<1> USE SuitesAssumption
<1>1. CASE NextSuite
  <2>1. suite' = suite + 1 /\ suite' \in Suites /\ stage' = "setup" /\ raising' = raising
    BY <1>1 DEF NextSuite, TypeOK, Suites
  <2> QED
    BY <1>1, <2>1 DEF NextSuite, Place, Stages
<1>2. ASSUME RunnerStep, ~NextSuite
      PROVE  suite' = suite /\ (stage \in {"next", "publish"} => stage' \in {"publish", "ended"})
             /\ (stage' = "next" => stage = "verdict") /\ stage # "ended"
             /\ (raising' = raising) /\ (raising => stage' = "restore" \/ stage' = "raised")
  BY <1>2 DEF RunnerStep, Hook, HookFails, SetupDone, NoCapture, StartCapture, Launch,
              ChildTimesOut, Reap, Exited, StopCapture, RestoreDone, Verdict, LastSuite, Publish,
              Place
<1>3. ASSUME RunnerStep PROVE Place'
  <2>1. CASE ~NextSuite
    <3>1. stage' \in Stages
      BY <1>3, TypeStep DEF TypeOK
    <3>2. suite \in Suites => suite <= Count
      BY DEF Suites
    <3> QED
      BY <1>2, <1>3, <2>1, <3>1, <3>2 DEF Place, Stages, TypeOK
  <2> QED
    BY <1>1, <2>1
<1>4. ASSUME NEW code \in {"ok", "bad"}, ChildExits(code) PROVE Place'
  BY <1>4 DEF ChildExits, Exited, Place, Stages
<1>5. CASE Interrupt
  BY <1>5 DEF Interrupt, Place, Stages
<1>6. CASE Idle
  BY <1>6 DEF Idle, Place
<1> QED
  BY OutsideSteps, <1>3, <1>4, <1>5, <1>6

(* One element or none is what the sequence of a restore has left once            *)
(* checkConnected has run.                                                    *)
LEMMA ChecksLeft == \A rest \in {CheckLast, <<>>} : Len(rest) <= 1
<1>1. Len(CheckLast) = 1 /\ Len(<<>>) = 0
  BY DEF CheckLast
<1> QED
  BY <1>1

(* Every step keeps the restore to its plan, and its checks come last.            *)
LEMMA VpnStep ==
  ASSUME TypeOK, Place, VpnPlan, VpnBackBeforeVerdict, [Next]_vars
  PROVE  VpnPlan' /\ VpnBackBeforeVerdict'
<1> USE DEF VpnPlan, VpnBackBeforeVerdict, Hooked, HookedSuite, ChecksConfigured, Inside, options,
            machine, results, history
<1>1. CASE SetupDone
  BY <1>1 DEF SetupDone, RestoreHooks
<1>2. CASE Hook
  <2>1. CASE stage = "restore" /\ Hooked
    <3>1. todo \in RestoreLeft /\ todo # <<>> /\ todo' = Tail(todo) /\ stage' = "restore"
          /\ UNCHANGED <<scenario, suite>>
      BY <1>2, <2>1 DEF Hook
    <3>2. todo' \in RestoreLeft
      BY <3>1, RestoreStep
    <3>3. ASSUME ChecksConfigured, todo' = CheckLast
          PROVE  vpn'.up
      <4>1. Head(todo) = "checkConnected"
        BY <3>1, <3>3, RestoreStep
      <4> QED
        BY <1>2, <3>3, <4>1 DEF Hook, Confirmed, Effect
    <3>4. ASSUME ChecksConfigured, ~meddled, todo' = <<>>
          PROVE  vpn'.up /\ vpn'.allowed
      <4>1. todo = CheckLast /\ Head(todo) = "checkAllowlisted"
        BY <3>1, <3>4, RestoreStep
      <4> QED
        BY <1>2, <2>1, <3>4, <4>1 DEF Hook, Confirmed, Effect
    <3>5. meddled' = meddled
      BY <1>2 DEF Hook
    <3> QED
      BY <3>1, <3>2, <3>3, <3>4, <3>5
  <2>2. CASE stage = "restore" /\ ~Hooked
    BY <1>2, <2>2 DEF Hook
  <2>3. CASE stage = "setup"
    BY <1>2, <2>3 DEF Hook
  <2> QED
    BY <1>2, <2>1, <2>2, <2>3 DEF Hook
<1>3. CASE RestoreDone
  <2>1. ASSUME stage' = "verdict", Hooked, ChecksConfigured, ~meddled PROVE vpn = Home
    BY <1>3, <2>1 DEF RestoreDone, Home, TypeOK
  <2> QED
    BY <1>3, <2>1 DEF RestoreDone
<1>4. ASSUME NEW ok \in BOOLEAN, NEW code,
             \/ StartCapture(ok) \/ ChildTimesOut(ok) \/ StopCapture(ok)
             \/ Verdict(ok) \/ ChildExits(code) \/ Interrupt \/ Reap
      PROVE  VpnPlan' /\ VpnBackBeforeVerdict'
  <2>1. RestoreHooks \in RestoreLeft /\ RestoreHooks # CheckLast /\ RestoreHooks # <<>>
    <3>1. Len(RestoreHooks) = 4 /\ Len(CheckLast) = 1
      BY DEF RestoreHooks, CheckLast
    <3> QED
      BY <3>1 DEF RestoreLeft
  <2> QED
    BY <1>4, <2>1 DEF StartCapture, ChildTimesOut, StopCapture, Verdict, ChildExits, Interrupt, Reap,
                      Exited
<1>5. CASE NextSuite \/ HookFails \/ Launch \/ NoCapture \/ LastSuite \/ Publish
  BY <1>5 DEF NextSuite, HookFails, Launch, NoCapture, LastSuite, Publish
<1>6. ASSUME NEW s \in Suites, LeftoverExits(s) PROVE VpnPlan' /\ VpnBackBeforeVerdict'
  BY <1>6 DEF LeftoverExits
<1>7. CASE TunnelChanges \/ ChildTouchesVpn
  <2>1. UNCHANGED <<scenario, stage, suite, todo>> /\ meddled' = (meddled \/ Looked)
    BY <1>7 DEF TunnelChanges, ChildTouchesVpn, FromOutside
  <2>2. stage = "verdict" => meddled'
    BY <2>1 DEF Looked
  <2>3. stage = "restore" /\ todo \in {CheckLast, <<>>} => meddled'
    BY <2>1, ChecksLeft DEF Looked
  <2> QED
    BY <2>1, <2>2, <2>3
<1>8. CASE UNCHANGED vars
  BY <1>8 DEF vars
<1> QED
  BY <1>1, <1>2, <1>3, <1>4, <1>5, <1>6, <1>7, <1>8 DEF Next, RunnerStep

(* Every step keeps what is owed to the restore: the finally block is the only     *)
(* way out of a suite's run, and its last hook, or a failing one, clears it.      *)
LEMMA OwedStep ==
  ASSUME Owed, [Next]_vars
  PROVE  Owed'
<1> USE DEF Owed, Inside, options, machine, results, history
<1>1. CASE NextSuite \/ LastSuite \/ Publish
  BY <1>1 DEF NextSuite, LastSuite, Publish
<1>2. CASE Hook \/ HookFails
  BY <1>2 DEF Hook, HookFails
<1>3. CASE SetupDone \/ NoCapture \/ Launch \/ Interrupt
  BY <1>3 DEF SetupDone, NoCapture, Launch, Interrupt
<1>4. ASSUME NEW ok \in BOOLEAN, StartCapture(ok) \/ ChildTimesOut(ok) \/ StopCapture(ok) PROVE Owed'
  BY <1>4 DEF StartCapture, ChildTimesOut, StopCapture
<1>5. ASSUME NEW code, ChildExits(code) \/ Reap PROVE Owed'
  BY <1>5 DEF ChildExits, Reap, Exited
<1>6. CASE RestoreDone
  BY <1>6 DEF RestoreDone
<1>7. ASSUME NEW matched \in BOOLEAN, Verdict(matched) PROVE Owed'
  BY <1>7 DEF Verdict
<1>8. ASSUME NEW s \in Suites, LeftoverExits(s) PROVE Owed'
  BY <1>8 DEF LeftoverExits
<1>9. CASE TunnelChanges \/ ChildTouchesVpn
  BY <1>9 DEF TunnelChanges, ChildTouchesVpn, FromOutside
<1>10. CASE UNCHANGED vars
  BY <1>10 DEF vars
<1> QED
  BY <1>1, <1>2, <1>3, <1>4, <1>5, <1>6, <1>7, <1>8, <1>9, <1>10 DEF Next, RunnerStep

(* Every step keeps the capture the suite's own: what an earlier suite left on    *)
(* was cancelled by the start, and a refused start never passes.               *)
LEMMA CaptureStep ==
  ASSUME TypeOK, Place, CaptureOwned, [Next]_vars
  PROVE  CaptureOwned'
<1> USE DEF CaptureOwned, options, machine, results, history
<1>1. CASE NextSuite \/ Hook \/ HookFails \/ NoCapture \/ Launch \/ LastSuite \/ Publish
  <2>1. CASE NextSuite \/ LastSuite \/ Publish
    BY <2>1 DEF NextSuite, LastSuite, Publish
  <2>2. CASE Hook
    BY <2>2 DEF Hook
  <2>3. CASE HookFails
    BY <2>3 DEF HookFails
  <2>4. CASE NoCapture \/ Launch
    BY <2>4 DEF NoCapture, Launch
  <2> QED
    BY <1>1, <2>1, <2>2, <2>3, <2>4
<1>2. CASE SetupDone
  BY <1>2 DEF SetupDone
<1>3. ASSUME NEW ok \in BOOLEAN, StartCapture(ok) PROVE CaptureOwned'
  BY <1>3 DEF StartCapture
<1>4. ASSUME NEW ok \in BOOLEAN, ChildTimesOut(ok) PROVE CaptureOwned'
  BY <1>4 DEF ChildTimesOut
<1>5. ASSUME NEW code, ChildExits(code) \/ Reap PROVE CaptureOwned'
  BY <1>5 DEF ChildExits, Reap, Exited
<1>6. ASSUME NEW ok \in BOOLEAN, StopCapture(ok) PROVE CaptureOwned'
  <2>1. stage = "stop" /\ suite \in Suites /\ facts \in [Suites -> [exit : {"none", "ok", "bad", "timeout"},
                                                 trace : 0..Count, matched : BOOLEAN]]
    BY <1>6 DEF StopCapture, Place, Stages, TypeOK
  <2>2. ok => facts'[suite].trace = logger
    BY <1>6, <2>1 DEF StopCapture
  <2>3. capture' = "passed" => ok /\ capture = "started"
    BY <1>6 DEF StopCapture
  <2> QED
    BY <1>6, <2>1, <2>2, <2>3 DEF StopCapture
<1>7. CASE RestoreDone
  BY <1>7 DEF RestoreDone
<1>8. ASSUME NEW matched \in BOOLEAN, Verdict(matched) PROVE CaptureOwned'
  BY <1>8 DEF Verdict
<1>9. CASE Interrupt
  BY <1>9 DEF Interrupt
<1>10. ASSUME NEW s \in Suites, LeftoverExits(s) PROVE CaptureOwned'
  BY <1>10 DEF LeftoverExits
<1>11. CASE TunnelChanges \/ ChildTouchesVpn
  BY <1>11 DEF TunnelChanges, ChildTouchesVpn, FromOutside
<1>12. CASE UNCHANGED vars
  BY <1>12 DEF vars
<1> QED
  BY <1>1, <1>2, <1>3, <1>4, <1>5, <1>6, <1>7, <1>8, <1>9, <1>10, <1>11, <1>12 DEF Next, RunnerStep

(* The verdict on the current suite: "passed" only with all of its evidence.      *)
LEMMA VerdictProves ==
  ASSUME IInv, NEW matched \in BOOLEAN, Verdict(matched)
  PROVE  /\ suite \in Suites /\ verdict[suite] = "none"
         /\ verdict' = [verdict EXCEPT ![suite] = StatusOf(matched)]
         /\ \A s \in Suites \ {suite} : facts'[s] = facts[s]
         /\ StatusOf(matched) \in {"passed", "failed"}
         /\ StatusOf(matched) = "passed" => Proven(suite)'
         /\ StatusOf(matched) = "failed" => summary' = "failed"
         /\ StatusOf(matched) = "passed" => summary' = summary
<1>1. stage = "verdict" /\ suite \in Suites /\ ~raising
  BY DEF Verdict, IInv, Place, Stages
<1>2. verdict[suite] = "none"
  BY <1>1 DEF IInv, Judgement, Decided, Suites
<1>3. facts \in [Suites -> [exit : {"none", "ok", "bad", "timeout"}, trace : 0..Count,
                            matched : BOOLEAN]]
  BY DEF IInv, TypeOK
<1>4. /\ facts'[suite].exit = facts[suite].exit
      /\ facts'[suite].trace = facts[suite].trace
      /\ facts'[suite].matched = matched
      /\ \A s \in Suites \ {suite} : facts'[s] = facts[s]
  BY <1>1, <1>3 DEF Verdict
<1>5. StatusOf(matched) \in {"passed", "failed"}
  BY DEF StatusOf
<1>6. ASSUME StatusOf(matched) = "passed"
      PROVE  Proven(suite)'
  <2>1. facts[suite].exit = "ok" /\ capture # "failed" /\ (suite \in Probed => matched)
    BY <1>6 DEF StatusOf
  <2>2. suite \in Profiled => facts[suite].trace = suite
    BY <1>1, <2>1 DEF IInv, CaptureOwned
  <2>3. suite' = suite
    BY DEF Verdict
  <2> QED
    BY <1>4, <2>1, <2>2, <2>3 DEF Proven
<1> QED
  BY <1>1, <1>2, <1>4, <1>5, <1>6 DEF Verdict

(* Judgements stand on what was known of their suite, which no later step alters. *)
LEMMA JudgementStep ==
  ASSUME IInv, [Next]_vars
  PROVE  Judgement' /\ Stopping'
<1> USE SuitesAssumption
<1> USE DEF options, machine, results, history
<1>f. facts \in [Suites -> [exit : {"none", "ok", "bad", "timeout"}, trace : 0..Count,
                            matched : BOOLEAN]]
      /\ verdict \in [Suites -> Statuses] /\ suite \in 0..Count
  BY DEF IInv, TypeOK
<1>1. CASE NextSuite
  <2>1. suite' = suite + 1 /\ UNCHANGED <<facts, verdict, summary, failFast>> /\ stage = "next"
        /\ stage' = "setup"
    BY <1>1 DEF NextSuite
  <2>2. \A s \in Suites : Decided(s)' <=> Decided(s)
    BY <1>f, <2>1 DEF Decided, Suites
  <2>3. \A s \in Suites : s > suite' => s > suite
    BY <1>f, <2>1 DEF Suites
  <2>4. Judgement'
    BY <2>1, <2>2, <2>3 DEF IInv, Judgement, Proven
  <2>5. failFast => \A s \in Suites : verdict[s] # "failed"
    BY <2>1 DEF IInv, Stopping
  <2> QED
    BY <2>1, <2>4, <2>5 DEF Stopping
<1>2. ASSUME NEW ok \in BOOLEAN, StopCapture(ok) \/ Reap \/ \E code \in {"ok", "bad"} : ChildExits(code)
      PROVE  Judgement' /\ Stopping'
  <2>1. stage \in {"stop", "reap", "child"} /\ stage' \in {"stop", "restore"} /\ suite \in Suites
        /\ UNCHANGED <<suite, verdict, summary, failFast>>
    BY <1>2 DEF StopCapture, Reap, ChildExits, Exited, IInv, Place, Stages
  <2>2. \A s \in Suites \ {suite} : facts'[s] = facts[s]
    BY <1>2, <1>f DEF StopCapture, Reap, ChildExits, Exited
  <2>3. \A s \in Suites : Decided(s)' <=> Decided(s)
    BY <2>1 DEF Decided
  <2>4. verdict[suite] = "none" /\ ~(suite > suite)
    BY <1>f, <2>1 DEF IInv, Judgement, Decided, Suites
  <2>5. Judgement'
    BY <2>1, <2>2, <2>3, <2>4 DEF IInv, Judgement, Proven
  <2> QED
    BY <2>1, <2>5 DEF IInv, Stopping
<1>3. ASSUME NEW matched \in BOOLEAN, Verdict(matched)
      PROVE  Judgement' /\ Stopping'
  <2>1. stage = "verdict" /\ stage' \in {"next", "publish"} /\ UNCHANGED <<suite, failFast>>
        /\ (stage' = "publish" <=> StatusOf(matched) = "failed" /\ failFast)
    BY <1>3 DEF Verdict
  <2>2. \A s \in Suites : Decided(s)' <=> Decided(s) \/ s = suite
    BY <2>1 DEF Decided
  <2>3. \A s \in Suites : verdict'[s] = IF s = suite THEN StatusOf(matched) ELSE verdict[s]
    BY <1>3, <1>f, VerdictProves
  <2>4. \A s \in Suites : s > suite => s # suite
    BY <1>f DEF Suites
  <2>5. Judgement'
    <3> SUFFICES ASSUME NEW s \in Suites
                 PROVE  (/\ Decided(s) => verdict[s] # "none"
                         /\ ~Decided(s) => verdict[s] = "none"
                         /\ s > suite => facts[s] = Unknown
                         /\ verdict[s] = "passed" => Proven(s)
                         /\ verdict[s] = "failed" => summary = "failed")'
      BY DEF Judgement
    <3>1. CASE s = suite
      BY <1>3, <2>1, <2>2, <2>3, <2>4, <3>1, VerdictProves
    <3>2. CASE s # suite
      <4>1. facts'[s] = facts[s] /\ (summary = "failed" => summary' = "failed")
        BY <1>3, <3>2, VerdictProves
      <4> QED
        BY <2>1, <2>2, <2>3, <3>2, <4>1 DEF IInv, Judgement, Proven
    <3> QED
      BY <3>1, <3>2
  <2>6. Stopping'
    <3>1. failFast => \A s \in Suites : verdict[s] # "failed"
      BY <2>1 DEF IInv, Stopping
    <3> QED
      BY <1>3, <2>1, <2>3, <3>1, VerdictProves DEF Stopping
  <2> QED
    BY <2>5, <2>6
<1>4. CASE LastSuite \/ Publish
  <2>1. UNCHANGED <<facts, verdict, summary, failFast, suite>> /\ stage' \in {"publish", "ended"}
        /\ stage \in {"next", "publish"} /\ (stage = "next" => suite = Count)
    BY <1>4 DEF LastSuite, Publish
  <2>2. \A s \in Suites : Decided(s)' <=> Decided(s)
    BY <2>1 DEF Decided
  <2>3. Judgement'
    BY <2>1, <2>2 DEF IInv, Judgement, Proven
  <2>4. failFast => \A s \in Suites : verdict[s] = "failed" => s = suite
    BY DEF IInv, Stopping
  <2> QED
    BY <2>1, <2>3, <2>4 DEF IInv, Stopping
<1>5. ASSUME NEW ok \in BOOLEAN,
             \/ Hook \/ HookFails \/ SetupDone \/ NoCapture \/ StartCapture(ok)
             \/ Launch \/ ChildTimesOut(ok) \/ RestoreDone \/ Interrupt
      PROVE  Judgement' /\ Stopping'
  <2>1. UNCHANGED <<facts, verdict, summary, failFast, suite>>
        /\ stage \notin {"next", "publish", "ended"} /\ stage' \notin {"next", "publish", "ended"}
    BY <1>5 DEF Hook, HookFails, SetupDone, NoCapture, StartCapture, Launch, ChildTimesOut,
                RestoreDone, Interrupt
  <2>2. \A s \in Suites : Decided(s)' <=> Decided(s)
    BY <2>1 DEF Decided
  <2> QED
    BY <2>1, <2>2 DEF IInv, Judgement, Proven, Stopping
<1>6. CASE Idle
  <2>1. UNCHANGED <<facts, verdict, summary, failFast, suite, stage>>
    BY <1>6 DEF Idle
  <2>2. \A s \in Suites : Decided(s)' <=> Decided(s)
    BY <2>1 DEF Decided
  <2> QED
    BY <2>1, <2>2 DEF IInv, Judgement, Proven, Stopping
<1> QED
  BY <1>1, <1>2, <1>3, <1>4, <1>5, <1>6, OutsideSteps DEF RunnerStep

LEMMA Inductive == Spec => []IInv
<1>1. IInv /\ [Next]_vars => IInv'
  BY TypeStep, PlaceStep, VpnStep, OwedStep, CaptureStep, JudgementStep DEF IInv
<1> QED
  BY <1>1, InitInv, PTL DEF Spec

----------------------------------------------------------------------------
(* Every variable of the runner keeps its type, for any number of suites.          *)
THEOREM TypeCorrect == Spec => []TypeOK
<1>1. IInv => TypeOK
  BY DEF IInv
<1> QED
  BY <1>1, Inductive, PTL

(* A suite is called passed only on evidence of its own, and so is an aggregate:   *)
(* the clean exit, the samples of its own capture, the expected address.         *)
THEOREM PassedOnEvidence == Spec => []PassedIsProven
<1>1. IInv => PassedIsProven
  <2> SUFFICES ASSUME IInv PROVE PassedIsProven
    OBVIOUS
  <2>1. \A s \in Suites : verdict[s] = "passed" => Proven(s)
    BY DEF IInv, Judgement
  <2>2. ASSUME stage = "ended", summary = "passed", NEW s \in Suites
        PROVE  Proven(s)
    <3>1. \A t \in Suites : verdict[t] # "failed"
      BY <2>2 DEF IInv, Judgement
    <3>2. suite = Count
      BY <2>2, <3>1 DEF IInv, Stopping
    <3>3. s < suite \/ s = suite
      BY <3>2, SuitesAssumption DEF Suites
    <3>4. verdict[s] # "none" /\ verdict[s] \in Statuses
      BY <2>2, <3>3 DEF IInv, TypeOK, Judgement, Decided
    <3> QED
      BY <2>1, <3>1, <3>4 DEF Statuses
  <2> QED
    BY <2>1, <2>2 DEF PassedIsProven
<1> QED
  BY <1>1, Inductive, PTL

(* A guarded suite is judged with the VPN up and the application allowlisted,       *)
(* unless something changed the VPN after the restore's checks had looked.        *)
THEOREM VpnIsBack == Spec => []VpnBackBeforeVerdict
<1>1. IInv => VpnBackBeforeVerdict
  BY DEF IInv
<1> QED
  BY <1>1, Inductive, PTL

(* Once its setup is over, no suite is left, by whatever exception, before its       *)
(* restore hooks have run to the last or to one that failed.                      *)
THEOREM RestoreIsTried == Spec => []RestoreAlwaysTried
<1>1. IInv => RestoreAlwaysTried
  BY DEF IInv, Owed, Inside, RestoreAlwaysTried
<1> QED
  BY <1>1, Inductive, PTL

(* A run that is over has judged every suite, or stopped at its only failure        *)
(* because it was asked to.                                                     *)
THEOREM AllSuitesJudged == Spec => []NoSuiteSkipped
<1>1. IInv => NoSuiteSkipped
  <2> SUFFICES ASSUME IInv, stage = "ended"
               PROVE  NoSuiteSkipped
    BY DEF NoSuiteSkipped
  <2> DEFINE judged == {s \in Suites : verdict[s] # "none"}
             failed == {s \in Suites : verdict[s] = "failed"}
  <2>1. \A s \in Suites : (s < suite \/ s = suite) <=> verdict[s] # "none"
    BY DEF IInv, Judgement, Decided
  <2>2. suite \in 0..Count
    BY DEF IInv, TypeOK
  <2>3. judged = 1..suite
    BY <2>1, <2>2, SuitesAssumption DEF Suites
  <2>4. ASSUME failFast, failed # {}
        PROVE  failed = {suite} /\ \A s \in Suites : s > suite => facts[s] = Unknown
    BY <2>4 DEF IInv, Stopping, Judgement
  <2>5. ASSUME ~(failFast /\ failed # {})
        PROVE  judged = Suites
    <3>1. suite = Count
      BY <2>5 DEF IInv, Stopping
    <3> QED
      BY <2>3, <3>1 DEF Suites
  <2> HIDE DEF judged, failed
  <2>6. IF failFast /\ failed # {}
        THEN failed = {suite} /\ judged = 1..suite /\ \A s \in Suites : s > suite => facts[s] = Unknown
        ELSE judged = Suites
    BY <2>3, <2>4, <2>5
  <2> QED
    BY <2>6 DEF NoSuiteSkipped, judged, failed
<1> QED
  BY <1>1, Inductive, PTL
====
