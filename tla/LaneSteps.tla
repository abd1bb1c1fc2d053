---- MODULE LaneSteps ----
(***************************************************************************)
(* The vocabulary in which the lanes' functions are written down.  A lane   *)
(* is a function of a script that takes resources one after the other       *)
(* (clients, servers, monitors, volumes, settings of the machine or of an   *)
(* Arr application), works, and gives them back in a `finally` block.       *)
(***************************************************************************)
EXTENDS Sequences

(* A step of the body: what it does, to which resource, how many steps an    *)
(* option leaves out from this one on, and which handler the function has    *)
(* around it: "finally" for its try/except/finally, "rescue" for an `except` *)
(* that gives the base back, "phase" for a callee whose own `except` notes   *)
(* every error, the failed close of its `finally` included, and lets the     *)
(* lane go on to the next one, "bare" for none.                             *)
Step(op, res) == [op |-> op, res |-> res, skip |-> 0, under |-> "finally"]
Work == Step("work", "")
Start(r) == Step("start", r)    \* started and stored at once
Spawn(r) == Step("spawn", r)    \* started inside a callee that can still raise
Adopt(r) == Step("adopt", r)    \* the callee returned: the lane stores it
Close(r) == Step("close", r)    \* raises unless the resource is gone
Kill(r) == Step("kill", r)      \* forced, and its result is not looked at
Leave == Step("leave", "")      \* a way out in the middle, with a passed report
Option(steps) == [steps EXCEPT ![1].skip = Len(steps)]
Bare(s) == [s EXCEPT !.under = "bare"]
Rescued(s) == [s EXCEPT !.under = "rescue"]
InPhase(steps) == [i \in DOMAIN steps |-> [steps[i] EXCEPT !.under = "phase"]]

(* What several lanes do in one call.                                       *)
Called(r) == <<Spawn(r), Adopt(r)>>
Restart(r) == <<Close(r), Spawn(r), Adopt(r)>>
LaunchPhase(r) == <<Work>> \o InPhase(<<Start(r), Work, Close(r)>>)

(* An entry of the teardown: it releases a resource the lane has stored; an  *)
(* exception is "noted" in the report, "demotes" a passed report to failed,  *)
(* "fails" whatever the report said, or "raises" out of the block; "forced"  *)
(* when the handler kills what would not close, with nothing around the kill. *)
Release(r, error) == [op |-> "release", res |-> r, error |-> error, keep |-> "never"]
Note(r) == Release(r, "noted")
Demote(r) == Release(r, "demotes")
Fail(r) == Release(r, "fails")
Raise(r) == Release(r, "raises")
OrKill(r) == Release(r, "forced")
(* --keep-running: the entry is left out, always or after a pass only.       *)
KeptAfterPass(e) == [e EXCEPT !.keep = "passed"]
KeptAlways(e) == [e EXCEPT !.keep = "always"]
(* What else the block does: work that may raise out of it, a look at what   *)
(* the run left behind that may fail the report, and the report itself.     *)
Entry(op) == [op |-> op, res |-> "", error |-> "raises", keep |-> "never"]
Probe == Entry("probe")
Audit == Entry("audit")
Report == Entry("report")

(* A lane.  errors: the statuses `except` may give the report; ends: those   *)
(* the body may reach at its end; code: the exit code is fixed where the     *)
(* body or the handler returns ("returned") or follows the final report      *)
(* ("reported"); base: what the other resources live on.                    *)
LaneOf(body, cleanup) ==
  [body |-> body, cleanup |-> cleanup, errors |-> {"failed"}, ends |-> {"passed"},
   code |-> "reported", base |-> {}]
Returning(l) == [l EXCEPT !.code = "returned"]
On(base, l) == [l EXCEPT !.base = base]
Inconclusive(l) == [l EXCEPT !.errors = @ \cup {"inconclusive"}]
====
