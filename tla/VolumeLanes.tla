---- MODULE VolumeLanes ----
(***************************************************************************)
(* The lanes that put a profile, or what it shares, on a virtual disk of     *)
(* their own: the vhd-*, shared-cache-*, disk-space, category and UNC         *)
(* scripts, and the VHD check of the VM profile smoke.  A case has its own    *)
(* `try` inside the `with` of the volume; one case stands for the several      *)
(* that follow each other, and an exception that ends the case ends the run    *)
(* as failed, as it does in the code once the other cases are through.         *)
(* Where the verdict is only taken after the volume, its failure demotes it.  *)
(***************************************************************************)
EXTENDS LaneSteps

LOCAL publish == Probe
LOCAL dumps == Probe   \* collect_local_dump_files()

(* disk-space-guard-live.py                                                 *)
DiskSpaceBody == <<Start("volume"), Work, Start("app"), Work>>
DiskSpaceCleanup == <<Note("app"), Note("volume"), dumps, Report, publish>>

(* category-incoming-path-matrix.py: a category and a transfer in the client.  *)
CategoryBody == <<Start("volume"), Work, Start("app"), Work, Start("records"), Work>>
CategoryCleanup == <<Fail("records"), Note("app"), Demote("volume"), dumps, Report, publish>>

(* unc-mapped-drive-identity.py: a share and a drive letter on the volume.      *)
UncShare == Called("share")
UncBody == <<Start("app"), Work, Close("app"), Work, Start("app"), Work>>
UncCleanup == <<Note("app"), Note("share"), Note("volume"), Audit, dumps, Report, publish>>

(* shared-cache-volume-identity.py; shared-cache-invalidation.py, whose three     *)
(* phases launch a client each on one profile: run_launch_phase() only notes a    *)
(* close that failed.                                                       *)
IdentityBody == <<Start("volume"), Work, Start("app"), Work, Close("app"), Start("app"), Work>>
IdentityCleanup == <<Note("app"), Note("volume"), dumps, Report, publish>>
InvalidationBody ==
  <<Start("volume"), Work>> \o LaunchPhase("app") \o LaunchPhase("app") \o <<Work>> \o LaunchPhase("app")
InvalidationCleanup == <<Note("app"), Note("volume"), Audit, dumps, Report, publish>>

(* vhd-profile-isolation.py; vhd-long-path-special-names.py: a cold and a warm  *)
(* phase on the drive's profile, then both on the folder mount's.              *)
IsolationBody == <<Start("volume"), Work, Start("app"), Work, Close("app"), Work>>
IsolationCleanup == <<Note("app"), Demote("volume"), Report, publish>>
LongPathBody ==
  <<Start("volume"), Work>> \o LaunchPhase("app") \o LaunchPhase("app")
    \o LaunchPhase("app on mount") \o LaunchPhase("app on mount")
LongPathCleanup ==
  <<Note("app"), Note("app on mount"), Note("volume"), Audit, dumps, Report, publish>>

(* vhd-profile-durability.py: the client is made to crash; then the same disk   *)
(* is attached again.                                                       *)
CrashedBody == <<Start("volume"), Work, Start("app"), Work, Close("app"), Work>>
RemountedBody == <<Start("volume"), Work, Start("app"), Work, Close("app"), Work>>
DurabilityCleanup == <<Note("app"), Demote("volume"), Report, publish>>

(* vhd_profile_launch_check(): everything before the wait is bare.            *)
VhdCheckBody == <<Bare(Work), Bare(Start("volume")), Bare(Work), Bare(Start("app")), Work>>
VhdCheckCleanup == <<Raise("app"), Raise("volume"), Report>>

LOCAL OnVolume(body, cleanup) ==
  On({"volume"}, [LaneOf(body, cleanup) EXCEPT !.ends = {"passed", "failed"}])
VolumeLanes == [
  disk_space |-> OnVolume(DiskSpaceBody, DiskSpaceCleanup),
  category |-> OnVolume(CategoryBody, CategoryCleanup),
  unc |-> OnVolume(<<Start("volume"), Work>> \o UncShare \o UncBody, UncCleanup),
  volume_identity |-> OnVolume(IdentityBody, IdentityCleanup),
  invalidation |-> OnVolume(InvalidationBody, InvalidationCleanup),
  isolation |-> OnVolume(IsolationBody, IsolationCleanup),
  long_path |-> OnVolume(LongPathBody, LongPathCleanup),
  crashed |-> OnVolume(CrashedBody, DurabilityCleanup),
  remounted |-> OnVolume(RemountedBody, DurabilityCleanup),
  vhd_check |-> OnVolume(VhdCheckBody, VhdCheckCleanup)]
====
