---- MODULE UiLanes ----
(***************************************************************************)
(* The scenarios that drive the client's windows, and those that launch it   *)
(* to look at what a launch leaves behind: the *-ui-e2e.py scripts, the       *)
(* resource smoke, startup diagnostics, local dumps, the package helpers, the *)
(* live-wire sides and the local upload soak.                               *)
(***************************************************************************)
EXTENDS LaneSteps

LOCAL publish == Probe

(* shared-files-ui-e2e.py: the client and a handle on its process.  The report *)
(* is written on the way out of the `try` (not at all on a Ctrl-C), before     *)
(* anything is given back; a client that will not close is killed in silence.  *)
SharedFilesBody == <<Start("app"), Work, Start("handle"), Work>>
DynamicFolderBody == <<Start("app"), Work, Start("handle"), Work>>
MonitoredFolderBody == <<Start("app"), Work, Start("handle"), Work>>
RobustnessBody == <<Start("app"), Work, Start("handle"), Work>>
(* These two close the client and start it again on what it has cached.        *)
TreeRefreshBody == <<Start("app"), Work, Start("handle"), Work, Close("handle"), Close("app")>>
TreeRefreshRelaunch == <<Work, Start("app"), Work, Start("handle"), Work>>
DuplicateReuseBody == <<Start("app"), Work, Start("handle"), Work, Close("handle"), Close("app"),
                        Work, Start("app"), Work, Start("handle"), Work>>
SharedFilesCleanup == <<Report, Raise("handle"), Note("app")>>

(* shared-hash-ui-e2e.py closes or kills the client in the middle of hashing    *)
(* (taskkill's answer is checked), and starts it once or twice more.         *)
InterruptionBody == <<Start("app"), Work, Close("app"), Work, Start("app"), Work, Close("app")>>
InterruptionWarm == Option(<<Work, Start("app"), Work, Close("app")>>)
RepeatedBody == <<Start("app"), Work, Close("app"), Work, Start("app"), Work, Close("app"), Work,
                  Start("app"), Work, Close("app"), Work, Start("app"), Work, Close("app")>>
ReloadInterruptBody == <<Start("app"), Work, Close("app"), Work, Start("app"), Work,
                         Close("app"), Work, Start("app"), Work, Close("app")>>
ReloadDuringBody == <<Start("app"), Work, Close("app"), Work>>
HashCleanup == <<Note("app"), Report>>

(* config-stability-ui-e2e.py: the launch waits for the window before it hands  *)
(* the client over; the stress has three cycles and a last look.              *)
RoundtripBody == Called("app") \o <<Work>> \o Restart("app") \o <<Work>>
StressBody == Called("app") \o <<Work>> \o Restart("app") \o <<Work>> \o Restart("app") \o <<Work>>
              \o Restart("app") \o <<Work, Close("app")>>
ConfigCleanup == <<Note("app"), Report>>

(* startup-diagnostics-scenarios.py, resource-ui-smoke.py for one language.     *)
StartupBody == <<Start("app"), Work>> \o Option(<<Close("app"), Work, Start("app"), Work>>)
StartupCleanup == <<Report, Note("app")>>
LanguageBody == <<Start("app"), Work, Start("dialog"), Work, Close("dialog")>>
LanguageCleanup == <<Note("dialog"), Demote("app"), Report>>

----------------------------------------------------------------------------
(* local-dumps-crash-smoke.py crashes the client, a monitor beside it.         *)
CrashBody == <<Work, Start("app"), Work, Start("procdump"), Work, Close("app"),
               Close("procdump"), Work>>
CrashCleanup == <<Raise("procdump"), Probe, Note("app"), Report, publish>>

(* package-helper-integration.py: client, Arr applications and aMuTorrent; the  *)
(* report is written before any of them is stopped.                          *)
HelperBody == <<Work, Start("app"), Work, Start("prowlarr"), Work, Start("radarr"), Work,
                Start("sonarr"), Work, Start("amutorrent"), Work>>
HelperCleanup == <<Report, Raise("amutorrent"), Probe, Raise("sonarr"), Raise("radarr"),
                   Raise("prowlarr"), OrKill("app")>>

(* converged-live-wire-diff.py, one client after the other; what they saw goes  *)
(* to the caller.                                                           *)
LiveWireRustBody == <<Bare(Work), Bare(Start("rust")), Work>>
LiveWireRustCleanup == <<Raise("rust"), Probe, Report>>
LiveWireMfcBody == <<Start("app"), Work>>
LiveWireMfcCleanup == <<Note("app"), Report>>

(* rust_upload_soak.py: server, seeder and leecher with a metrics sampler each. *)
UploadSoakBody == <<Work>> \o Called("server") \o <<Work, Start("seeder"), Start("leecher"), Work,
  Start("seeder_metrics"), Start("leecher_metrics"), Work>>
UploadSoakCleanup == <<Raise("seeder_metrics"), Raise("leecher_metrics"), Raise("leecher"),
                       Raise("seeder"), Raise("server"), Report>>

UiLanes == [
  shared_files |-> LaneOf(SharedFilesBody, SharedFilesCleanup),
  dynamic_folder |-> LaneOf(DynamicFolderBody, SharedFilesCleanup),
  monitored_folder |-> LaneOf(MonitoredFolderBody, SharedFilesCleanup),
  robustness |-> LaneOf(RobustnessBody, SharedFilesCleanup),
  tree_refresh |-> LaneOf(TreeRefreshBody \o TreeRefreshRelaunch, SharedFilesCleanup),
  duplicate_reuse |-> LaneOf(DuplicateReuseBody, SharedFilesCleanup),
  interruption |-> LaneOf(InterruptionBody \o InterruptionWarm, HashCleanup),
  repeated |-> LaneOf(RepeatedBody, HashCleanup),
  reload_interrupt |-> LaneOf(ReloadInterruptBody, HashCleanup),
  reload_during |-> LaneOf(ReloadDuringBody, HashCleanup),
  roundtrip |-> LaneOf(RoundtripBody, ConfigCleanup),
  config_stress |-> LaneOf(StressBody, ConfigCleanup),
  startup |-> LaneOf(StartupBody, StartupCleanup),
  language |-> LaneOf(LanguageBody, LanguageCleanup),
  crash |-> [LaneOf(CrashBody, CrashCleanup) EXCEPT !.ends = {"passed", "failed"}],
  helper |-> Returning(Inconclusive(LaneOf(HelperBody, HelperCleanup))),
  live_wire_rust |-> [LaneOf(LiveWireRustBody, LiveWireRustCleanup) EXCEPT !.ends = {"running"}],
  live_wire_mfc |-> [LaneOf(LiveWireMfcBody, LiveWireMfcCleanup) EXCEPT !.ends = {"running"}],
  upload_soak |-> Returning(LaneOf(UploadSoakBody, UploadSoakCleanup))]
====
