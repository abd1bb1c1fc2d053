---- MODULE AppLanes ----
(***************************************************************************)
(* The lanes around one client, or one client and the Arr applications: the   *)
(* Radarr/Sonarr and Prowlarr scripts, the REST smoke and cold-start ones,    *)
(* shared directories, and the UI and soak lanes.                           *)
(***************************************************************************)
EXTENDS LaneSteps

LOCAL publish == Probe

(* radarr-sonarr-emulebb-live.py: the volume is entered bare; the next checks  *)
(* give it back themselves; the rest of the setup is bare again.             *)
RadarrSetup == Option(<<Bare(Start("volume"))>>) \o <<Bare(Work)>>
               \o <<Rescued(Work), Bare(Work)>>
(* Controllers, a local server and a seed, then the client; each start of a    *)
(* controller waits before it hands its process over.                       *)
RadarrServices == Option(Called("controllers")) \o Option(Called("server"))
                  \o Option(<<Start("seed"), Work>>)
RadarrClient == <<Start("app"), Work>>
(* What it sets up inside the Arr applications: download clients, indexers     *)
(* switched off for the search, a movie and a series.                       *)
RadarrArr == Called("clients") \o <<Work>> \o Called("indexers") \o Called("movies") \o <<Work>>
             \o Called("series") \o <<Work>>
RadarrCleanup == <<Demote("indexers"), Demote("movies"), Demote("series"), Demote("clients"),
  Demote("app"), Demote("seed"), Raise("server"), Raise("controllers"), Demote("volume"),
  Audit, Report, publish>>

ProwlarrBody == <<Work, Start("app"), Work>>
ProwlarrArr == Option(Called("clients")) \o <<Work>>
ProwlarrCleanup == <<Demote("clients"), Demote("app"), Report, publish>>

(* rest-api-smoke.py: a VPN guard scenario changes the machine's VPN, whether   *)
(* or not its setup succeeds, and may end the run as soon as the client has    *)
(* refused to start; the stress phase may restart the client (the lane drops   *)
(* its name for the old one first: one that would not close is not tried       *)
(* again, here it may be, which makes no difference once it was tried).       *)
SmokeLaunch == Option(<<Start("vpn"), Work>>) \o <<Start("app")>> \o Option(<<Leave>>) \o <<Work>>
SmokeSearch == <<Start("search"), Work, Close("search"), Work>>
SmokeRestart == Option(Restart("app")) \o <<Work>>
SmokeCleanup == <<Note("search"), KeptAfterPass(Fail("app")), Fail("vpn"), Report, publish>>

(* rest-cold-start-dump-stress.py: its monitors around the client and the      *)
(* stress phase.                                                            *)
ColdStartLaunch == <<Work>> \o Option(Called("gflags")) \o <<Start("app"), Work>>
ColdStartMonitors == Option(<<Start("dumps")>>) \o Option(<<Start("cpu")>>)
                     \o <<Start("monitor"), Work>>
ColdStartStress == <<Work, Close("cpu"), Work>>
ColdStartCleanup == <<Note("dumps"), Note("cpu"), Note("monitor"), KeptAlways(Demote("app")),
                      Note("gflags"), Audit, Report, publish>>

(* shared-directories-rest-e2e.py closes and relaunches the client to see what *)
(* it has stored; --keep-artifacts spares the fixture.                      *)
SharedSetup == Option(<<Bare(Start("volume"))>>) \o <<Bare(Work)>>
               \o Option(<<Bare(Start("fixture"))>>) \o <<Bare(Work)>>
SharedBody == Called("app") \o <<Work>> \o Restart("app") \o <<Work>>
SharedRestarts == Restart("app") \o <<Work>> \o Option(<<Work>> \o Restart("app") \o <<Work>>)
SharedCleanup == <<Fail("app"), KeptAlways(Fail("fixture")), Fail("volume"), Report, publish>>

----------------------------------------------------------------------------
(* fake-kad-trust-soak.py: a search per cycle, stopped by the cycle itself.     *)
TrustBody == <<Start("app"), Work>>
TrustCycle == <<Start("search"), Work, Kill("search"), Work>>
TrustCleanup == <<Note("search"), Probe, KeptAfterPass(Fail("app")), Report, publish>>

BrowseBody == <<Work, Start("app"), Work>>
BrowseCleanup == <<Probe, KeptAfterPass(Demote("app")), Report, publish>>

PreferenceBody == <<Start("app"), Work, Start("dialog"), Work, Close("dialog"),
                    Start("dialog"), Work, Close("dialog")>>
PreferenceCleanup == <<Note("dialog"), KeptAlways(Fail("app")), Report>>

(* search-ui-live.py writes its report first.                                *)
SearchUiBody == <<Start("app"), Work, Start("handle"), Work>>
SearchUiCleanup == <<Report, Raise("handle"), Note("app")>>

BrowseStressBody == <<Work, Start("app"), Work>>
BrowseStressCleanup == <<Note("app"), Report, publish>>

(* rust-live-wire-hideme.py: the client is started right before the `try`.     *)
HidemeBody == <<Bare(Work), Bare(Start("rust")), Work>>
HidemeCleanup == <<Raise("rust"), Audit, Report>>

AppLanes == [
  radarr |-> On({"volume"}, Returning(Inconclusive(
    LaneOf(RadarrSetup \o RadarrServices \o RadarrClient \o RadarrArr, RadarrCleanup)))),
  prowlarr |-> Returning(LaneOf(ProwlarrBody \o ProwlarrArr, ProwlarrCleanup)),
  smoke |-> Inconclusive(LaneOf(SmokeLaunch \o SmokeSearch \o SmokeRestart, SmokeCleanup)),
  cold_start |-> [Inconclusive(LaneOf(ColdStartLaunch \o ColdStartMonitors \o ColdStartStress,
    ColdStartCleanup)) EXCEPT !.ends = {"passed", "failed", "inconclusive"}],
  shared_directories |-> On({"volume"},
    LaneOf(SharedSetup \o SharedBody \o SharedRestarts, SharedCleanup)),
  trust_soak |-> [LaneOf(TrustBody \o TrustCycle, TrustCleanup) EXCEPT !.ends = {"passed", "failed"}],
  auto_browse |-> Inconclusive(LaneOf(BrowseBody, BrowseCleanup)),
  preferences |-> LaneOf(PreferenceBody, PreferenceCleanup),
  search_ui |-> [Inconclusive(LaneOf(SearchUiBody, SearchUiCleanup))
                 EXCEPT !.ends = {"passed", "inconclusive"}],
  browse_stress |-> Returning([LaneOf(BrowseStressBody, BrowseStressCleanup)
                               EXCEPT !.ends = {"passed", "failed"}]),
  hideme |-> [LaneOf(HidemeBody, HidemeCleanup) EXCEPT !.ends = {"passed", "failed"}]]
====
