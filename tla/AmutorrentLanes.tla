---- MODULE AmutorrentLanes ----
(***************************************************************************)
(* The lanes that put an aMuTorrent server in front of a client: the          *)
(* amutorrent-*.py scripts.  The server is terminated, then killed, with      *)
(* nothing around the kill; so is a client that would not close.             *)
(***************************************************************************)
EXTENDS LaneSteps

LOCAL publish == Probe
LOCAL closeLog == Probe

(* amutorrent-browser-smoke.py enters the volume long before its `try`.        *)
BrowserSmokeSetup == Option(<<Bare(Start("volume"))>>) \o <<Bare(Work)>>
BrowserSmokeBody == <<Work, Start("app"), Work, Start("amutorrent"), Work>>
BrowserSmokeCleanup == <<Raise("amutorrent"), closeLog, OrKill("app"), Demote("volume"),
                         Audit, Report, publish>>

ResilienceBody == <<Work, Start("app"), Work, Start("amutorrent"), Work>>
(* restart_emule_for_reconnect().                                           *)
ResilienceRestart == Restart("app") \o <<Work>>
ResilienceCleanup == <<Raise("amutorrent"), closeLog, OrKill("app"), Report, publish>>

UiLiveBody == <<Work, Start("app"), Work, Start("amutorrent"), Work>>
UiLiveCleanup == <<Raise("amutorrent"), closeLog, OrKill("app"), Report, publish>>

CleanStartupBody == <<Work, Start("app"), Work, Start("amutorrent"), Work>>
CleanStartupCleanup == <<Raise("amutorrent"), closeLog, OrKill("app"), Report, publish>>

(* amutorrent-local-ed2k-ui-live.py: server, seed, up to two downloaders.      *)
LocalUiServer == <<Work>> \o Called("server") \o <<Work>>
LocalUiClients == <<Start("client2"), Work, Start("client1"), Work>>
                  \o Option(<<Start("rust"), Work>>)
LocalUiBody == <<Start("amutorrent"), Work>>
LocalUiCleanup == <<Raise("amutorrent"), closeLog, Note("client1"), Note("client2"),
                    Raise("rust"), Raise("server"), Report, publish>>

AmutorrentLanes == [
  browser_smoke |-> On({"volume"},
    LaneOf(BrowserSmokeSetup \o BrowserSmokeBody, BrowserSmokeCleanup)),
  resilience |-> LaneOf(ResilienceBody \o ResilienceRestart, ResilienceCleanup),
  ui_live |-> LaneOf(UiLiveBody, UiLiveCleanup),
  clean_startup |-> LaneOf(CleanStartupBody, CleanStartupCleanup),
  local_ui |-> Returning(LaneOf(LocalUiServer \o LocalUiClients \o LocalUiBody, LocalUiCleanup))]
====
