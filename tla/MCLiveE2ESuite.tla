---- MODULE MCLiveE2ESuite ----
(***************************************************************************)
(* Small instances of LiveE2ESuite.                                        *)
(***************************************************************************)
EXTENDS LiveE2ESuite

AllHooks == Hooks
FirstSuite == {1}
BothSuites == {1, 2}
HookedScenarios == {"success", "vpn-off"}
VpnOff == {"vpn-off"}
====
