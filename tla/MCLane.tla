---- MODULE MCLane ----
(* All the lanes, each from start to end.                                   *)
EXTENDS Lane, SwarmLanes, AmutorrentLanes, AppLanes, UiLanes, VolumeLanes, TLC

AllLanes == SwarmLanes @@ AmutorrentLanes @@ AppLanes @@ UiLanes @@ VolumeLanes
====
