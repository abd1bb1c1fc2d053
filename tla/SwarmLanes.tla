---- MODULE SwarmLanes ----
(***************************************************************************)
(* The lanes that run a local ED2K server or a swarm of clients on this      *)
(* machine: the local-*, deterministic-*, emulebb-rust-* scripts and          *)
(* godzilla-local-swarm.py.                                                 *)
(***************************************************************************)
EXTENDS LaneSteps

LOCAL publish == Probe   \* publish_run_artifacts() and its company, which may raise

(* deterministic-two-client-transfer.py: server, seed, downloader.            *)
TwoClientBody == <<Work>> \o Called("server") \o
  <<Work, Start("client2"), Work, Start("client1"), Work>>
TwoClientCleanup == <<Note("client1"), Note("client2"), Raise("server"), Report, publish>>

(* local-ed2k-protocol-combinations.py: the same for one case of the matrix;   *)
(* the report is handed to the caller.                                      *)
ProtocolBody == <<Work>> \o Called("server") \o
  <<Work, Start("client2"), Work, Start("client1"), Work>>
ProtocolCleanup == <<Note("client1"), Note("client2"), Raise("server"), Report>>

(* local-ed2k-rust-protocol-combinations.py: a harness seed and a rust client. *)
RustProtocolBody == <<Work>> \o Called("server") \o <<Work, Start("client2"), Work>>
RustProtocolRun == <<Start("rust"), Work>>
RustProtocolChecks == <<Work>>
RustProtocolCleanup == <<Note("client2"), Raise("rust"), Raise("server"), Report>>

SearchSoakBody == <<Work>> \o Called("server") \o <<Work, Start("client2"), Work>>
SearchSoakRun == <<Start("client1"), Work>>
SearchSoakCleanup == <<Note("client1"), Note("client2"), Raise("server"), Report, publish>>

(* local-ed2k-chaos-mode.py closes the downloader, moves its folders under it  *)
(* and starts it again; locked probe files hang on an ExitStack.             *)
ChaosBody == <<Work>> \o Called("server") \o <<Work, Start("client2"), Work>>
ChaosRestart == <<Start("client1"), Start("probe"), Work, Close("client1"), Work,
                  Start("client1"), Work>>
ChaosCleanup == <<Note("client1"), Note("client2"), Note("probe"), Raise("server"),
                  Report, publish>>

(* emulebb-rust-emulebb-cross-client.py.                                     *)
CrossClientBody == <<Work>> \o Called("server") \o <<Work, Start("rust"), Work>>
CrossClientRun == <<Start("emulebb"), Work>>
CrossClientCleanup == <<Note("emulebb"), Raise("rust"), Raise("server"), Report, publish>>

(* emulebb-rust-reask-*.py: the helpers wait for the rust clients they start.  *)
ReaskBody == Called("server") \o <<Start("emulebb"), Work>> \o Called("occupier")
             \o <<Work>> \o Called("reask") \o <<Work>>
ReaskCleanup == <<Note("emulebb"), Raise("occupier"), Raise("reask"), Raise("server"), Report>>
ReaskCaptureBody == Called("server") \o Called("uploader") \o <<Work, Start("emulebb"), Work>>
ReaskCaptureCleanup == <<Note("emulebb"), Raise("uploader"), Raise("server"), Report>>

(* local-kad-swarm.py, local-kad-mixed-client-swarm.py: a dict of clients.     *)
KadSwarmBody == <<Work, Start("client1"), Work, Start("client2"), Work, Start("client3"), Work>>
KadSwarmCleanup == <<Note("client1"), Note("client2"), Note("client3"), Report, publish>>
KadMixedBody == <<Work, Start("client1"), Start("client2"), Work>>
KadMixedCleanup == <<Note("client1"), Note("client2"), Report, publish>>

(* local-parity-swarm-matrix.py: the clients' IP aliases are what they live    *)
(* on; a client counts once its launch has waited for it; --keep-up.          *)
ParityBody == <<Start("aliases")>> \o Called("server") \o Called("mfc") \o Called("rust")
              \o <<Work>>
ParityCleanup == <<KeptAlways(Note("mfc")), KeptAlways(Note("rust")),
                   KeptAlways(Note("server")), KeptAlways(Raise("aliases")), Report>>

----------------------------------------------------------------------------
(* godzilla-local-swarm.py: diagnostics, server and swarm; the scale check     *)
(* that may end the run; the peers, restarts of each, and the adverse kill.   *)
(* Two lanes: one with diagnostics, one with restarts and kill, which keeps     *)
(* the number of combinations of options within reach.                       *)
GodzillaDiagnostics == Option(Called("gflags")) \o Option(<<Start("pageheap")>>)
  \o Option(<<Start("cpu")>>)
GodzillaLaunch == <<Work, Start("storage"), Work>> \o Called("server")
  \o Option(<<Start("extra")>>) \o Option(<<Leave>>)
GodzillaPeers == <<Start("mfc"), Work, Start("primary")>> \o Option(<<Start("monitor")>>)
  \o Option(<<Start("amutorrent"), Work>>)
GodzillaRestarts ==
  Option(Restart("primary") \o <<Close("monitor"), Start("monitor"), Work>>)
  \o Option(<<Close("extra"), Start("extra"), Work>>) \o Option(Restart("mfc"))
GodzillaKill == Option(<<Kill("primary"), Kill("mfc"), Close("monitor"), Spawn("primary"),
  Spawn("monitor"), Spawn("mfc"), Work, Adopt("primary"), Adopt("monitor"), Adopt("mfc")>>)
GodzillaFinish == <<Work, Close("cpu"), Close("monitor")>>
GodzillaCleanup == <<Note("monitor"), Note("cpu"), Note("amutorrent"), Probe, Note("primary"),
  Note("mfc"), Note("extra"), Note("server"), Note("gflags"), Note("pageheap"), Probe, Report,
  Note("storage"), Report>>

SwarmLanes == [
  two_client |-> Returning(LaneOf(TwoClientBody, TwoClientCleanup)),
  protocol |-> LaneOf(ProtocolBody, ProtocolCleanup),
  rust_protocol |->
    LaneOf(RustProtocolBody \o RustProtocolRun \o RustProtocolChecks, RustProtocolCleanup),
  search_soak |-> Returning(LaneOf(SearchSoakBody \o SearchSoakRun, SearchSoakCleanup)),
  chaos |-> LaneOf(ChaosBody \o ChaosRestart, ChaosCleanup),
  cross_client |-> Returning(LaneOf(CrossClientBody \o CrossClientRun, CrossClientCleanup)),
  reask |-> Returning([LaneOf(ReaskBody, ReaskCleanup) EXCEPT !.ends = {"passed", "failed"}]),
  reask_capture |->
    Returning([LaneOf(ReaskCaptureBody, ReaskCaptureCleanup) EXCEPT !.ends = {"passed", "failed"}]),
  kad_swarm |-> Returning(LaneOf(KadSwarmBody, KadSwarmCleanup)),
  kad_mixed |-> Returning(LaneOf(KadMixedBody, KadMixedCleanup)),
  parity |-> On({"aliases"}, Returning(
    [LaneOf(ParityBody, ParityCleanup) EXCEPT !.ends = {"passed", "failed"}, !.errors = {"running"}])),
  godzilla_profiled |-> On({"storage"}, Returning(
    LaneOf(GodzillaDiagnostics \o GodzillaLaunch \o GodzillaPeers \o GodzillaFinish,
           GodzillaCleanup))),
  godzilla |-> On({"storage"}, Returning(
    LaneOf(GodzillaLaunch \o GodzillaPeers \o GodzillaRestarts \o GodzillaKill \o GodzillaFinish,
           GodzillaCleanup)))]
====
