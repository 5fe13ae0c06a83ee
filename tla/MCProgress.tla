------------------------------ MODULE MCProgress ------------------------------
(* What must eventually happen, for the components that share no state and so need
   no product: a behaviour picks one of them and runs it alone. *)
EXTENDS JobScheduler, TrackerSync, EnginePeers, Playback

VARIABLE part
progressVars == <<part, vars, syncVars, peerVars, raceVars, trackVars>>

ProgressInit ==
  /\ part \in {"jobs", "sync", "peers", "race", "tracking"}
  /\ Init /\ SyncInit /\ PeersInit /\ RaceInit /\ TrackInit
  /\ part # "sync" => ~finishing
  /\ part # "jobs" => pc = "schedule"

ProgressNext ==
  /\ part' = part
  /\ \/ part = "jobs" /\ Next /\ UNCHANGED <<syncVars, peerVars, raceVars, trackVars>>
     \/ part = "sync" /\ SyncNext /\ UNCHANGED <<vars, peerVars, raceVars, trackVars>>
     \/ part = "peers" /\ PeersNext /\ UNCHANGED <<vars, syncVars, raceVars, trackVars>>
     \/ part = "race" /\ RaceNext /\ UNCHANGED <<vars, syncVars, peerVars, trackVars>>
     \/ part = "tracking" /\ TrackNext /\ UNCHANGED <<vars, syncVars, peerVars, raceVars>>

(* The fairness each component's own specification states, for the one that runs. *)
ProgressFairness ==
  /\ WF_vars(part = "jobs" /\ LoopStep) /\ WF_vars(part = "jobs" /\ Tick)
  /\ WF_vars(part = "jobs" /\ LoopFinish)
  /\ \A g \in Callers : WF_vars(part = "jobs" /\ ManualFinish(g))
  /\ WF_syncVars(part = "sync" /\ JobStep)
  /\ \A g \in SyncGoroutines :
       /\ SF_syncVars(part = "sync" /\ ReadEntry(g))
       /\ WF_syncVars(part = "sync" /\ (SetProgress(g) \/ ClearDirty(g)))
  /\ \A h \in Handlers :
       SF_syncVars(part = "sync" /\ RemoveRead(h)) /\ WF_syncVars(part = "sync" /\ RequestStep(h))
  /\ WF_peerVars(part = "peers" /\ JanitorTick) /\ WF_peerVars(part = "peers" /\ ReadDone)
  /\ \A p \in Peers \ DeadPeers, i \in PeerPieces :
       /\ SF_peerVars(part = "peers" /\ SentRequest(p, i))
       /\ WF_peerVars(part = "peers" /\ PieceReceived(p, i))
  /\ WF_raceVars(part = "race" /\ StartNext) /\ WF_raceVars(part = "race" /\ StarterStops)
  /\ WF_raceVars(part = "race" /\ Stagger(FALSE))
  /\ \A i \in Cands : WF_raceVars(part = "race" /\ RaceStep(i))
  /\ \A r \in Runs : WF_trackVars(part = "tracking" /\ TrackStep(r))

ProgressSpec == ProgressInit /\ [][ProgressNext]_progressVars /\ ProgressFairness

(* Each component's state invariant, whichever runs: a job never sleeps past its cap
   (jobs.go backoff), the list of peers is bounded (regroup.go remember), the race
   leaves only its winner (play.go race), positions go to their own episode (track). *)
ProgressSafe == TypeOK /\ WaitCapped /\ PeersSafe /\ RaceSafe /\ TrackSafe

(* The properties below say something of a component only once it runs. *)

(* jobs.go loop: until the scheduler stops, the job runs again and again. *)
JobKeepsRunning == part = "jobs" => KeepsRunning

(* play.go race: the race is decided and no goroutine of it is left blocked. *)
RaceIsDecided == part = "race" => RaceEnds

(* engine.go rescue, regroup.go: a stuck read ends, and a download that is alone
   keeps trying the peers it had. *)
PeersAreKept == part = "peers" => StuckReadEnds /\ AloneKeepsTrying
=============================================================================
