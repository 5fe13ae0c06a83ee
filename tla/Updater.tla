-------------------------------- MODULE Updater --------------------------------
(* An update of kuro (internal/update, cmd/kuro/main.go run): the release is fetched and
   verified, the executable is swapped by two renames, the new version is started and
   told to wait for the old one, and one that dies before it serves puts the old one
   back.  Processes of two versions are alive at once and share the executable's
   directory, the data folder's lock and the settings. *)
EXTENDS Integers, FiniteSets

CONSTANTS Pids,        \* processes, numbered in the order of their starts
          UpVersions,  \* versions, numbered in their order; 1 is installed
          BadVersions, \* versions that cannot start serving
          SlowStop,    \* whether a process may take longer to end than WaitFor waits
          SecondLaunch,\* whether users start kuro while one of its processes is alive
          MaxUpFaults, \* bound on failed downloads, renames and starts
          MaxUpOps     \* bound on what users do

ASSUME PidsAssumption == IsFiniteSet(Pids) /\ 1 \in Pids /\ Pids = 1 .. Cardinality(Pids)
ASSUME VersionsAssumption ==
  UpVersions \subseteq Nat \ {0} /\ BadVersions \subseteq UpVersions /\ 1 \in UpVersions \ BadVersions

Absent == 0
Quiet == [ver |-> 0, phase |-> "none", wait |-> 0, stage |-> "idle", rel |-> 0, from |-> 0]

VARIABLES file,      \* the executable and its neighbours: exe, old, new, failed
          procsUp,   \* the processes
          settings,  \* update.version, update.previous, update.notified
          upTold,    \* notifications: <<"available" or "updated", version>>
          published, \* the newest release
          gaveUp,    \* a user closed kuro, or an error is all there was left to do
          upFaults, upOps
upVars == <<file, procsUp, settings, upTold, published, gaveUp, upFaults, upOps>>

UpInit ==
  /\ file = [exe |-> 1, old |-> Absent, new |-> Absent, failed |-> Absent]
  /\ procsUp = [p \in Pids |-> IF p = 1 THEN [Quiet EXCEPT !.ver = 1, !.phase = "serving"] ELSE Quiet]
  /\ settings = [version |-> 1, previous |-> Absent, notified |-> Absent]
  /\ upTold = {} /\ published = 1 /\ gaveUp = FALSE /\ upFaults = 0 /\ upOps = 0

UpAt(p, ph) == procsUp[p].phase = ph
Holds(p) == procsUp[p].phase \in {"starting", "announced", "serving", "stopping"}
Alive(p) == procsUp[p].phase # "none"
UpOp == upOps < MaxUpOps /\ upOps' = upOps + 1
UpFault == upFaults < MaxUpFaults /\ upFaults' = upFaults + 1
Goes(p, ph) == procsUp' = [procsUp EXCEPT ![p].phase = ph]
Stage(p, s) == procsUp' = [procsUp EXCEPT ![p].stage = s]

(* A process started from the executable; its pid is the next one. *)
Starts(P, wait) ==
  LET used == {q \in Pids : P[q].ver # 0}
      next == Cardinality(used) + 1
  IN IF next \notin Pids \/ file.exe = Absent THEN {}
     ELSE {[P EXCEPT ![next] = [Quiet EXCEPT !.ver = file.exe, !.phase = IF wait # 0 THEN "wait" ELSE "claim", !.wait = wait]]}

-----------------------------------------------------------------------------
Publish ==
  /\ published + 1 \in UpVersions /\ published' = published + 1
  /\ UNCHANGED <<file, procsUp, settings, upTold, gaveUp, upFaults, upOps>>

(* notify: a newer release is announced once. *)
Notify(v) ==
  IF published > v /\ settings.notified # published
  THEN /\ upTold' = upTold \cup {<<"available", published>>}
       /\ settings' = [settings EXCEPT !.notified = published]
  ELSE UNCHANGED <<upTold, settings>>
Check(p) ==
  /\ UpAt(p, "serving") /\ procsUp[p].rel # published
  /\ procsUp' = [procsUp EXCEPT ![p].rel = published]
  /\ Notify(procsUp[p].ver)
  /\ UNCHANGED <<file, published, gaveUp, upFaults, upOps>>

(* Apply: judged and claimed under one lock. *)
Claim(p) == procsUp[p].stage \in {"idle", "failed"}
Apply(p) ==
  /\ UpOp /\ UpAt(p, "serving") /\ Claim(p) /\ procsUp[p].rel > procsUp[p].ver
  /\ procsUp' = [procsUp EXCEPT ![p].stage = "downloading", ![p].from = procsUp[p].rel]
  /\ UNCHANGED <<file, settings, upTold, published, gaveUp, upFaults>>

(* download, verify and extractExe, the stages that touch nothing that runs; the release
   is the one Apply took, whatever a Check has found since. *)
Verified(p) ==
  /\ procsUp[p].stage = "downloading" /\ Alive(p)
  /\ file' = [file EXCEPT !.new = procsUp[p].from] /\ Stage(p, "verified")
  /\ UNCHANGED <<settings, upTold, published, gaveUp, upFaults, upOps>>
ReleaseFails(p) ==
  /\ procsUp[p].stage = "downloading" /\ Alive(p) /\ UpFault /\ Stage(p, "failed")
  /\ UNCHANGED <<file, settings, upTold, published, gaveUp, upOps>>

(* swap: .old is removed and the running binary moved there ... *)
MoveAside(p) ==
  /\ procsUp[p].stage = "verified" /\ Alive(p) /\ file.exe # Absent
  /\ file' = [file EXCEPT !.old = file.exe, !.exe = Absent] /\ Stage(p, "aside")
  /\ UNCHANGED <<settings, upTold, published, gaveUp, upFaults, upOps>>
(* ... then the new one moved in, or the old one back. *)
MoveIn(p) ==
  /\ procsUp[p].stage = "aside" /\ Alive(p)
  /\ file' = [file EXCEPT !.exe = file.new, !.new = Absent] /\ Stage(p, "swapped")
  /\ UNCHANGED <<settings, upTold, published, gaveUp, upFaults, upOps>>
SwapFails(p) ==
  /\ Alive(p) /\ procsUp[p].stage \in {"verified", "aside"} /\ UpFault
  /\ file' = IF procsUp[p].stage = "aside" THEN [file EXCEPT !.exe = file.old, !.old = Absent, !.new = Absent]
             ELSE [file EXCEPT !.old = Absent, !.new = Absent]
  /\ Stage(p, "failed")
  /\ UNCHANGED <<settings, upTold, published, gaveUp, upOps>>

(* Rollback, of a directory F: the failed version goes aside, the old one comes back. *)
Rollback(F) ==
  IF F.old = Absent THEN F ELSE [F EXCEPT !.failed = F.exe, !.exe = F.old, !.old = Absent]
(* launch and restart: the new version is started before this one is told to end. *)
Launch(p) ==
  /\ procsUp[p].stage = "swapped" /\ Alive(p)
  /\ procsUp' \in Starts([procsUp EXCEPT ![p].stage = "restarting", ![p].phase = "stopping"], p)
  /\ UNCHANGED <<file, settings, upTold, published, gaveUp, upFaults, upOps>>
LaunchFails(p) ==
  /\ procsUp[p].stage = "swapped" /\ Alive(p) /\ UpFault
  /\ file' = Rollback(file) /\ Stage(p, "failed")
  /\ UNCHANGED <<settings, upTold, published, gaveUp, upOps>>

(* relaunchSelf: a setting that needs a restart, the same handover without an update. *)
RelaunchSelf(p) ==
  /\ UpOp /\ UpAt(p, "serving") /\ Claim(p)
  /\ procsUp' \in Starts([procsUp EXCEPT ![p].phase = "stopping"], p)
  /\ UNCHANGED <<file, settings, upTold, published, gaveUp, upFaults>>

-----------------------------------------------------------------------------
(* WaitFor: until the predecessor is gone, or thirty seconds. *)
WaitFor(p) ==
  /\ UpAt(p, "wait") /\ (Alive(procsUp[p].wait) => SlowStop)
  /\ Goes(p, "claim")
  /\ UNCHANGED <<file, settings, upTold, published, gaveUp, upFaults, upOps>>

(* run: the lock is claimed first; a kuro that finds it taken shows the running one and
   returns, which a handover counts as a failed start. *)
Returns(p) == IF procsUp[p].wait # 0 THEN "back" ELSE "none"
ClaimLock(p) ==
  /\ UpAt(p, "claim") /\ Goes(p, IF \E q \in Pids : Holds(q) THEN Returns(p) ELSE "starting")
  /\ UNCHANGED <<file, settings, upTold, published, gaveUp, upFaults, upOps>>

\* Variant for mutation: the way back is removed before the port is bound.
StartedCleansUp(p) ==
  /\ UpAt(p, "starting") /\ Goes(p, "announced")
  /\ settings' = [settings EXCEPT !.version = procsUp[p].ver]
  /\ file' = [file EXCEPT !.old = Absent]
  /\ UNCHANGED <<upTold, published, gaveUp, upFaults, upOps>>

(* Started: before the port is bound, the running version is recorded and announced. *)
Started(p) ==
  /\ UpAt(p, "starting")
  /\ LET v == procsUp[p].ver
         last == settings.version
         updated == v > last
     IN IF last = v THEN UNCHANGED <<settings, upTold>>
        ELSE /\ settings' = [settings EXCEPT !.version = v, !.previous = IF updated THEN last ELSE Absent]
             /\ upTold' = IF updated THEN upTold \cup {<<"updated", v>>} ELSE upTold
  /\ Goes(p, "announced")
  /\ UNCHANGED <<file, published, gaveUp, upFaults, upOps>>

(* binder.bind succeeded: serving, and Cleanup. *)
Serves(p) ==
  /\ UpAt(p, "announced") /\ procsUp[p].ver \notin BadVersions
  /\ Goes(p, "serving")
  /\ file' = [file EXCEPT !.old = Absent, !.new = Absent, !.failed = Absent]
  /\ UNCHANGED <<settings, upTold, published, gaveUp, upFaults, upOps>>
(* Anything of run that returns an error before that: the configuration, the migration,
   the engine, the port. *)
Dies(p) ==
  /\ procsUp[p].phase \in {"starting", "announced"} /\ procsUp[p].ver \in BadVersions
  /\ Goes(p, Returns(p))
  /\ gaveUp' = (gaveUp \/ Returns(p) = "none")
  /\ UNCHANGED <<file, settings, upTold, published, upFaults, upOps>>

(* The deferred Rollback of a handover that never served, and Relaunch: the restored
   version starts plainly.  With no .old there is nothing to go back to. *)
HandsBack(p) ==
  /\ UpAt(p, "back")
  /\ LET F == Rollback(file)
         P == [procsUp EXCEPT ![p].phase = "none"]
     IN /\ file' = F
        /\ IF file.old = Absent
           THEN procsUp' = P /\ gaveUp' = TRUE
           ELSE /\ gaveUp' = gaveUp
                /\ LET next == Cardinality({q \in Pids : P[q].ver # 0}) + 1
                   IN /\ next \in Pids
                      /\ procsUp' = [P EXCEPT ![next] = [Quiet EXCEPT !.ver = F.exe, !.phase = "claim"]]
  /\ UNCHANGED <<settings, upTold, published, upFaults, upOps>>

(* The context ended and everything deferred has run. *)
Ends(p) ==
  /\ UpAt(p, "stopping") /\ Goes(p, "none")
  /\ UNCHANGED <<file, settings, upTold, published, gaveUp, upFaults, upOps>>

(* A user closes kuro.  An update under way goes on until the process is gone. *)
Closes(p) ==
  /\ UpOp /\ UpAt(p, "serving")
  /\ Goes(p, "stopping") /\ gaveUp' = TRUE
  /\ UNCHANGED <<file, settings, upTold, published, upFaults>>

UserStarts ==
  /\ UpOp /\ (SecondLaunch \/ \A p \in Pids : ~Alive(p)) /\ procsUp' \in Starts(procsUp, 0)
  /\ UNCHANGED <<file, settings, upTold, published, gaveUp, upFaults>>

UpNext ==
  \/ Publish \/ UserStarts
  \/ \E p \in Pids :
       \/ Check(p) \/ Apply(p) \/ Verified(p) \/ ReleaseFails(p) \/ MoveAside(p) \/ MoveIn(p)
       \/ SwapFails(p) \/ Launch(p) \/ LaunchFails(p) \/ RelaunchSelf(p)
       \/ WaitFor(p) \/ ClaimLock(p) \/ Started(p) \/ Serves(p) \/ Dies(p) \/ HandsBack(p)
       \/ Ends(p) \/ Closes(p)

UpSpec == UpInit /\ [][UpNext]_upVars
-----------------------------------------------------------------------------
UpTypeOK ==
  /\ \A f \in DOMAIN file : file[f] \in UpVersions \cup {Absent}
  /\ Cardinality({p \in Pids : Holds(p)}) <= 1

(* "Put the running version back, or nothing is left to start next time": there is an
   executable, unless a swap is, or was cut off, between its two renames, and one that
   cannot start has its way back beside it. *)
StartableAgain ==
  /\ file.exe = Absent => \E p \in Pids : procsUp[p].stage = "aside"
  /\ file.exe \in BadVersions => file.old \notin BadVersions \cup {Absent}

(* An update or a restart never ends kuro: some process is there to serve or to hand
   back, unless a user closed it or a plain start failed. *)
NeverVanishes == (\A p \in Pids : ~Alive(p)) => gaveUp

(* UpdatedFrom, "the version that ran here before this one": what a serving process
   shows is older than it is, and an "available" is for a release newer than 1. *)
WhatsNewIsNew ==
  \A p \in Pids : UpAt(p, "serving") =>
    /\ settings.version = procsUp[p].ver
    /\ settings.previous < procsUp[p].ver

UpdateSafe == UpTypeOK /\ StartableAgain /\ NeverVanishes /\ WhatsNewIsNew
=============================================================================
