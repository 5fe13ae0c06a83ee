------------------------------- MODULE Playback -------------------------------
(* Playing an episode: the race of the releases that could be played, and the desktop player
   that plays the one that won. *)
EXTENDS Naturals, Sequences, FiniteSets

(* Choosing a release to play (library/play.go attachFrom, race, tryCandidate):
   ranked candidates are warmed in parallel, capped and staggered; the best one
   that delivers wins, and the torrents of the others go.  Candidates are numbered
   by rank.  The starter, one goroutine per candidate and the collector interleave. *)
CONSTANTS RaceN,        \* candidates
          RaceWidth,    \* raceWidth
          HeldBefore    \* candidates whose torrent the engine held before the race

Cands == 1..RaceN
ASSUME RaceAssumption == RaceN \in Nat /\ RaceWidth \in Nat \ {0} /\ HeldBefore \subseteq Cands

VARIABLES starter,   \* [next, st]: the next candidate; "slot", "pause" or "done"
          slots,     \* goroutines holding a slot
          failed,    \* tokens in the failed channel
          cand,      \* each candidate's goroutine
          engine,    \* candidates whose torrent the engine holds
          outcome,   \* the collector's outcomes: "none", "ok", "err"
          collector, \* "race", "commit", "failed", "cancelled"
          winner, patience,
          cancelled  \* raceCtx is done
raceVars == <<starter, slots, failed, cand, engine, outcome, collector, winner, patience, cancelled>>

RaceInit ==
  /\ starter = [next |-> 1, st |-> "slot"] /\ slots = {} /\ failed = 0
  /\ cand = [i \in Cands |-> "idle"]
  /\ engine = HeldBefore
  /\ outcome = [i \in Cands |-> "none"]
  /\ collector = "race" /\ winner = 0 /\ patience = "off" /\ cancelled = FALSE

(* The starter takes a slot and starts the next candidate, then waits for the
   stagger or a failure; a decided race ends it. *)
StartNext ==
  /\ starter.st = "slot" /\ starter.next \in Cands /\ Cardinality(slots) < RaceWidth
  /\ slots' = slots \cup {starter.next}
  /\ cand' = [cand EXCEPT ![starter.next] = "inspect"]
  /\ starter' = [starter EXCEPT !.st = "pause"]
  /\ UNCHANGED <<failed, engine, outcome, collector, winner, patience, cancelled>>

Stagger(byFailure) ==
  /\ starter.st = "pause"
  /\ byFailure => failed > 0
  /\ failed' = IF byFailure THEN failed - 1 ELSE failed
  /\ starter' = [next |-> starter.next + 1, st |-> IF starter.next = RaceN THEN "done" ELSE "slot"]
  /\ UNCHANGED <<slots, cand, engine, outcome, collector, winner, patience, cancelled>>
StarterStops ==
  /\ starter.st # "done" /\ cancelled
  /\ starter' = [starter EXCEPT !.st = "done"]
  /\ UNCHANGED <<slots, failed, cand, engine, outcome, collector, winner, patience, cancelled>>

Fail(i) ==
  /\ cand' = [cand EXCEPT ![i] = "err"]
  /\ failed' = failed + 1

(* tryCandidate: the file list, or none; the episode is not in it; added and
   started; it delivers, or the torrent is discarded unless held before. *)
Inspect(i, ok) ==
  /\ cand[i] = "inspect"
  /\ cancelled => ~ok
  /\ IF ok THEN cand' = [cand EXCEPT ![i] = "add"] /\ UNCHANGED failed ELSE Fail(i)
  /\ UNCHANGED <<starter, slots, engine, outcome, collector, winner, patience, cancelled>>
Add(i, ok) ==
  /\ cand[i] = "add"
  /\ IF ok THEN /\ cand' = [cand EXCEPT ![i] = "warm"] /\ engine' = engine \cup {i}
                /\ UNCHANGED failed
     ELSE Fail(i) /\ UNCHANGED engine
  /\ UNCHANGED <<starter, slots, outcome, collector, winner, patience, cancelled>>
Warmed(i, ok) ==
  /\ cand[i] = "warm"
  /\ IF ok THEN cand' = [cand EXCEPT ![i] = "ok"] /\ UNCHANGED <<failed, engine>>
     ELSE Fail(i) /\ engine' = IF i \in HeldBefore THEN engine ELSE engine \ {i}
  /\ UNCHANGED <<starter, slots, outcome, collector, winner, patience, cancelled>>

\* Variant for mutation: a goroutine that finishes late leaves its torrent.
StrayLeaks(i) ==
  /\ cand[i] \in {"ok", "err"} /\ cancelled
  /\ cand' = [cand EXCEPT ![i] = "gone"] /\ slots' = slots \ {i}
  /\ UNCHANGED <<starter, failed, engine, outcome, collector, winner, patience, cancelled>>

\* Variant for mutation: a late failure has nobody to report to and blocks.
StrayBlocks(i) ==
  /\ cand[i] = "ok" /\ cancelled
  /\ engine' = IF i \notin HeldBefore THEN engine \ {i} ELSE engine
  /\ cand' = [cand EXCEPT ![i] = "gone"] /\ slots' = slots \ {i}
  /\ UNCHANGED <<starter, failed, outcome, collector, winner, patience, cancelled>>

(* The goroutine's last select with the race decided: a stray winner must not leak. *)
Stray(i) ==
  /\ cand[i] \in {"ok", "err"} /\ cancelled
  /\ engine' = IF cand[i] = "ok" /\ i \notin HeldBefore THEN engine \ {i} ELSE engine
  /\ cand' = [cand EXCEPT ![i] = "gone"] /\ slots' = slots \ {i}
  /\ UNCHANGED <<starter, failed, outcome, collector, winner, patience, cancelled>>

(* The first success with every better-ranked rival resolved. *)
Decided(out) ==
  LET ready == {i \in Cands : out[i] = "ok" /\ \A j \in 1..(i - 1) : out[j] = "err"}
  IN IF ready = {} THEN 0 ELSE CHOOSE i \in ready : TRUE

(* discardLosers: what was received and not chosen goes, unless held before. *)
DiscardLosers(out, w) == engine \ {i \in Cands \ HeldBefore : i # w /\ out[i] = "ok"}

(* The collector receives an outcome: commit cancels the race and discards. *)
Receive(i) ==
  /\ collector = "race" /\ cand[i] \in {"ok", "err"}
  /\ cand' = [cand EXCEPT ![i] = "gone"] /\ slots' = slots \ {i}
  /\ LET out == [outcome EXCEPT ![i] = cand[i]]
         w == Decided(out)
         all == \A j \in Cands : out[j] # "none"
     IN /\ outcome' = out
        /\ winner' = w
        /\ collector' = IF w # 0 THEN "commit" ELSE IF all THEN "failed" ELSE "race"
        /\ cancelled' = (cancelled \/ w # 0 \/ all)
        /\ engine' = IF w # 0 THEN DiscardLosers(out, w) ELSE engine
        /\ patience' = IF cand[i] = "ok" /\ patience = "off" THEN "running" ELSE patience
  /\ UNCHANGED <<starter, failed>>

(* Patience runs out once: the best one that is ready plays. *)
PatienceEnds ==
  /\ collector = "race" /\ patience = "running"
  /\ LET ready == {i \in Cands : outcome[i] = "ok"}
         w == CHOOSE i \in ready : \A j \in ready : i <= j
     IN /\ winner' = w /\ engine' = DiscardLosers(outcome, w)
  /\ patience' = "over" /\ collector' = "commit" /\ cancelled' = TRUE
  /\ UNCHANGED <<starter, slots, failed, cand, outcome>>

(* The viewer leaves: whatever already warmed is nobody's now. *)
Leave ==
  /\ collector = "race"
  /\ collector' = "cancelled" /\ cancelled' = TRUE
  /\ engine' = DiscardLosers(outcome, 0)
  /\ UNCHANGED <<starter, slots, failed, cand, outcome, winner, patience>>

RaceStep(i) ==
  \/ \E ok \in BOOLEAN : Inspect(i, ok) \/ Add(i, ok) \/ Warmed(i, ok)
  \/ Stray(i) \/ Receive(i)
RaceNext ==
  \/ StartNext \/ StarterStops \/ \E b \in BOOLEAN : Stagger(b)
  \/ PatienceEnds \/ Leave
  \/ \E i \in Cands : RaceStep(i)

(* Every wait in a candidate has a deadline, the stagger and patience are timers. *)
RaceFair ==
  /\ WF_raceVars(StartNext) /\ WF_raceVars(StarterStops) /\ WF_raceVars(Stagger(FALSE))
  /\ \A i \in Cands : WF_raceVars(RaceStep(i))
RaceSpec == RaceInit /\ [][RaceNext]_raceVars /\ RaceFair
-----------------------------------------------------------------------------
RaceTypeOK ==
  /\ cand \in [Cands -> {"idle", "inspect", "add", "warm", "ok", "err", "gone"}]
  /\ outcome \in [Cands -> {"none", "ok", "err"}]
  /\ failed \in 0..RaceN /\ slots \subseteq Cands /\ engine \subseteq Cands
  /\ collector \in {"race", "commit", "failed", "cancelled"} /\ winner \in 0..RaceN

Running == {i \in Cands : cand[i] \in {"inspect", "add", "warm", "ok", "err"}}

(* Once the race is over and its goroutines are done, the engine holds the winner
   and what it held before, nothing else and nothing less: a loser that finishes
   before, at or after the decision discards itself exactly once. *)
NoLoserLeaks ==
  (collector # "race" /\ Running = {}) => engine = HeldBefore \cup ({winner} \ {0})

(* A lower-ranked release wins only over better ones that failed, or that were
   still loading when patience ran out. *)
BestWins ==
  winner # 0 => /\ \A j \in 1..(winner - 1) : outcome[j] # "ok"
                /\ patience # "over" => \A j \in 1..(winner - 1) : outcome[j] = "err"

(* Never more than raceWidth candidates warm at once, although a failure starts
   the next one early. *)
WidthKept == Cardinality(Running) <= RaceWidth

(* The race is decided: every candidate failing ends it too, and no goroutine is
   left blocked on a channel nobody reads. *)
RaceEnds == <>[](collector # "race" /\ Running = {} /\ starter.st = "done")

(* The best release that delivers wins and no other stays: the parts above. *)
RaceSafe == RaceTypeOK /\ NoLoserLeaks /\ BestWins /\ WidthKept

-----------------------------------------------------------------------------
(* An episode in a desktop player (library/play.go Start, launch, track, Suspend,
   yield, resumeYielded; player/mpv.go): the event channel each run of mpv has,
   the goroutine that follows it, the pin on the episode, and the other shows'
   download that makes way while something plays.

   Run n of the player plays episode n.  Two starts may be under way at once: the
   viewer's, and the next episode's after a natural end. *)
CONSTANTS MaxRuns,     \* bound on the episodes started
          EventBuffer, \* eventBuffer
          MaxPositions, \* bound on the position reports of one run
          LaunchesCross \* whether two starts may be inside launch at once

Runs == 1..MaxRuns
ASSUME TrackAssumption == MaxRuns \in Nat /\ EventBuffer \in Nat \ {0}

VARIABLES start,    \* each start: where it stands
          starting, \* Playback.starting
          trackGen, \* Playback.trackGen
          mpv,      \* MPV: the run alive, and the run whose channel Events returns
          events,   \* run |-> its channel
          tracker,  \* run |-> its goroutine: st, chan, gen, positioned
          dropped,  \* runs whose end or exit a full channel swallowed
          pin,      \* the episode pinned, or 0
          saved,    \* episode |-> the run whose position was saved under it
          yielded,  \* Playback.yielded holds the other show's download
          other,    \* that download: "running" or "paused"
          resumer   \* callers inside resumeYielded, past the starting check
trackVars == <<start, starting, trackGen, mpv, events, tracker, dropped, pin, saved, yielded, other, resumer>>

NoTracker == [st |-> "none", chan |-> 0, gen |-> 0, positioned |-> FALSE]

TrackInit ==
  /\ start = [r \in Runs |-> "idle"] /\ starting = 0 /\ trackGen = 0
  /\ mpv = [alive |-> 0, chan |-> 0, sent |-> 0]
  /\ events = [r \in Runs |-> <<>>]
  /\ tracker = [r \in Runs |-> NoTracker] /\ dropped = {}
  /\ pin = 0 /\ saved = [r \in Runs |-> 0]
  /\ yielded = FALSE /\ other = "running" /\ resumer = {}

NextRun(r) == \A s \in Runs : s < r => start[s] # "idle"

(* Start counts itself before it yields ... *)
StartPlay(r) ==
  /\ start[r] = "idle" /\ NextRun(r)
  /\ Cardinality({s \in Runs : start[s] \in {"yield", "note", "launch", "play", "leave"}}) < 2
  /\ start' = [start EXCEPT ![r] = "yield"] /\ starting' = starting + 1
  /\ UNCHANGED <<trackGen, mpv, events, tracker, dropped, pin, saved, yielded, other, resumer>>

(* ... yield pauses the other show's running download ... *)
Yield(r) ==
  /\ start[r] = "yield"
  /\ start' = [start EXCEPT ![r] = IF other = "running" THEN "note" ELSE "launch"]
  /\ other' = "paused"
  /\ UNCHANGED <<starting, trackGen, mpv, events, tracker, dropped, pin, saved, yielded, resumer>>

(* ... and notes it after. *)
YieldNote(r) ==
  /\ start[r] = "note"
  /\ yielded' = TRUE /\ start' = [start EXCEPT ![r] = "launch"]
  /\ UNCHANGED <<starting, trackGen, mpv, events, tracker, dropped, pin, saved, other, resumer>>

(* launch: pinned, then this run owns the tracking before the old player ends. *)
Launch(r) ==
  /\ start[r] = "launch"
  /\ LaunchesCross \/ \A s \in Runs : start[s] # "play"
  /\ pin' = r /\ trackGen' = r
  /\ start' = [start EXCEPT ![r] = "play"]
  /\ UNCHANGED <<starting, mpv, events, tracker, dropped, saved, yielded, other, resumer>>

Emit(r, e) ==
  IF Len(events[r]) < EventBuffer
  THEN events' = [events EXCEPT ![r] = Append(@, e)] /\ UNCHANGED dropped
  ELSE /\ UNCHANGED events
       /\ dropped' = IF e \in {"eof", "exit"} THEN dropped \cup {r} ELSE dropped

(* MPV.Play: Stop kills the run before, whose exit goes to its own channel; the
   new one answers on a channel of its own, and is followed. *)
PlayerStarts(r) ==
  /\ start[r] = "play"
  /\ mpv' = [alive |-> r, chan |-> r, sent |-> 0]
  /\ IF mpv.alive # 0 THEN Emit(mpv.alive, "exit") ELSE UNCHANGED <<events, dropped>>
  /\ tracker' = [tracker EXCEPT ![r] = [NoTracker EXCEPT !.st = "begin", !.gen = r]]
  /\ start' = [start EXCEPT ![r] = "started"] /\ starting' = starting - 1
  /\ UNCHANGED <<trackGen, pin, saved, yielded, other, resumer>>

(* No release, or no player: the start fails, and what yielded may resume.  A run
   pinned by then stays pinned. *)
StartFails(r) ==
  /\ start[r] \in {"launch", "play"}
  /\ mpv' = IF start[r] = "play" THEN [alive |-> 0, chan |-> r, sent |-> 0] ELSE mpv
  /\ IF start[r] = "play" /\ mpv.alive # 0 THEN Emit(mpv.alive, "exit") ELSE UNCHANGED <<events, dropped>>
  /\ starting' = starting - 1 /\ start' = [start EXCEPT ![r] = "leave"]
  /\ UNCHANGED <<trackGen, tracker, pin, saved, yielded, other, resumer>>

(* resumeYielded: nothing starting, then nothing pinned, then the noted download. *)
ResumeCheck(r) ==
  /\ start[r] = "leave"
  /\ start' = [start EXCEPT ![r] = "done"]
  /\ resumer' = IF starting = 0 THEN resumer \cup {r} ELSE resumer
  /\ UNCHANGED <<starting, trackGen, mpv, events, tracker, dropped, pin, saved, yielded, other>>
ResumeYielded(r) ==
  /\ r \in resumer
  /\ IF pin = 0 /\ yielded THEN other' = "running" /\ yielded' = FALSE
     ELSE UNCHANGED <<other, yielded>>
  /\ resumer' = resumer \ {r}
  /\ UNCHANGED <<start, starting, trackGen, mpv, events, tracker, dropped, pin, saved>>

-----------------------------------------------------------------------------
(* mpv reports where it is, reaches the end, or is closed. *)
PlayerReports ==
  /\ mpv.alive # 0 /\ mpv.sent < MaxPositions
  /\ Emit(mpv.alive, "pos") /\ mpv' = [mpv EXCEPT !.sent = @ + 1]
  /\ UNCHANGED <<start, starting, trackGen, tracker, pin, saved, yielded, other, resumer>>
PlayerEnds(kind) ==
  /\ mpv.alive # 0
  /\ Emit(mpv.alive, kind) /\ mpv' = [mpv EXCEPT !.alive = 0]
  /\ UNCHANGED <<start, starting, trackGen, tracker, pin, saved, yielded, other, resumer>>

(* The goroutine asks for the current run's channel when it gets to run. *)
TrackBegins(r) ==
  /\ tracker[r].st = "begin"
  /\ tracker' = [tracker EXCEPT ![r].st = "follow", ![r].chan = mpv.chan]
  /\ UNCHANGED <<start, starting, trackGen, mpv, events, dropped, pin, saved, yielded, other, resumer>>

(* trackCurrent: whether no newer run has taken the player. *)
OwnsTracking(t) == trackGen = t.gen

(* track: a run that is no longer the current one stops; a position is saved; the
   end saves too if there was a position, and suspends. *)
TrackEvent(r) ==
  LET t == tracker[r] mine == OwnsTracking(t) IN
  /\ t.st = "follow" /\ events[t.chan] # <<>>
  /\ events' = [events EXCEPT ![t.chan] = Tail(@)]
  /\ LET e == Head(events[t.chan])
         saves == mine /\ (e = "pos" \/ t.positioned)
     IN /\ saved' = IF saves THEN [saved EXCEPT ![r] = t.chan] ELSE saved
        /\ tracker' = [tracker EXCEPT ![r].positioned = mine /\ (@ \/ e = "pos"),
                                      ![r].st = IF ~mine THEN "done" ELSE IF e = "pos" THEN @ ELSE "suspend"]
  /\ UNCHANGED <<start, starting, trackGen, mpv, dropped, pin, yielded, other, resumer>>

\* Variant for mutation: the pin stays.
SuspendPinned(r) ==
  /\ tracker[r].st = "suspend"
  /\ tracker' = [tracker EXCEPT ![r].st = "done"]
  /\ start' = [start EXCEPT ![r] = "leave"]
  /\ UNCHANGED <<starting, trackGen, mpv, events, dropped, pin, saved, yielded, other, resumer>>

(* Suspend unpins its episode, then resumes what yielded; only a natural end
   advances, which is another start. *)
Suspend(r) ==
  /\ tracker[r].st = "suspend"
  /\ pin' = IF pin = r THEN 0 ELSE pin
  /\ tracker' = [tracker EXCEPT ![r].st = "done"]
  /\ start' = [start EXCEPT ![r] = "leave"]
  /\ UNCHANGED <<starting, trackGen, mpv, events, dropped, saved, yielded, other, resumer>>

TrackStep(r) ==
  \/ Yield(r) \/ YieldNote(r) \/ Launch(r) \/ PlayerStarts(r) \/ ResumeCheck(r) \/ ResumeYielded(r)
  \/ TrackBegins(r) \/ TrackEvent(r) \/ Suspend(r)
TrackNext ==
  \/ \E r \in Runs : TrackStep(r) \/ StartPlay(r) \/ StartFails(r)
  \/ PlayerReports \/ \E kind \in {"eof", "exit"} : PlayerEnds(kind)

(* Every goroutine runs on; whether and when the player ends is the viewer's. *)
TrackFair == \A r \in Runs : WF_trackVars(TrackStep(r))
TrackSpec == TrackInit /\ [][TrackNext]_trackVars /\ TrackFair
-----------------------------------------------------------------------------
TrackTypeOK ==
  /\ starting \in 0..2 /\ pin \in Runs \cup {0} /\ trackGen \in Runs \cup {0}
  /\ mpv.alive \in Runs \cup {0} /\ mpv.chan \in Runs \cup {0}
  /\ \A r \in Runs : Len(events[r]) <= EventBuffer
  /\ other \in {"running", "paused"} /\ resumer \subseteq Runs

(* A position is saved under the episode the player that reported it was playing:
   "a newer episode owns the player; this one must not write positions under the
   old number", although a goroutine may take the newer run's channel. *)
PositionsOwn == \A r \in Runs : saved[r] \in {0, r}

(* When nothing is starting, playing or closing, the download that made way runs
   again.  A start that failed after its pin, and an end a full channel dropped,
   leave the pin, and with it the pause, behind. *)
QuietPlay ==
  /\ mpv.alive = 0 /\ pin = 0 /\ starting = 0 /\ resumer = {}
  /\ \A r \in Runs : start[r] # "leave" /\ tracker[r].st \in {"none", "done"}
YieldedResumes == QuietPlay => other = "running"

(* A player that is closed is let go of: its episode is unpinned, or another one
   was started since.  Two ways out are open in the code: the full channel drops
   the event, and the goroutine of an older run, late to ask for its channel, takes
   this run's and swallows it. *)
ClosedIsUnpinned ==
  \A r \in Runs :
    (start[r] = "started" /\ mpv.alive # r)
      ~> (pin # r \/ r \in dropped \/ \E s \in Runs \ {r} : tracker[s].chan = r)

(* Positions go to their episode and a download that yielded resumes: the parts above. *)
TrackSafe == TrackTypeOK /\ PositionsOwn /\ YieldedResumes
=============================================================================
