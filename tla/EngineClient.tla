------------------------------ MODULE EngineClient ------------------------------
(* The client's waits on one torrent of the engine (internal/torrent/client.go): file lists
   that may never come, a torrent that must go live before it is streamed, a download awaited
   until it is whole or stalls, and the pause of what the engine resumed by itself.  The
   torrent is checked, paused, resumed and fed by others meanwhile. *)
EXTENDS Integers, FiniteSets

CONSTANTS ECallers,   \* callers of Inspect
          StallPolls, \* polls without progress Await allows
          LivePolls,  \* polls WaitLive allows without progress of the check
          MaxECOps    \* bound on what others do to the torrent
ASSUME PollsAssumption == StallPolls \in Nat \ {0} /\ LivePolls \in Nat \ {0}

Parts == {"head", "tail"}
VARIABLES tor,      \* the torrent: not added yet or its state, the parts verified and on disk
          bad,      \* the magnet failed lately
          look,     \* [caller -> "idle", "asking", "answered", "failed", "over"], of Inspect
          departed, \* callers whose context was cancelled
          lied,     \* ghost: what the mark rests on: "none", "swarm", "engine"
          live,     \* Prewarm: stage, polls left, whether it resumed, parts seen verified
          hold,     \* Await: stage, best progress, polls without any
          sweep,    \* PauseUnfinished: "idle", "seen", "over"
          ecOps
clientVars == <<tor, bad, look, departed, lied, live, hold, sweep, ecOps>>

ClientInit ==
  /\ tor = [state |-> "absent", got |-> {}, onDisk |-> {}]
  /\ bad = FALSE /\ look = [c \in ECallers |-> "idle"] /\ departed = {} /\ lied = "none"
  /\ live = [at |-> "idle", left |-> 0, resumed |-> FALSE, verified |-> 0]
  /\ hold = [at |-> "idle", best |-> 0, quiet |-> 0]
  /\ sweep = "idle" /\ ecOps = 0

Progress(t) == Cardinality(t.got)
Finished(t) == t.got = Parts

-----------------------------------------------------------------------------
(* Others: the swarm, the engine's own check, the user and the queue. *)
Piece(p) ==
  /\ tor.state = "live" /\ p \notin tor.got
  /\ tor' = [tor EXCEPT !.got = tor.got \cup {p}, !.onDisk = tor.onDisk \cup {p}]
  /\ UNCHANGED <<bad, look, departed, lied, live, hold, sweep, ecOps>>
CheckPiece(p) ==
  /\ tor.state = "initializing" /\ p \in tor.onDisk \ tor.got
  /\ tor' = [tor EXCEPT !.got = tor.got \cup {p}]
  /\ UNCHANGED <<bad, look, departed, lied, live, hold, sweep, ecOps>>
CheckOver ==
  /\ tor.state = "initializing" /\ tor.got = tor.onDisk
  /\ \E s \in {"live", "paused"} : tor' = [tor EXCEPT !.state = s]
  /\ UNCHANGED <<bad, look, departed, lied, live, hold, sweep, ecOps>>
Others ==
  /\ tor.state # "absent" /\ ecOps < MaxECOps /\ ecOps' = ecOps + 1
  /\ \/ tor.state = "live" /\ tor' = [tor EXCEPT !.state = "paused"]
     \/ tor.state = "paused" /\ tor' = [tor EXCEPT !.state = "live"]
     \/ tor.state \in {"live", "paused"} /\ tor' = [tor EXCEPT !.state = "initializing", !.got = {}]
     \/ tor.state # "error" /\ tor' = [tor EXCEPT !.state = "error"]
  /\ UNCHANGED <<bad, look, departed, lied, live, hold, sweep>>

-----------------------------------------------------------------------------
(* Inspect: refused while the magnet is marked; a picked release is asked for all the same,
   and marks nothing. *)
InspectMagnet(c) ==
  /\ look[c] = "idle" /\ ~bad /\ tor.state = "absent"
  /\ look' = [look EXCEPT ![c] = "asking"]
  /\ UNCHANGED <<tor, bad, departed, lied, live, hold, sweep, ecOps>>
InspectPicked(c) ==
  /\ look[c] = "idle" /\ tor.state = "absent"
  /\ \E end \in {"answered", "failed"} : look' = [look EXCEPT ![c] = end]
  /\ UNCHANGED <<tor, bad, departed, lied, live, hold, sweep, ecOps>>
\* Variant for mutation: a cancelled caller marks the magnet too.
FailsAnyway(c, why) ==
  /\ look[c] = "asking" /\ look' = [look EXCEPT ![c] = "failed"]
  /\ why = "cancel" => c \in departed
  /\ bad' = TRUE /\ lied' = IF why = "cancel" THEN lied ELSE why
  /\ UNCHANGED <<tor, departed, live, hold, sweep, ecOps>>
(* It fails: no list in time, no engine, or the caller left; a caller left by then marks nothing. *)
InspectFails(c, why) ==
  /\ look[c] = "asking" /\ look' = [look EXCEPT ![c] = "failed"]
  /\ why = "cancel" => c \in departed
  /\ IF c \in departed THEN UNCHANGED <<bad, lied>> ELSE bad' = TRUE /\ lied' = why
  /\ UNCHANGED <<tor, departed, live, hold, sweep, ecOps>>
InspectAnswers(c) ==
  /\ look[c] = "asking" /\ look' = [look EXCEPT ![c] = "answered"]
  /\ UNCHANGED <<tor, bad, departed, lied, live, hold, sweep, ecOps>>
CallerLeaves(c) ==
  /\ look[c] = "asking" /\ c \notin departed /\ departed' = departed \cup {c}
  /\ UNCHANGED <<tor, bad, look, lied, live, hold, sweep, ecOps>>
(* magnetFailedRecently: the mark is three minutes old. *)
MarkExpires ==
  /\ bad /\ bad' = FALSE /\ lied' = "none"
  /\ UNCHANGED <<tor, look, departed, live, hold, sweep, ecOps>>

(* Add: a release whose files are known, over whatever an earlier run left on disk. *)
AddRelease ==
  /\ tor.state = "absent" /\ \E c \in ECallers : look[c] = "answered"
  /\ \E d \in SUBSET Parts : tor' = [state |-> "initializing", got |-> {}, onDisk |-> d]
  /\ look' = [c \in ECallers |-> "over"] /\ departed' = {}
  /\ UNCHANGED <<bad, lied, live, hold, sweep, ecOps>>

-----------------------------------------------------------------------------
(* Prewarm: WaitLive, then the tail and the head read through the stream. *)
Prewarm ==
  /\ live.at = "idle" /\ tor.state # "absent"
  /\ live' = [at |-> "wait", left |-> LivePolls, resumed |-> FALSE, verified |-> 0]
  /\ UNCHANGED <<tor, bad, look, departed, lied, hold, sweep, ecOps>>
\* Variant for mutation: any progress seen extends the wait.
PollLiveAnyProgress ==
  /\ live.at = "wait"
  /\ LET checks == tor.state = "initializing"
     IN IF tor.state = "live" \/ Finished(tor) THEN live' = [live EXCEPT !.at = "tail"]
        ELSE live' = [live EXCEPT !.left = IF checks THEN LivePolls ELSE live.left - 1,
                                  !.at = IF ~checks /\ live.left = 1 THEN "failed" ELSE "wait"]
  /\ UNCHANGED <<tor, bad, look, departed, lied, hold, sweep, ecOps>>
(* WaitLive's poll: a check that climbs extends the wait, a pause is undone once, and past the
   deadline it gives up. *)
PollLive ==
  /\ live.at = "wait"
  /\ LET climbs == tor.state = "initializing" /\ Progress(tor) > live.verified
         resumes == tor.state = "paused" /\ ~live.resumed
         left == IF climbs THEN LivePolls ELSE live.left - 1
     IN IF tor.state = "error" THEN live' = [live EXCEPT !.at = "failed"] /\ tor' = tor
        ELSE IF tor.state = "live" \/ Finished(tor) THEN live' = [live EXCEPT !.at = "tail"] /\ tor' = tor
        ELSE /\ live' = [live EXCEPT !.left = left, !.resumed = live.resumed \/ resumes,
                                     !.verified = IF climbs THEN Progress(tor) ELSE live.verified,
                                     !.at = IF left = 0 THEN "failed" ELSE "wait"]
             /\ tor' = IF resumes THEN [tor EXCEPT !.state = "live"] ELSE tor
  /\ UNCHANGED <<bad, look, departed, lied, hold, sweep, ecOps>>
(* readRange: the read ends when the part is delivered, whole; or with the stream. *)
ReadPart(p, next) ==
  /\ live.at = p
  /\ \/ p \in tor.got /\ live' = [live EXCEPT !.at = next]
     \/ tor.state \in {"error", "initializing"} /\ live' = [live EXCEPT !.at = "failed"]
  /\ UNCHANGED <<tor, bad, look, departed, lied, hold, sweep, ecOps>>

-----------------------------------------------------------------------------
Await ==
  /\ hold.at = "idle" /\ tor.state # "absent" /\ hold' = [hold EXCEPT !.at = "wait"]
  /\ UNCHANGED <<tor, bad, look, departed, lied, live, sweep, ecOps>>
(* Await's poll. *)
PollHold ==
  /\ hold.at = "wait"
  /\ hold' =
       IF Finished(tor) THEN [hold EXCEPT !.at = "whole"]
       ELSE IF tor.state = "error" THEN [hold EXCEPT !.at = "failed"]
       ELSE IF tor.state = "paused" THEN [hold EXCEPT !.at = "paused"]
       ELSE IF Progress(tor) > hold.best THEN [hold EXCEPT !.best = Progress(tor), !.quiet = 0]
       ELSE [hold EXCEPT !.quiet = hold.quiet + 1, !.at = IF hold.quiet + 1 >= StallPolls THEN "stalled" ELSE "wait"]
  /\ UNCHANGED <<tor, bad, look, departed, lied, live, sweep, ecOps>>

(* PauseUnfinished: what it reads, and the pause it asks for after; a torrent being checked is
   left for the caller to come back to. *)
SweepSees ==
  /\ sweep = "idle" /\ tor.state # "absent"
  /\ sweep' = IF Finished(tor) \/ tor.state \in {"paused", "error"} THEN "over"
              ELSE IF tor.state = "initializing" THEN "checking" ELSE "seen"
  /\ UNCHANGED <<tor, bad, look, departed, lied, live, hold, ecOps>>
SweepPauses ==
  /\ sweep = "seen" /\ sweep' = "over"
  /\ tor' = IF tor.state = "live" THEN [tor EXCEPT !.state = "paused"] ELSE tor
  /\ UNCHANGED <<bad, look, departed, lied, live, hold, ecOps>>
SweepComesBack ==
  /\ sweep = "checking" /\ sweep' = "idle"
  /\ UNCHANGED <<tor, bad, look, departed, lied, live, hold, ecOps>>

ClientNext ==
  \/ \E p \in Parts : Piece(p) \/ CheckPiece(p)
  \/ CheckOver \/ Others
  \/ \E c \in ECallers : \/ InspectMagnet(c) \/ InspectPicked(c) \/ InspectAnswers(c) \/ CallerLeaves(c)
                         \/ \E why \in {"swarm", "engine", "cancel"} : InspectFails(c, why)
  \/ MarkExpires \/ AddRelease \/ Prewarm \/ PollLive \/ ReadPart("tail", "head") \/ ReadPart("head", "done")
  \/ Await \/ PollHold \/ SweepSees \/ SweepPauses \/ SweepComesBack

ClientFair == WF_clientVars(PollLive) /\ WF_clientVars(PollHold)
ClientSpec == ClientInit /\ [][ClientNext]_clientVars /\ ClientFair
-----------------------------------------------------------------------------
(* A magnet is refused only when a lookup its caller was still waiting for failed. *)
MarkedForCause == bad => lied \in {"swarm", "engine"}
(* A stall is reported after that many quiet polls and no sooner, what a wait has seen is never
   more than is there to be had, and a stream reported ready has its head and its tail. *)
ClientTypeOK ==
  /\ tor.got \subseteq tor.onDisk /\ hold.best <= Cardinality(tor.onDisk) /\ live.verified <= Cardinality(tor.onDisk)
  /\ hold.quiet <= StallPolls /\ live.left \in 0 .. LivePolls
  /\ hold.at = "stalled" => hold.quiet = StallPolls
  /\ live.at = "done" => {"head", "tail"} \subseteq tor.onDisk
ClientSafe == ClientTypeOK /\ MarkedForCause
(* Neither wait goes on for ever, however the torrent is checked again, paused and resumed. *)
WaitsEnd == (hold.at = "wait" ~> hold.at # "wait") /\ (live.at = "wait" ~> live.at # "wait")
=============================================================================
