--------------------------- MODULE DownloadQueue ---------------------------
(***************************************************************************)
(* The download queue of internal/library/queue.go (type Downloader), the  *)
(* table it works (internal/store/queue.go) and the HTTP handlers and the  *)
(* watcher job that call it (internal/server/download.go, stream.go,       *)
(* internal/library/watcher.go).                                           *)
(*                                                                         *)
(* One worker goroutine (Run, step) claims one episode at a time. Any      *)
(* number of request goroutines, the Clients, change the table and the     *)
(* Downloader's fields at the same time. A step of the model is one SQL    *)
(* statement or transaction, or one critical section of d.mu, or one call  *)
(* made outside of it (context cancel, channel send): exactly the points   *)
(* where the goroutines can interleave.                                    *)
(*                                                                         *)
(* An episode stands for the pair (anime_id, ep_key), for the stream       *)
(* session that would play it and for the torrent recorded for it.         *)
(***************************************************************************)
EXTENDS Integers, FiniteSets

CONSTANTS
    Episodes,      \* (anime_id, ep_key) pairs
    ShowOf,        \* the anime_id of an episode
    EpisodeNo,     \* the episode column, which breaks ties of queued_at
    Releases,      \* info hashes a user may choose by hand
    NoRelease,     \* no release chosen: the worker searches for one
    NoEpisode,     \* no episode
    Clients,       \* request goroutines running at the same time
    queueRetries,  \* tries granted to a dead swarm before the row fails
    MaxOps,        \* bound: requests of a behaviour
    MaxFaults,     \* bound: failed writes, foreign pauses and crashes
    MaxClock       \* bound: seconds the clock advances

ASSUME NoEpisodeAssumption == NoEpisode \notin Episodes
ASSUME NoReleaseAssumption == NoRelease \notin Releases
ASSUME EpisodeNoAssumption == EpisodeNo \in [Episodes -> Int]
ASSUME BoundsAssumption == 
    queueRetries \in Nat /\ MaxOps \in Nat /\ MaxFaults \in Nat /\ MaxClock \in Nat

VARIABLES
    rows,        \* the download_queue table
    setting,     \* the persisted setting downloads.paused
    clock,       \* unix seconds
    paused,      \* d.paused
    watching,    \* d.watching
    userPaused,  \* d.userPaused
    wake,        \* a token is in the one-slot channel d.wake
    worker,      \* the goroutine in Run and step; d.current is Current below
    clients,     \* where each request goroutine is
    ops,         \* requests so far
    faults,      \* failed writes, foreign pauses and crashes so far
    front,       \* history: the row last moved to the front
    stranded,    \* history: rows a failed write left active with no worker
    unseen       \* history: a row may have come due with no Wake since the last claim

vars == <<rows, setting, clock, paused, watching, userPaused, wake, worker,
          clients, ops, faults, front, stranded, unseen>>

table   == <<rows, clock, front, stranded>>
memory  == <<paused, watching, userPaused, wake>>

------------------------------------------------------------------------------
(* The table. A row that does not exist is NoRow; retry_at is kept as the  *)
(* one comparison the code makes with it: waiting means retry_at > now.    *)

Row == [state: {"none", "pending", "active", "failed"}, queuedAt: Int,
        pick: Releases \cup {NoRelease}, attempts: Nat, waiting: BOOLEAN]

NoRow == [state |-> "none", queuedAt |-> 0, pick |-> NoRelease,
          attempts |-> 0, waiting |-> FALSE]

Queued == {e \in Episodes : rows[e].state # "none"}

Claimable == {e \in Episodes : rows[e].state = "pending" /\ ~rows[e].waiting}

\* ORDER BY queued_at, episode
Before(e, f) == \/ rows[e].queuedAt < rows[f].queuedAt
                \/ rows[e].queuedAt = rows[f].queuedAt /\ EpisodeNo[e] <= EpisodeNo[f]

Enqueue(E) ==
    [e \in Episodes |->
        IF e \notin E THEN rows[e]
        ELSE IF rows[e].state = "none"
        THEN [NoRow EXCEPT !.state = "pending", !.queuedAt = clock]
        ELSE [rows[e] EXCEPT !.state = IF @ = "failed" THEN "pending" ELSE @,
                             !.attempts = 0, !.waiting = FALSE]]

SetQueuedRelease(e, r) ==
    IF rows[e].state = "none" THEN rows
    ELSE [rows EXCEPT ![e] = [rows[e] EXCEPT !.pick = r, !.attempts = 0, !.waiting = FALSE,
                                             !.state = IF @ = "failed" THEN "pending" ELSE @]]

\* min(queued_at) over the table, as the set of that one value
Oldest == {rows[e].queuedAt : e \in {f \in Queued :
              \A g \in Queued : rows[f].queuedAt <= rows[g].queuedAt}}

\* Variant for mutation: as old as the oldest, not older.
PromotedTied(e, oldest) ==
    [rows EXCEPT ![e] = [rows[e] EXCEPT !.queuedAt = oldest, !.waiting = FALSE]]

Promoted(e, oldest) ==
    [rows EXCEPT ![e] = [rows[e] EXCEPT !.queuedAt = oldest - 1, !.waiting = FALSE]]

promote(e) == \E oldest \in Oldest : rows' = Promoted(e, oldest)

Dequeue(E) == [e \in Episodes |-> IF e \in E THEN NoRow ELSE rows[e]]

RequeueActive(e) ==
    IF rows[e].state = "active" THEN [rows EXCEPT ![e].state = "pending"] ELSE rows

\* Variant for mutation: the try is not counted.
DeferUncounted(e) ==
    IF rows[e].state # "active" THEN rows
    ELSE [rows EXCEPT ![e] = [rows[e] EXCEPT !.state = "pending", !.waiting = TRUE,
                                             !.queuedAt = clock]]

Defer(e) ==
    IF rows[e].state # "active" THEN rows
    ELSE [rows EXCEPT ![e] = [rows[e] EXCEPT !.state = "pending", !.attempts = @ + 1,
                                             !.waiting = TRUE, !.queuedAt = clock]]

\* Variant for mutation: a finished row is kept, as "done".
FinishQueuedDone(e, failed) ==
    IF rows[e].state = "none" THEN rows
    ELSE [rows EXCEPT ![e].state = IF failed THEN "failed" ELSE "done"]

\* No test of the state: whatever the row has become since the claim.
FinishQueued(e, failed) ==
    IF ~failed THEN [rows EXCEPT ![e] = NoRow]
    ELSE IF rows[e].state = "none" THEN rows
    ELSE [rows EXCEPT ![e].state = "failed"]

\* Variant for mutation: a start does not touch the table.
ResetNothing == rows

ResetActive ==
    [e \in Episodes |-> IF rows[e].state = "active"
                        THEN [rows[e] EXCEPT !.state = "pending"] ELSE rows[e]]

------------------------------------------------------------------------------
(* The goroutines.                                                         *)

WorkerPCs == {"boot", "restore", "restorePaused", "check", "claim", "claimed",
              "running", "landed", "timer", "wait"}

Outcomes == {"ok", "paused", "swarm", "err"}

Worker == [pc: WorkerPCs, ep: Episodes \cup {NoEpisode},
           pick: Releases \cup {NoRelease}, attempts: Nat,
           stopped: BOOLEAN,                   \* ctx.Err() # nil
           pausedBy: {"no", "user", "other"},  \* who paused the torrent in the engine
           outcome: Outcomes]                  \* what DownloadRelease returned

Rest(pc) == [pc |-> pc, ep |-> NoEpisode, pick |-> NoRelease, attempts |-> 0,
             stopped |-> FALSE, pausedBy |-> "no", outcome |-> "ok"]

ClientPCs == {"idle", "pick", "promote", "capture", "stop", "setting", "setPaused",
              "wake", "cancelStop", "mark", "unmark"}

Client == [pc: ClientPCs, eps: SUBSET Episodes, pick: Releases \cup {NoRelease},
           resume: BOOLEAN,   \* SetPaused(false) is still to come, or being run
           seen: BOOLEAN]     \* the local copy of d.current is the worker's flight

Idle == [pc |-> "idle", eps |-> {}, pick |-> NoRelease, resume |-> FALSE, seen |-> FALSE]

At(c, pc) == clients[c].pc = pc

Become(c, k) == clients' = [clients EXCEPT ![c] = k]

Goto(c, pc) == Become(c, [clients[c] EXCEPT !.pc = pc])

Finish(c) == Become(c, Idle)

\* Requests and faults are counted: a bounded run ends in silence from outside.
Spend == ops < MaxOps /\ ops' = ops + 1 /\ UNCHANGED faults

Fault == faults < MaxFaults /\ faults' = faults + 1 /\ UNCHANGED ops

\* d.current # nil: only between the two critical sections of step.
Running == worker.pc = "running"

Current(e) == Running /\ worker.ep = e

held == paused \/ watching # {}

Init ==
    /\ rows = [e \in Episodes |-> NoRow]
    /\ setting = FALSE
    /\ clock = 0
    /\ paused = FALSE /\ watching = {} /\ userPaused = {} /\ wake = FALSE
    /\ worker = Rest("boot")
    /\ clients = [c \in Clients |-> Idle]
    /\ ops = 0 /\ faults = 0
    /\ front = NoEpisode /\ stranded = {} /\ unseen = FALSE

------------------------------------------------------------------------------
(* Requests. Each begins in one client and runs to "idle" in it.           *)

\* download, downloadEpisodes, downloadAll, and the watcher's download.
Download(c, E) ==
    /\ At(c, "idle") /\ Spend
    /\ rows' = Enqueue(E)
    /\ Goto(c, "wake")
    /\ UNCHANGED <<setting, clock, memory, worker, front, stranded, unseen>>

\* downloadRelease. It is refused while the episode has a stream open, held or
\* not; which streams are open is not kept here, so it may come at any time.
DownloadRelease(c, e, r) ==
    /\ At(c, "idle") /\ Spend
    /\ rows' = Enqueue({e})
    /\ Become(c, [clients[c] EXCEPT !.pc = "pick", !.eps = {e}, !.pick = r, !.resume = TRUE])
    /\ UNCHANGED <<setting, clock, memory, worker, front, stranded, unseen>>

ChooseRelease(c, e) ==
    /\ At(c, "pick") /\ clients[c].eps = {e}
    /\ rows' = SetQueuedRelease(e, clients[c].pick)
    /\ Goto(c, "promote")
    /\ UNCHANGED <<setting, clock, memory, worker, ops, faults, front, stranded, unseen>>

\* Restart, up to the row: a row cancelled meanwhile is not moved.
Restart(c, e) ==
    /\ At(c, "promote") /\ clients[c].eps = {e}
    /\ IF rows[e].state \in {"pending", "active"}
       THEN promote(e) /\ front' = e /\ Goto(c, "capture")
       ELSE UNCHANGED <<rows, front>> /\ Goto(c, "wake")
    /\ UNCHANGED <<setting, clock, memory, worker, ops, faults, stranded, unseen>>

\* prioritiseQueued: Now answers "not moved" for anything but a waiting row.
Now(c, e) ==
    /\ At(c, "idle") /\ rows[e].state = "pending" /\ Spend
    /\ promote(e)
    /\ front' = e
    /\ Become(c, [clients[c] EXCEPT !.pc = "capture", !.eps = {e}, !.resume = TRUE])
    /\ UNCHANGED <<setting, clock, memory, worker, stranded, unseen>>

\* current := d.current under the lock. Now spares its own episode.
CaptureCurrent(c) ==
    /\ At(c, "capture")
    /\ LET stops == Running /\ (clients[c].pick = NoRelease => worker.ep \notin clients[c].eps)
       IN  Become(c, [Idle EXCEPT !.pc = IF stops THEN "stop" ELSE "setting",
                                  !.resume = TRUE, !.seen = stops])
    /\ UNCHANGED <<setting, table, memory, worker, ops, faults, unseen>>

\* current.stop(), after the lock was let go: the flight may have ended since.
StopCurrent(c) ==
    /\ At(c, "stop")
    /\ worker' = [worker EXCEPT !.stopped = @ \/ clients[c].seen]
    /\ IF clients[c].resume
       THEN Become(c, [clients[c] EXCEPT !.pc = "setting", !.seen = FALSE])
       ELSE Finish(c)
    /\ UNCHANGED <<setting, table, memory, ops, faults, unseen>>

\* pauseQueue and resumeQueue: SetPaused up to the setting.
SetPaused(c, p) ==
    /\ At(c, "idle") /\ Spend
    /\ setting' = p
    /\ Become(c, [clients[c] EXCEPT !.pc = "setPaused", !.resume = ~p])
    /\ UNCHANGED <<table, memory, worker, unseen>>

\* SetPaused(false), as Now and Restart go on to it.
ResumeSetting(c) ==
    /\ At(c, "setting")
    /\ setting' = FALSE
    /\ Goto(c, "setPaused")
    /\ UNCHANGED <<table, memory, worker, ops, faults, unseen>>

\* SetPaused from the lock on.
SetPausedField(c) ==
    /\ At(c, "setPaused")
    /\ paused' = ~clients[c].resume
    /\ Become(c, [clients[c] EXCEPT !.seen = Running /\ ~clients[c].resume,
                                    !.pc = IF clients[c].resume THEN "wake"
                                           ELSE IF Running THEN "stop" ELSE "idle"])
    /\ UNCHANGED <<setting, table, watching, userPaused, wake, worker, ops, faults, unseen>>

\* Variant for mutation: a channel with no slot, so a busy worker misses it.
WakeUnbuffered(c) ==
    /\ At(c, "wake")
    /\ wake' = (wake \/ worker.pc = "wait")
    /\ Finish(c)
    /\ UNCHANGED <<setting, table, paused, watching, userPaused, worker, ops, faults, unseen>>

\* A full channel already holds the token. downloadRelease wakes twice; the
\* second send adds a turn of the loop, which the timer can take as well.
Wake(c) ==
    /\ At(c, "wake")
    /\ wake' = TRUE
    /\ Finish(c)
    /\ UNCHANGED <<setting, table, paused, watching, userPaused, worker, ops, faults, unseen>>

\* cancelDownloadAll: one episode, or a whole show.
Cancel(c, E) ==
    /\ At(c, "idle") /\ Spend
    /\ rows' = Dequeue(E)
    /\ front' = IF front \in E THEN NoEpisode ELSE front
    /\ Become(c, [clients[c] EXCEPT !.pc = "cancelStop", !.eps = E])
    /\ UNCHANGED <<setting, clock, memory, worker, stranded, unseen>>

CancelCurrent(c) ==
    /\ At(c, "cancelStop")
    /\ worker' = [worker EXCEPT !.stopped = @ \/ (Running /\ worker.ep \in clients[c].eps)]
    /\ Finish(c)
    /\ UNCHANGED <<setting, table, memory, ops, faults, unseen>>

\* Variant for mutation: any session already watching counts as this one.
HoldOnce(c, s) ==
    /\ At(c, "idle") /\ Spend
    /\ watching' = watching \cup {s}
    /\ IF watching = {} /\ Running /\ ~Current(s)
       THEN Become(c, [clients[c] EXCEPT !.pc = "stop", !.seen = TRUE])
       ELSE UNCHANGED clients
    /\ UNCHANGED <<setting, table, paused, userPaused, wake, worker, unseen>>

\* streamOpen, when the line is not fast enough for both.
Hold(c, s) ==
    /\ At(c, "idle") /\ Spend
    /\ watching' = watching \cup {s}
    /\ IF s \notin watching /\ Running /\ ~Current(s)
       THEN Become(c, [clients[c] EXCEPT !.pc = "stop", !.seen = TRUE])
       ELSE UNCHANGED clients
    /\ UNCHANGED <<setting, table, paused, userPaused, wake, worker, unseen>>

\* streamClose by the last holder, or SessionIdle from the reaper.
Release(c, s) ==
    /\ At(c, "idle") /\ Spend
    /\ watching' = watching \ {s}
    /\ IF watching' = {} THEN Goto(c, "wake") ELSE UNCHANGED clients
    /\ UNCHANGED <<setting, table, paused, userPaused, wake, worker, unseen>>

\* pauseDownload and resumeDownload: the engine first, the mark after it.
\* Only the torrent in flight is told apart: the worker starts any other.
SetDownloadRunning(c, e, run) ==
    /\ At(c, "idle") /\ Spend
    /\ worker' = [worker EXCEPT !.pausedBy = IF ~Current(e) THEN @
                                             ELSE IF run THEN "no" ELSE "user"]
    /\ Become(c, [clients[c] EXCEPT !.pc = IF run THEN "unmark" ELSE "mark", !.eps = {e}])
    /\ UNCHANGED <<setting, table, memory, unseen>>

SetUserPaused(c) ==
    /\ clients[c].pc \in {"mark", "unmark"}
    /\ userPaused' = IF At(c, "mark") THEN userPaused \cup clients[c].eps
                                      ELSE userPaused \ clients[c].eps
    /\ Finish(c)
    /\ UNCHANGED <<setting, table, paused, watching, wake, worker, ops, faults, unseen>>

\* A write fails, or its request was given up: the handler answers an error.
RequestFails(c) ==
    /\ clients[c].pc \in {"pick", "promote", "setting"} /\ Fault
    /\ Finish(c)
    /\ unseen' = TRUE
    /\ UNCHANGED <<setting, table, memory, worker>>

------------------------------------------------------------------------------
(* The worker: Run and step.                                               *)

Boot ==
    /\ worker.pc = "boot"
    /\ rows' = ResetActive
    /\ stranded' = {}
    /\ worker' = [worker EXCEPT !.pc = "restore"]
    /\ UNCHANGED <<setting, clock, memory, clients, ops, faults, front, unseen>>

\* restorePaused, its read and then its assignment.
ReadSetting ==
    /\ worker.pc = "restore"
    /\ worker' = [worker EXCEPT !.pc = IF setting THEN "restorePaused" ELSE "check"]
    /\ UNCHANGED <<setting, table, memory, clients, ops, faults, unseen>>

RestorePaused ==
    /\ worker.pc = "restorePaused"
    /\ paused' = TRUE
    /\ worker' = [worker EXCEPT !.pc = "check"]
    /\ UNCHANGED <<setting, table, watching, userPaused, wake, clients, ops, faults, unseen>>

CheckHeld ==
    /\ worker.pc = "check"
    /\ worker' = [worker EXCEPT !.pc = IF held THEN "timer" ELSE "claim"]
    /\ UNCHANGED <<setting, table, memory, clients, ops, faults, unseen>>

\* Variant for mutation: attempts is not among the columns returned.
NextQueuedUncounted(e) ==
    /\ worker.pc = "claim"
    /\ e \in Claimable /\ \A f \in Claimable : Before(e, f)
    /\ rows' = [rows EXCEPT ![e].state = "active"]
    /\ worker' = [Rest("claimed") EXCEPT !.ep = e, !.pick = rows[e].pick]
    /\ unseen' = FALSE
    /\ UNCHANGED <<setting, clock, memory, clients, ops, faults, front, stranded>>

\* One UPDATE ... RETURNING: the first claimable row becomes active.
NextQueued(e) ==
    /\ worker.pc = "claim"
    /\ e \in Claimable /\ \A f \in Claimable : Before(e, f)
    /\ rows' = [rows EXCEPT ![e].state = "active"]
    /\ worker' = [Rest("claimed") EXCEPT !.ep = e, !.pick = rows[e].pick,
                                         !.attempts = rows[e].attempts]
    /\ unseen' = FALSE
    /\ UNCHANGED <<setting, clock, memory, clients, ops, faults, front, stranded>>

NothingQueued ==
    /\ worker.pc = "claim" /\ Claimable = {}
    /\ worker' = Rest("timer")
    /\ unseen' = FALSE
    /\ UNCHANGED <<setting, table, memory, clients, ops, faults>>

\* Variant for mutation: what landed since CheckHeld is not looked at.
StartFlightUnchecked ==
    /\ worker.pc = "claimed"
    /\ worker' = [worker EXCEPT !.pc = "running"]
    /\ UNCHANGED <<setting, table, memory, clients, ops, faults, unseen>>

\* d.current is set; a hold or a pause since CheckHeld stands it down at once.
StartFlight ==
    /\ worker.pc = "claimed"
    /\ worker' = [worker EXCEPT !.pc = "running", !.stopped = held]
    /\ UNCHANGED <<setting, table, memory, clients, ops, faults, unseen>>

\* DownloadRelease returns. Once stopped, what it returns is not looked at.
Land(o) ==
    /\ Running
    /\ worker.stopped => o = "err"
    /\ o = "paused" => worker.pausedBy # "no"
    /\ worker' = [worker EXCEPT !.pc = "landed", !.outcome = o]
    /\ UNCHANGED <<setting, table, memory, clients, ops, faults, unseen>>

\* The switch at the end of step and the one write it leads to.
Settled ==
    LET e == worker.ep IN
    CASE worker.stopped -> RequeueActive(e)
      [] ~worker.stopped /\ worker.outcome = "paused" ->
            IF e \in userPaused THEN FinishQueued(e, FALSE) ELSE RequeueActive(e)
      [] ~worker.stopped /\ worker.outcome = "swarm" ->
            IF worker.attempts < queueRetries THEN Defer(e) ELSE FinishQueued(e, TRUE)
      [] ~worker.stopped /\ worker.outcome = "err" -> FinishQueued(e, TRUE)
      [] ~worker.stopped /\ worker.outcome = "ok" -> FinishQueued(e, FALSE)

\* The row leaves the table or goes to the back of the line.
LosesPlace == Settled[worker.ep].state = "none" \/ Settled[worker.ep].waiting

\* The flight's context ends with step, so copies of d.current go stale.
EndStep ==
    /\ worker' = Rest("check")
    /\ clients' = [c \in Clients |-> [clients[c] EXCEPT !.seen = FALSE]]

Settle ==
    /\ worker.pc = "landed"
    /\ rows' = Settled
    /\ front' = IF front = worker.ep /\ LosesPlace THEN NoEpisode ELSE front
    /\ stranded' = stranded \ {worker.ep}
    /\ EndStep
    /\ UNCHANGED <<setting, clock, memory, ops, faults, unseen>>

\* The write fails: a warning is logged and the row stays as it is.
SettleFails ==
    /\ worker.pc = "landed" /\ Fault
    /\ stranded' = stranded \cup {worker.ep}
    /\ EndStep
    /\ UNCHANGED <<setting, rows, clock, memory, front, unseen>>

ClaimFails ==
    /\ worker.pc = "claim" /\ Fault
    /\ worker' = Rest("timer")
    /\ unseen' = TRUE
    /\ UNCHANGED <<setting, table, memory, clients>>

ResetFails ==
    /\ worker.pc = "boot" /\ Fault
    /\ stranded' = {e \in Episodes : rows[e].state = "active"}
    /\ worker' = [worker EXCEPT !.pc = "restore"]
    /\ UNCHANGED <<setting, rows, clock, memory, clients, front, unseen>>

\* idle: NextRetry is read before the select begins to listen.
SetTimer ==
    /\ worker.pc = "timer"
    /\ worker' = Rest("wait")
    /\ UNCHANGED <<setting, table, memory, clients, ops, faults, unseen>>

\* case <-d.wake
Woken ==
    /\ worker.pc = "wait" /\ wake
    /\ wake' = FALSE
    /\ worker' = Rest("check")
    /\ UNCHANGED <<setting, table, paused, watching, userPaused, clients, ops, faults, unseen>>

\* case <-time.After(d.idle(ctx)): at most queueIdle away
IdleOver ==
    /\ worker.pc = "wait"
    /\ worker' = Rest("check")
    /\ UNCHANGED <<setting, table, memory, clients, ops, faults, unseen>>

WorkerStep ==
    \/ Boot \/ ReadSetting \/ RestorePaused \/ CheckHeld
    \/ \E e \in Episodes : NextQueued(e)
    \/ NothingQueued \/ StartFlight
    \/ \E o \in Outcomes : Land(o)
    \/ Settle \/ SetTimer \/ Woken \/ IdleOver

------------------------------------------------------------------------------
(* Time, the torrent engine and the process.                               *)

Tick ==
    /\ clock < MaxClock
    /\ clock' = clock + 1
    /\ UNCHANGED <<setting, rows, memory, worker, clients, ops, faults, front, stranded, unseen>>

\* A deferred row's retry_at comes round: d.idle had the worker wait for it.
RetryDue(e) ==
    /\ rows[e].waiting
    /\ rows' = [rows EXCEPT ![e].waiting = FALSE]
    /\ unseen' = TRUE
    /\ UNCHANGED <<setting, clock, memory, worker, clients, ops, faults, front, stranded>>

\* Playback.Suspend of another episode of the same pack, or the start-up quieting.
OtherPause ==
    /\ Running /\ worker.pausedBy = "no" /\ Fault
    /\ worker' = [worker EXCEPT !.pausedBy = "other"]
    /\ UNCHANGED <<setting, table, memory, clients, unseen>>

\* The process ends and starts again: the database stays, the fields do not.
Crash ==
    /\ Fault
    /\ worker' = Rest("boot")
    /\ clients' = [c \in Clients |-> Idle]
    /\ paused' = FALSE /\ watching' = {} /\ userPaused' = {} /\ wake' = FALSE
    /\ unseen' = FALSE
    /\ UNCHANGED <<setting, table>>

Shows == {ShowOf[e] : e \in Episodes}

EpisodesOf(s) == {e \in Episodes : ShowOf[e] = s}

\* What one request may name: an episode or a whole show.
Selections == {{e} : e \in Episodes} \cup {EpisodesOf(s) : s \in Shows}

Request(c) ==
    \/ \E E \in Selections : Download(c, E) \/ Cancel(c, E)
    \/ \E e \in Episodes, r \in Releases : DownloadRelease(c, e, r)
    \/ \E e \in Episodes : Now(c, e) \/ Hold(c, e) \/ Release(c, e)
    \/ \E p \in BOOLEAN : SetPaused(c, p)
    \/ \E e \in Episodes, run \in BOOLEAN : SetDownloadRunning(c, e, run)

Proceed(c) ==
    \/ \E e \in Episodes : ChooseRelease(c, e) \/ Restart(c, e)
    \/ CaptureCurrent(c) \/ StopCurrent(c) \/ ResumeSetting(c) \/ SetPausedField(c)
    \/ Wake(c) \/ CancelCurrent(c) \/ SetUserPaused(c)

Environment ==
    \/ \E c \in Clients : Request(c) \/ RequestFails(c)
    \/ SettleFails \/ ClaimFails \/ ResetFails \/ OtherPause \/ Crash
    \/ Tick

Next ==
    \/ WorkerStep
    \/ \E c \in Clients : Proceed(c)
    \/ \E e \in Episodes : RetryDue(e)
    \/ Environment

Spec == Init /\ [][Next]_vars

(* A handler that has begun runs on, the worker's goroutine is scheduled,  *)
(* a download ends (Await gives up on a silent swarm after queueStall) and *)
(* a deferred row's time comes. Nothing obliges users, failures or crashes.*)
Fairness ==
    /\ WF_vars(WorkerStep)
    /\ \A c \in Clients : WF_vars(Proceed(c))
    /\ \A e \in Episodes : WF_vars(RetryDue(e))

FairSpec == Spec /\ Fairness

------------------------------------------------------------------------------
(* Properties.                                                             *)

TableOK ==
    /\ rows \in [Episodes -> Row] /\ clock \in Nat
    /\ front \in Episodes \cup {NoEpisode} /\ stranded \subseteq Episodes

MemoryOK ==
    /\ paused \in BOOLEAN /\ watching \subseteq Episodes
    /\ userPaused \subseteq Episodes /\ wake \in BOOLEAN

\* A worker past its claim has an episode.
WorkerOK ==
    /\ worker \in Worker
    /\ worker.pc \in {"claimed", "running", "landed"} => worker.ep \in Episodes

CountersOK == setting \in BOOLEAN /\ unseen \in BOOLEAN /\ ops \in Nat /\ faults \in Nat

\* Every variable has its type.
TypeOK ==
    /\ TableOK /\ MemoryOK /\ WorkerOK /\ CountersOK
    /\ clients \in [Clients -> Client]

Claims(e) == worker.pc \in {"claimed", "running", "landed"} /\ worker.ep = e

\* NextQueued, ResetActive: no row is left active with nothing working on it.
\* An active row is the one the worker claimed, or it waits for the reset of
\* the next start, because the write that should have settled it failed.
ActiveIsClaimed ==
    \A e \in Episodes : rows[e].state = "active" =>
        Claims(e) \/ worker.pc = "boot" \/ e \in stranded

\* queueRetries: however enqueues, picks and cancels reset the count of a row
\* while it downloads, a dead swarm is retried at most queueRetries times.
RetriesBounded ==
    \A e \in Episodes : rows[e].attempts <= queueRetries

\* A client holds the worker's flight and is about to stop it.
AboutToStop == \E c \in Clients : At(c, "stop") /\ clients[c].seen

\* SetPaused: "nothing starts until it is resumed". Under a paused queue no
\* download runs on, wherever in step the pause landed.
PausedStaysDown == paused /\ Running /\ ~worker.stopped => AboutToStop

\* Hold: while a session is watching, only the download of an episode being
\* watched runs on, wherever in step the stream opened.
WatchedFirst ==
    Running /\ ~worker.stopped /\ watching \ {worker.ep} # {} => AboutToStop

\* Prioritise and Promote: the row moved to the front last is the next one
\* claimed, whatever was enqueued, deferred or requeued after it.
PromotedFirst ==
    [][worker.pc = "claim" /\ worker'.pc = "claimed" /\ front \in Claimable
        => worker'.ep = front]_vars

\* The handler in c has a Wake ahead of it.
WillWake(c) ==
    \/ clients[c].pc \in {"pick", "promote", "capture", "setting", "wake"}
    \/ clients[c].pc \in {"stop", "setPaused"} /\ clients[c].resume

\* Wake: the worker never sleeps over a row it could take. If it is to wait while
\* the queue may run and a row is claimable, it has a token or one is coming;
\* rows whose request failed half way or whose retry came due are the timer's.
NoLostWakeup ==
    worker.pc \in {"timer", "wait"} /\ ~held /\ Claimable # {} =>
        wake \/ unseen \/ \E c \in Clients : WillWake(c)

\* Run: once nothing holds the queue for good, every row is downloaded,
\* failed or cancelled, whatever retries, pauses and crashes came before.
QueueDrains ==
    <>[]~held => \A e \in Episodes :
        <>[](rows[e].state \in {"none", "failed"} \/ e \in stranded)

------------------------------------------------------------------------------
(* What the comments of the code say and the code does not do.             *)

\* Cancel "drops a show's queued episodes and stops the one in flight": a
\* running download whose row was cancelled is stopped, or about to be.
CancelStopsFlight ==
    Running /\ ~worker.stopped /\ rows[worker.ep].state = "none" =>
        \E c \in Clients : At(c, "cancelStop") /\ worker.ep \in clients[c].eps
==============================================================================
