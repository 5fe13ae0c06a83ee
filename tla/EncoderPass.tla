---------------------------- MODULE EncoderPass ----------------------------
(***************************************************************************)
(* One stream session of internal/transcode/hls.go (type Session): its     *)
(* encoder passes and the requests that start, move, wait for and end      *)
(* them, with the track and sound switches of audio.go and voice.go.       *)
(*                                                                         *)
(* A request goroutine is a Client. startMu is held over a whole start;    *)
(* s.mu covers single steps, so a step of the model is one critical        *)
(* section of s.mu, one look at the directory, or one call of the          *)
(* operating system. ffmpeg is external: a process writes the init file,   *)
(* then its segments in order from run.from, and may end or fail anywhere. *)
(* A kill takes effect within the three seconds stop allows it.            *)
(***************************************************************************)
EXTENDS Integers, FiniteSets, TLC

CONSTANTS
    Clients,               \* request goroutines running at the same time
    Segments,              \* segments the playlist advertises
    restartAfterSegments,  \* how far ahead of its head a pass is let run
    MaxRuns,               \* bound: encoder processes of a behaviour
    MaxAsks,               \* bound: requests of a behaviour
    MaxFaults              \* bound: failing launches and processes

ASSUME SegmentsAssumption == Segments \in Nat \ {0}
ASSUME ReachAssumption == restartAfterSegments \in Nat
ASSUME FreeAssumption == "free" \notin Clients
ASSUME EncoderBounds == MaxRuns \in Nat /\ MaxAsks \in Nat /\ MaxFaults \in Nat

VARIABLES
    files,     \* the segment files: how much is written and by which run
    init,      \* the run that wrote init.mp4, 0 when there is none
    removed,   \* the session's directory is gone
    procs,     \* the encoder processes, by launch order
    awaiting,  \* the runs whose await goroutine has not finished
    session,   \* the Session's fields under s.mu
    startMu,   \* the client holding startMu
    clients,   \* where each request goroutine stands
    launched, calls, faults

encVars == <<files, init, removed, procs, awaiting, session, startMu, clients,
          launched, calls, faults>>

Segment == 0 .. Segments - 1
Runs == 1 .. MaxRuns
Free == "free"
Last == Segments - 1

\* A process: "live", "killed" (signalled and still writing), or how it exited.
NoProc == [state |-> "none", from |-> 0, at |-> -1, track |-> 0, subs |-> FALSE]
Exits == {"done", "cut", "crash", "init", "dead"}
AtRest == [pc |-> "idle", kind |-> "none", n |-> 0, again |-> FALSE, ready |-> FALSE, r |-> 0]

EncInit ==
    /\ files = [n \in Segment |-> [kind |-> "none", by |-> 0]]
    /\ init = 0
    /\ removed = FALSE
    /\ procs = [r \in Runs |-> NoProc]
    /\ awaiting = {}
    /\ session \in [run : {0}, headFrom : {-1}, headTo : {0}, ended : {0}, finished : {0},
                    closed : {FALSE}, hardware : BOOLEAN, fellBack : {FALSE}, track : {0}]
    /\ startMu = Free
    /\ clients = [c \in Clients |-> AtRest]
    /\ launched = 0 /\ calls = 0 /\ faults = 0

----------------------------------------------------------------------------
(* What the directory says.                                                *)

fileReady(n) == n \in Segment /\ files[n].kind # "none"
segmentReady(n) == files[n].kind \in {"part", "whole"}

\* run.wrote: a file no older than the pass. Passes are numbered in launch order.
wrote(r, n) == fileReady(n) /\ files[n].by >= r

Remove(F, S) == [n \in Segment |-> IF n \in S THEN [kind |-> "none", by |-> 0] ELSE F[n]]

\* dropTail: the last file of the contiguous ones r wrote from where it began.
TailOf(r) == {n \in Segment : /\ \A k \in procs[r].from .. n : wrote(r, k)
                              /\ n >= procs[r].from
                              /\ ~wrote(r, n + 1)}
dropTail(r) == Remove(files, TailOf(r))

\* The contiguous files from n on, which startLocked clears before a launch.
RunFrom(F, n) == {m \in Segment : m >= n /\ \A k \in n .. m : F[k].kind # "none"}

\* advanceHead: past every file of the running pass whose next file has begun.
HeadFrom(h) == {m \in Segment : m > h /\ \A k \in h + 1 .. m : wrote(session.run, k)
                                                            /\ wrote(session.run, k + 1)}
AdvancedHead ==
    IF session.run = 0 THEN session.headTo
    ELSE session.headTo + Cardinality(HeadFrom(session.headTo))

advanceHead == session' = [session EXCEPT !.headTo = AdvancedHead]

shouldRestart(n, from, to, active) ==
    ~active \/ n < from \/ n > to + 1 + restartAfterSegments

\* Variant: the next file proves n complete whoever wrote it.
nextStartedByAnyone(n) == fileReady(n + 1)

nextStarted(n) ==
    IF session.run # 0 /\ n >= procs[session.run].from
    THEN wrote(session.run, n + 1)
    ELSE fileReady(n + 1)

wroteWhole(n) == session.ended # 0 /\ wrote(session.ended, n)

\* s.waiters: the segments a WaitSegment waits for.
Waiting == {c \in Clients : clients[c].kind = "segment"
                         /\ clients[c].pc \notin {"idle", "served"}}

\* A waiter the current pass is about to serve and one starting at from is not.
Stranded(from) ==
    \E c \in Waiting :
        /\ ~shouldRestart(clients[c].n, session.headFrom, AdvancedHead, session.run # 0)
        /\ shouldRestart(clients[c].n, from, from - 1, TRUE)

----------------------------------------------------------------------------
(* Processes.                                                              *)

Goto(c, pc) == clients' = [clients EXCEPT ![c].pc = pc]
Finish(c) == clients' = [clients EXCEPT ![c] = AtRest]

Launched(from) ==
    [NoProc EXCEPT !.state = "live", !.from = from, !.track = session.track, !.subs = TRUE]

\* kill and stopSubtitles of the runs in S.
Killed(S) ==
    [r \in Runs |->
        IF r \notin S THEN procs[r]
        ELSE [procs[r] EXCEPT !.subs = FALSE,
                              !.state = IF procs[r].state = "live" THEN "killed" ELSE @]]

Exited(r, how) == [procs EXCEPT ![r].state = how, ![r].at = -1]

----------------------------------------------------------------------------
(* Requests arriving.                                                      *)

Arrive(c, req) ==
    /\ clients[c].pc = "idle" /\ calls < MaxAsks /\ ~session.closed
    /\ clients' = [clients EXCEPT ![c] = req]
    /\ calls' = calls + 1
    /\ UNCHANGED <<files, init, removed, procs, awaiting, startMu, launched, faults>>

Request(kind, n, pc) == [AtRest EXCEPT !.kind = kind, !.n = n, !.pc = pc]

\* WaitSegment up to addWaiter: a file holding media is served at once.
WaitSegment(c, n) ==
    /\ Arrive(c, Request("segment", n, IF segmentReady(n) THEN "served" ELSE "ensure"))
    /\ UNCHANGED session

WaitInit(c, from) ==
    /\ Arrive(c, Request("init", from, IF init # 0 THEN "served" ELSE "lock"))
    /\ UNCHANGED session

Prestart(c, from) ==
    /\ ~fileReady(from)
    /\ Arrive(c, Request("prestart", from, "lock"))
    /\ UNCHANGED session

\* SetAudioTrack and SetSound: n stands for the track, or for the sound options.
SetTrack(c, n) ==
    /\ n # session.track
    /\ Arrive(c, Request("track", n, "lock"))
    /\ UNCHANGED session

\* Manager.Close and discardSession mark the session before they stop it.
Close(c) ==
    /\ Arrive(c, Request("close", 0, "stop"))
    /\ session' = [session EXCEPT !.closed = TRUE]

Return(c) ==
    /\ clients[c].pc = "served"
    /\ Finish(c)
    /\ UNCHANGED <<files, init, removed, procs, awaiting, session, startMu, launched, calls, faults>>

----------------------------------------------------------------------------
(* A start: everything from startMu.Lock to the deferred unlock.           *)

\* Where a start returns to without an error.
Resumed(c) ==
    CASE clients[c].kind = "segment" -> [clients[c] EXCEPT !.pc = "loop", !.r = 0]
      [] clients[c].kind = "init" ->
            [clients[c] EXCEPT !.pc = IF clients[c].again THEN "awaitFile" ELSE "init", !.r = 0]
      [] OTHER -> AtRest

GoOn(c) == clients' = [clients EXCEPT ![c] = Resumed(c)]

ensureHead(c) ==
    /\ clients[c].pc = "ensure"
    /\ advanceHead
    /\ Goto(c, IF shouldRestart(clients[c].n, session.headFrom, AdvancedHead, session.run # 0)
               THEN "lock" ELSE "loop")
    /\ UNCHANGED <<files, init, removed, procs, awaiting, startMu, launched, calls, faults>>

Lock(c) ==
    /\ clients[c].pc = "lock" /\ startMu = Free
    /\ startMu' = c
    /\ Goto(c, "begin")
    /\ UNCHANGED <<files, init, removed, procs, awaiting, session, launched, calls, faults>>

\* Nothing to do: the session is closed, or a pass that serves this start runs.
StartIsNeedless(c) ==
    /\ session.run # 0
    /\ \/ clients[c].kind \in {"init", "prestart"}
       \/ /\ clients[c].n >= session.headFrom
          /\ clients[c].n - session.headFrom <= restartAfterSegments

\* The first half of startIfIdle and of startLocked.
BeginStart(c) ==
    /\ clients[c].pc = "begin" /\ clients[c].kind # "track"
    /\ IF session.closed THEN startMu' = Free /\ Finish(c)
       ELSE IF StartIsNeedless(c) THEN startMu' = Free /\ GoOn(c)
       ELSE Goto(c, "stranded") /\ UNCHANGED startMu
    /\ UNCHANGED <<files, init, removed, procs, awaiting, session, launched, calls, faults>>

\* SetAudioTrack or SetSound up to its stop.
BeginSwitch(c) ==
    /\ clients[c].pc = "begin" /\ clients[c].kind = "track"
    /\ IF session.closed \/ clients[c].n = session.track
       THEN startMu' = Free /\ Finish(c) /\ UNCHANGED session
       ELSE /\ session' = [session EXCEPT !.track = clients[c].n,
                                          !.headFrom = -1, !.headTo = -1]
            /\ Goto(c, "stop")
            /\ UNCHANGED startMu
    /\ UNCHANGED <<files, init, removed, procs, awaiting, launched, calls, faults>>

\* awaitStranded: no waiter is about to be served by the pass to be killed.
awaitStranded(c) ==
    /\ clients[c].pc = "stranded"
    /\ session.run = 0 \/ ~Stranded(clients[c].n)
    /\ advanceHead
    /\ Goto(c, "stop")
    /\ UNCHANGED <<files, init, removed, procs, awaiting, startMu, launched, calls, faults>>

\* strandedGrace runs out with a waiter still stranded.
GraceExpires(c) ==
    /\ clients[c].pc = "stranded"
    /\ session.run # 0 /\ Stranded(clients[c].n)
    /\ advanceHead
    /\ Goto(c, "stop")
    /\ UNCHANGED <<files, init, removed, procs, awaiting, startMu, launched, calls, faults>>

\* stop up to its wait for the process.
stop(c) ==
    /\ clients[c].pc = "stop"
    /\ procs' = Killed({session.run, session.finished} \ {0})
    /\ session' = [session EXCEPT !.run = 0, !.ended = 0, !.finished = 0]
    /\ clients' = [clients EXCEPT ![c].pc = "gone", ![c].r = session.run]
    /\ UNCHANGED <<files, init, removed, awaiting, startMu, launched, calls, faults>>

Gone(c, kinds) ==
    /\ clients[c].pc = "gone" /\ clients[c].kind \in kinds
    /\ clients[c].r # 0 => procs[clients[c].r].state \in Exits

\* Variant: the killed pass is not waited for.
ClearAheadAtOnce(c) ==
    /\ clients[c].pc = "gone" /\ clients[c].kind \in {"segment", "init", "prestart"}
    /\ LET kept == IF clients[c].r = 0 THEN files ELSE dropTail(clients[c].r)
       IN files' = Remove(kept, RunFrom(kept, clients[c].n))
    /\ Goto(c, "launch")
    /\ UNCHANGED <<init, removed, procs, awaiting, session, startMu, launched, calls, faults>>

\* startLocked between stop and launch: the killed pass's tail, then older files ahead.
ClearAhead(c) ==
    /\ Gone(c, {"segment", "init", "prestart"})
    /\ LET kept == IF clients[c].r = 0 THEN files ELSE dropTail(clients[c].r)
       IN files' = Remove(kept, RunFrom(kept, clients[c].n))
    /\ Goto(c, "launch")
    /\ UNCHANGED <<init, removed, procs, awaiting, session, startMu, launched, calls, faults>>

\* The end of SetAudioTrack and SetSound: wipeOutput.
Wipe(c) ==
    /\ Gone(c, {"track"})
    /\ files' = Remove(files, Segment) /\ init' = 0
    /\ startMu' = Free
    /\ Finish(c)
    /\ UNCHANGED <<removed, procs, awaiting, session, launched, calls, faults>>

\* teardown and discardSession remove the directory of a session nothing replaced.
RemoveAll(c) ==
    /\ Gone(c, {"close"})
    /\ files' = Remove(files, Segment) /\ init' = 0 /\ removed' = TRUE
    /\ Finish(c)
    /\ UNCHANGED <<procs, awaiting, session, startMu, launched, calls, faults>>

launch(c) ==
    /\ clients[c].pc = "launch" /\ launched < MaxRuns /\ ~removed
    /\ launched' = launched + 1
    /\ procs' = [procs EXCEPT ![launched + 1] = Launched(clients[c].n)]
    /\ clients' = [clients EXCEPT ![c].pc = "publish", ![c].r = launched + 1]
    /\ UNCHANGED <<files, init, removed, awaiting, session, startMu, calls, faults>>

\* ffmpeg does not start; past the bound on processes it never does.
launchFails(c) ==
    /\ clients[c].pc = "launch"
    /\ removed \/ launched = MaxRuns \/ faults < MaxFaults
    /\ faults' = IF removed \/ launched = MaxRuns THEN faults ELSE faults + 1
    /\ startMu' = Free
    /\ Finish(c)
    /\ UNCHANGED <<files, init, removed, procs, awaiting, session, launched, calls>>

\* The end of startLocked: a session closed meanwhile kills what it launched.
publish(c) ==
    /\ clients[c].pc = "publish"
    /\ IF session.closed
       THEN /\ procs' = Killed({clients[c].r})
            /\ Finish(c)
            /\ UNCHANGED <<session, awaiting>>
       ELSE /\ session' = [session EXCEPT !.run = clients[c].r, !.headFrom = clients[c].n,
                                          !.headTo = clients[c].n - 1]
            /\ awaiting' = awaiting \union {clients[c].r}
            /\ GoOn(c)
            /\ UNCHANGED procs
    /\ startMu' = Free
    /\ UNCHANGED <<files, init, removed, launched, calls, faults>>

----------------------------------------------------------------------------
(* The waiting loops.                                                      *)

\* WaitSegment's loop: advance the head and look at the file.
Look(c) ==
    /\ clients[c].pc = "loop"
    /\ advanceHead
    /\ clients' = [clients EXCEPT ![c].pc = "judge", ![c].ready = segmentReady(clients[c].n)]
    /\ UNCHANGED <<files, init, removed, procs, awaiting, startMu, launched, calls, faults>>

\* Whether what was seen counts as complete.
Complete(c) ==
    /\ clients[c].ready
    /\ nextStarted(clients[c].n) \/ clients[c].n >= Last \/ wroteWhole(clients[c].n)

Judge(c) ==
    /\ clients[c].pc = "judge"
    /\ clients' = [clients EXCEPT ![c].pc = IF Complete(c) THEN "served" ELSE "alive",
                                  ![c].ready = FALSE]
    /\ UNCHANGED <<files, init, removed, procs, awaiting, session, startMu, launched, calls, faults>>

\* The pass ended without it: one pass aimed at the segment, then an error.
Alive(c) ==
    /\ clients[c].pc = "alive"
    /\ clients' = [clients EXCEPT ![c] =
            IF session.run # 0 THEN [clients[c] EXCEPT !.pc = "loop"]
            ELSE IF clients[c].again THEN AtRest
            ELSE [clients[c] EXCEPT !.pc = "lock", !.again = TRUE]]
    /\ UNCHANGED <<files, init, removed, procs, awaiting, session, startMu, launched, calls, faults>>

\* WaitInit's loop, one relaunch included.
LookInit(c) ==
    /\ clients[c].pc = "init"
    /\ init # 0 \/ session.run = 0
    /\ clients' = [clients EXCEPT ![c] =
            IF init # 0 THEN [clients[c] EXCEPT !.pc = "served"]
            ELSE [clients[c] EXCEPT !.pc = "lock", !.again = TRUE]]
    /\ UNCHANGED <<files, init, removed, procs, awaiting, session, startMu, launched, calls, faults>>

awaitFile(c) ==
    /\ clients[c].pc = "awaitFile" /\ init # 0
    /\ Goto(c, "served")
    /\ UNCHANGED <<files, init, removed, procs, awaiting, session, startMu, launched, calls, faults>>

\* The request's deadline passes or its client goes away.
Deadline(c) ==
    /\ \/ clients[c].pc = "alive" /\ session.run # 0
       \/ clients[c].pc \in {"init", "awaitFile"} /\ init = 0
    /\ Finish(c)
    /\ UNCHANGED <<files, init, removed, procs, awaiting, session, startMu, launched, calls, faults>>

----------------------------------------------------------------------------
(* ffmpeg, and the goroutine that sees each process out.                   *)

Encodes(r) == procs[r].state \in {"live", "killed"} /\ ~removed

\* The first output of a pass: the init file and an empty first segment.
OpenFile(r) ==
    /\ Encodes(r) /\ procs[r].at = -1
    /\ procs' = [procs EXCEPT ![r].at = procs[r].from]
    /\ init' = r
    /\ files' = [files EXCEPT ![procs[r].from] = [kind |-> "stub", by |-> r]]
    /\ UNCHANGED <<removed, awaiting, session, startMu, clients, launched, calls, faults>>

Write(r) ==
    /\ Encodes(r) /\ procs[r].at # -1 /\ files[procs[r].at] = [kind |-> "stub", by |-> r]
    /\ files' = [files EXCEPT ![procs[r].at].kind = "part"]
    /\ UNCHANGED <<init, removed, procs, awaiting, session, startMu, clients, launched, calls, faults>>

\* A segment is closed before the next one is opened, over whatever is there.
NextSegment(r) ==
    /\ Encodes(r) /\ procs[r].at \in 0 .. Last - 1 /\ files[procs[r].at] = [kind |-> "part", by |-> r]
    /\ files' = [files EXCEPT ![procs[r].at].kind = "whole",
                              ![procs[r].at + 1] = [kind |-> "stub", by |-> r]]
    /\ procs' = [procs EXCEPT ![r].at = procs[r].at + 1]
    /\ UNCHANGED <<init, removed, awaiting, session, startMu, clients, launched, calls, faults>>

\* The input ends, at the last segment or short of it, and the open segment with it.
Ends(r) ==
    /\ Encodes(r) /\ procs[r].at # -1 /\ files[procs[r].at] = [kind |-> "part", by |-> r]
    /\ files' = [files EXCEPT ![procs[r].at].kind = "whole"]
    /\ procs' = Exited(r, "done")
    /\ UNCHANGED <<init, removed, awaiting, session, startMu, clients, launched, calls, faults>>

\* A cut stream (exit status 0), a crash, or a hardware encoder that cannot start.
Breaks(r, how) ==
    /\ procs[r].state = "live" /\ faults < MaxFaults
    /\ how = "cut" => procs[r].at # -1
    /\ how = "init" => procs[r].at = -1 /\ session.hardware
    /\ procs' = Exited(r, how)
    /\ faults' = faults + 1
    /\ UNCHANGED <<files, init, removed, awaiting, session, startMu, clients, launched, calls>>

Dies(r) ==
    /\ procs[r].state = "killed"
    /\ procs' = Exited(r, "dead")
    /\ UNCHANGED <<files, init, removed, awaiting, session, startMu, clients, launched, calls, faults>>

canFallBack(r) ==
    /\ ~session.fellBack /\ session.hardware
    /\ ~fileReady(procs[r].from)
    /\ procs[r].state = "init"

Seen(r) == procs[r].state \in Exits /\ r \in awaiting /\ awaiting' = awaiting \ {r}

\* await of a pass that was stopped or replaced.
AwaitStopped(r) ==
    /\ Seen(r) /\ session.run # r
    /\ procs' = Killed({r})
    /\ UNCHANGED <<files, init, removed, session, startMu, clients, launched, calls, faults>>

\* await of a pass that exited cleanly; a cut stream's last segment is dropped.
AwaitClean(r) ==
    /\ Seen(r) /\ session.run = r /\ procs[r].state \in {"done", "cut"}
    /\ files' = IF procs[r].state = "cut" THEN dropTail(r) ELSE files
    /\ session' = [session EXCEPT !.run = 0, !.finished = r, !.ended = r]
    /\ UNCHANGED <<init, removed, procs, startMu, clients, launched, calls, faults>>

\* await of a pass that failed and is not retried.
AwaitFailed(r) ==
    /\ Seen(r) /\ session.run = r /\ procs[r].state \notin {"done", "cut"}
    /\ ~canFallBack(r) \/ session.closed
    /\ files' = dropTail(r)
    /\ procs' = Killed({r})
    /\ session' = [session EXCEPT !.run = 0, !.ended = r]
    /\ UNCHANGED <<init, removed, startMu, clients, launched, calls, faults>>

\* await's fallback to software, all of it under s.mu; starts is FALSE when ffmpeg does not.
AwaitFallback(r, starts) ==
    /\ Seen(r) /\ session.run = r /\ canFallBack(r) /\ ~session.closed
    /\ starts => launched < MaxRuns /\ ~removed
    /\ ~starts => launched = MaxRuns \/ faults < MaxFaults
    /\ files' = IF init # 0 THEN Remove(files, Segment) ELSE dropTail(r)
    /\ init' = 0
    /\ LET soft == [session EXCEPT !.fellBack = TRUE, !.hardware = FALSE]
           next == launched + 1
       IN IF starts
          THEN /\ session' = [soft EXCEPT !.run = next, !.headFrom = procs[r].from,
                                          !.headTo = procs[r].from - 1]
               /\ procs' = [Killed({r}) EXCEPT ![next] = Launched(procs[r].from)]
               /\ awaiting' = (awaiting \ {r}) \union {next}
               /\ launched' = next
               /\ UNCHANGED faults
          ELSE /\ session' = [soft EXCEPT !.run = 0]
               /\ procs' = Killed({r})
               /\ faults' = IF launched = MaxRuns THEN faults ELSE faults + 1
               /\ UNCHANGED launched
    /\ UNCHANGED <<removed, startMu, clients, calls>>

----------------------------------------------------------------------------
Arrival(c) ==
    \/ \E n \in Segment : WaitSegment(c, n) \/ WaitInit(c, n) \/ Prestart(c, n)
    \/ \E n \in {0, 1} : SetTrack(c, n)
    \/ Close(c)

Step(c) ==
    \/ Return(c) \/ ensureHead(c) \/ BeginStart(c) \/ BeginSwitch(c)
    \/ awaitStranded(c) \/ GraceExpires(c) \/ stop(c)
    \/ ClearAhead(c) \/ Wipe(c) \/ RemoveAll(c) \/ launch(c) \/ launchFails(c) \/ publish(c)
    \/ Look(c) \/ Judge(c) \/ Alive(c) \/ LookInit(c) \/ awaitFile(c)

Encode(r) ==
    \/ OpenFile(r) \/ Write(r) \/ NextSegment(r) \/ Ends(r)
    \/ \E how \in {"cut", "crash", "init"} : Breaks(r, how)

await(r) ==
    \/ AwaitStopped(r) \/ AwaitClean(r) \/ AwaitFailed(r)
    \/ \E starts \in BOOLEAN : AwaitFallback(r, starts)

EncNext ==
    \/ \E c \in Clients : Arrival(c) \/ Lock(c) \/ Step(c) \/ Deadline(c)
    \/ \E r \in Runs : Encode(r) \/ Dies(r) \/ await(r)

EncSpec == EncInit /\ [][EncNext]_encVars

\* The request goroutines are interchangeable (for TLC).
Symmetry == Permutations(Clients)

----------------------------------------------------------------------------
(* Properties.                                                             *)

\* Every variable holds a value of its type, and startMu is held exactly by the
\* client that is inside a start or a switch.
EncTypeOK ==
    /\ files \in [Segment -> [kind : {"none", "stub", "part", "whole"}, by : 0 .. MaxRuns]]
    /\ init \in 0 .. MaxRuns /\ removed \in BOOLEAN
    /\ procs \in [Runs -> [state : {"none", "live", "killed"} \union Exits,
                           from : Segment, at : Segment \union {-1},
                           track : {0, 1}, subs : BOOLEAN]]
    /\ awaiting \subseteq Runs
    /\ session \in [run : 0 .. MaxRuns, headFrom : Segment \union {-1},
                    headTo : Segment \union {-1}, ended : 0 .. MaxRuns,
                    finished : 0 .. MaxRuns, closed : BOOLEAN, hardware : BOOLEAN,
                    fellBack : BOOLEAN, track : {0, 1}]
    /\ \A c \in Clients :
          (startMu = c) <=> \/ clients[c].pc \in {"begin", "stranded", "launch", "publish"}
                            \/ clients[c].pc \in {"stop", "gone"} /\ clients[c].kind # "close"

\* Two encoders of an open session never run in its directory at the same time, whoever
\* starts one: a waiter, the prestart, or await's own fallback, which takes no startMu.
\* (One that was being started when the session closed may meet the one Close is killing.)
OneEncoder ==
    ~session.closed =>
        \A r, q \in Runs : {procs[r].state, procs[q].state} \subseteq {"live", "killed"} => r = q

\* With no start under way, a file that is not whole is the running pass's own, and every
\* file carries the session's track: a killed, cut or crashed pass leaves no short segment
\* and a switch no segment of the old track for the fast path of WaitSegment to serve.
OnlyHeadIsShort ==
    startMu = Free /\ ~session.closed =>
        \A n \in Segment : files[n].kind # "none" =>
            /\ files[n].kind = "whole" \/ (session.run # 0 /\ files[n].by = session.run)
            /\ procs[files[n].by].track = session.track

\* headTo counts only finished segments of the running pass: a file an earlier pass left
\* past a gap never makes a half-written one look done.
HeadIsFinished ==
    session.run # 0 =>
        \A n \in session.headFrom .. session.headTo :
            n >= 0 => files[n] = [kind |-> "whole", by |-> session.run]

\* WaitSegment's loop serves no segment the running pass is still writing, the last
\* advertised one aside.
LoopServesFinished ==
    [][\A c \in Clients :
         /\ clients[c].pc = "judge" /\ clients'[c].pc = "served"
         /\ session.run # 0 /\ procs[session.run].from <= clients[c].n /\ clients[c].n < Last
         => files[clients[c].n].kind = "whole"]_encVars

\* Once a closed session's requests and awaits are over, no encoder of it is left unkilled
\* and no subtitle process runs, a start or a fallback under way at the close included.
NoStrayEncoder ==
    /\ session.closed /\ awaiting = {}
    /\ \A c \in Clients : clients[c].pc = "idle"
    => \A r \in Runs : procs[r].state # "live" /\ ~procs[r].subs

\* What holds of the encoder and its segments at every moment.
EncoderSafe == EncTypeOK /\ OneEncoder /\ OnlyHeadIsShort /\ HeadIsFinished /\ NoStrayEncoder
=============================================================================
