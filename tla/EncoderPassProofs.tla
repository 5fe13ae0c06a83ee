------------------------- MODULE EncoderPassProofs -------------------------
(***************************************************************************)
(* EncoderPass's safety invariant and what its waiting loop serves, for    *)
(* any number of requests, segments and processes.                         *)
(***************************************************************************)
EXTENDS EncoderPass, FiniteSetTheorems, TLAPS

Starters == {"segment", "init", "prestart"}
Kinds == Starters \union {"none", "track", "close"}
Places == {"idle", "served", "ensure", "lock", "begin", "stranded", "stop", "gone", "launch",
           "publish", "loop", "judge", "alive", "init", "awaitFile"}
Client == [pc : Places, kind : Kinds, n : Nat, again : BOOLEAN, ready : BOOLEAN,
           r : 0 .. MaxRuns]

\* Which requests stand where, and what their n is.
Placed(k) ==
    /\ k.kind \in Starters => k.n \in Segment
    /\ k.kind = "track" => k.n \in {0, 1}
    /\ k.kind = "close" => k.pc \in {"stop", "gone"}
    /\ k.pc \in {"stranded", "launch", "publish"} => k.kind \in Starters
    /\ k.pc \in {"lock", "begin"} => k.kind \in Starters \union {"track"}
    /\ k.pc \in {"stop", "gone"} => k.kind \in Starters \union {"track", "close"}
    /\ k.pc \in {"ensure", "loop", "judge", "alive"} => k.kind = "segment"
    /\ k.pc \in {"init", "awaitFile"} => k.kind = "init"

ClientOK ==
    /\ clients \in [Clients -> Client]
    /\ startMu \in Clients \union {Free}
    /\ launched \in 0 .. MaxRuns
    /\ \A c \in Clients : Placed(clients[c])

Running(r) == procs[r].state \in {"live", "killed"}
\* A start or a stop that still has process q in hand.
Tending(q) == \E c \in Clients : clients[c].pc \in {"gone", "publish"} /\ clients[c].r = q
Publishing(q) == \E c \in Clients : clients[c].pc = "publish" /\ clients[c].r = q
Closing == \E c \in Clients : clients[c].kind = "close" /\ clients[c].pc = "stop"
Switching == \E c \in Clients : clients[c].kind = "track" /\ clients[c].pc \in {"stop", "gone"}

\* Nothing is known of a process before its launch.
Latest ==
    /\ \A r \in Runs : r > launched => procs[r] = NoProc
    /\ session.finished <= launched
    /\ \A n \in Segment : files[n].by <= launched /\ (files[n].kind = "none" <=> files[n].by = 0)

\* The published pass is the latest process and the only one; a request between its stop
\* and its publish has the session without a pass.
RunOK ==
    /\ session.run # 0 =>
         /\ session.run = launched /\ session.run \in awaiting
         /\ session.ended = 0 /\ session.finished = 0
         /\ \A q \in Runs : Running(q) => q = session.run
    /\ \A c \in Clients :
         /\ clients[c].pc \in {"gone", "launch", "publish"} =>
              session.run = 0 /\ session.ended = 0 /\ session.finished = 0
         /\ clients[c].pc = "gone" /\ clients[c].kind # "close" /\ clients[c].r # 0 =>
              clients[c].r = launched
         /\ clients[c].pc = "publish" => clients[c].r = launched /\ launched # 0
         /\ clients[c].kind = "close" => session.closed
    /\ session.closed /\ (session.run # 0 \/ session.finished # 0) => Closing

\* In an open session a process that writes is the latest, and known to somebody.
OwnedOK ==
    ~session.closed =>
        \A q \in Runs : Running(q) => q = launched /\ (q = session.run \/ Tending(q))

\* So is a file that is not whole.
ShortOK ==
    ~session.closed =>
        \A n \in Segment : files[n].by # 0 /\ files[n].kind # "whole" =>
            files[n].by = launched /\ (files[n].by = session.run \/ Tending(files[n].by))

\* The files of pass r: without a gap from where it began, all whole but the last.
Progress(r) ==
    /\ \A n \in Segment : files[n].by = r =>
         /\ procs[r].from <= n
         /\ \A k \in procs[r].from .. n : files[k].by = r
         /\ files[n].kind # "whole" =>
              (n + 1 \in Segment => files[n + 1].by # r) /\ procs[r].state # "done"
    /\ Running(r) /\ procs[r].at = -1 => \A n \in Segment : files[n].by # r
    /\ Running(r) /\ procs[r].at # -1 =>
         files[procs[r].at].by = r /\ \A n \in Segment : n > procs[r].at => files[n].by # r

ProgressOK ==
    launched # 0 /\ (session.run # 0 \/ (~session.closed /\ Tending(launched))) =>
        Progress(launched)

TrackOK ==
    ~session.closed /\ ~Switching =>
        /\ \A n \in Segment : files[n].by # 0 => procs[files[n].by].track = session.track
        /\ \A q \in Runs : Running(q) => procs[q].track = session.track

StrayOK ==
    \A q \in Runs :
        /\ procs[q].state = "live" => q = session.run \/ Publishing(q)
        /\ procs[q].subs => q \in {session.run, session.finished} \/ Publishing(q)

EncInv ==
    /\ EncTypeOK /\ ClientOK /\ Latest /\ RunOK /\ OwnedOK /\ ShortOK /\ ProgressOK
    /\ TrackOK /\ StrayOK /\ HeadIsFinished

----------------------------------------------------------------------------
(* The head.                                                               *)

\* advanceHead moves the head over files of the running pass that are whole, and not past
\* the last segment.
LEMMA HeadAdvances ==
  ASSUME EncInv
  PROVE  /\ AdvancedHead \in Segment \union {-1}
         /\ session.run # 0 =>
              \A n \in session.headFrom .. AdvancedHead :
                n >= 0 => files[n] = [kind |-> "whole", by |-> session.run]
<1> USE SegmentsAssumption DEF Segment
<1> DEFINE h == session.headTo
           H == HeadFrom(h)
<1>1. h \in Int /\ h >= -1 /\ h <= Segments - 1 /\ session.headFrom \in Int
  BY DEF EncInv, EncTypeOK
<1>2. CASE session.run = 0
  BY <1>1, <1>2 DEF AdvancedHead, EncInv, EncTypeOK
<1>3. CASE session.run # 0
  <2>1. H \subseteq h + 1 .. Segments - 1
    BY <1>1 DEF HeadFrom
  <2>2. IsFiniteSet(h + 1 .. Segments - 1)
        /\ Cardinality(h + 1 .. Segments - 1) = Segments - 1 - h
    <3> HIDE DEF H, h
    <3>1. h + 1 \in Int /\ Segments - 1 \in Int
      BY <1>1
    <3> QED BY <1>1, <3>1, FS_Interval
  <2>3. IsFiniteSet(H) /\ Cardinality(H) \in Nat /\ Cardinality(H) <= Segments - 1 - h
    BY <2>1, <2>2, FS_Subset, FS_CardinalityType
  <2>4. AdvancedHead = h + Cardinality(H)
    BY <1>3 DEF AdvancedHead
  <2>5. AdvancedHead \in Segment \union {-1}
    <3> HIDE DEF H, h
    <3> QED BY <1>1, <2>3, <2>4
  <2>6. ASSUME NEW n \in Int, h < n, n <= AdvancedHead
        PROVE  n \in H
    <3> SUFFICES ASSUME n \notin H PROVE FALSE
      OBVIOUS
    <3>1. ASSUME NEW m \in H PROVE m \in h + 1 .. n - 1
      <4>1. m \in Int /\ m > h
        BY <1>1, <2>1
      <4>2. CASE m >= n
        BY <1>1, <2>6, <4>1, <4>2, <2>3, <2>4 DEF HeadFrom
      <4> HIDE DEF H, h
      <4> QED BY <4>1, <4>2, <1>1
    <3>2. IsFiniteSet(h + 1 .. n - 1) /\ Cardinality(h + 1 .. n - 1) = n - 1 - h
      <4> HIDE DEF H, h
      <4>1. h + 1 \in Int /\ n - 1 \in Int
        BY <1>1
      <4> QED BY <1>1, <2>6, <4>1, FS_Interval
    <3>3. H \subseteq h + 1 .. n - 1
      BY <3>1
    <3>4. Cardinality(H) <= n - 1 - h
      <4> HIDE DEF H, h
      <4> QED BY <3>2, <3>3, FS_Subset
    <3> HIDE DEF H, h
    <3> QED BY <3>4, <2>3, <2>4, <2>6, <1>1
  <2>7. ASSUME NEW n \in H
        PROVE  files[n] = [kind |-> "whole", by |-> session.run]
    <3>1. n \in Segment /\ wrote(session.run, n) /\ wrote(session.run, n + 1)
      BY <1>1 DEF HeadFrom
    <3>2. n + 1 \in Segment /\ files[n].by >= session.run /\ files[n + 1].by >= session.run
      BY <3>1 DEF wrote, fileReady
    <3>3. session.run = launched /\ launched \in Nat /\ launched # 0
      BY <1>3 DEF EncInv, RunOK, ClientOK
    <3>4. /\ files[n] \in [kind : {"none", "stub", "part", "whole"}, by : 0 .. MaxRuns]
          /\ files[n + 1].by \in 0 .. MaxRuns
      BY <3>1, <3>2 DEF EncInv, EncTypeOK
    <3>5. files[n].by = launched /\ files[n + 1].by = launched
      BY <3>1, <3>2, <3>3, <3>4 DEF EncInv, Latest
    <3>6. Progress(launched)
      BY <1>3, <3>3 DEF EncInv, ProgressOK
    <3>7. files[n].kind = "whole"
      BY <3>1, <3>2, <3>5, <3>6 DEF Progress
    <3> QED BY <3>3, <3>4, <3>5, <3>7
  <2>8. ASSUME NEW n \in session.headFrom .. AdvancedHead, n >= 0
        PROVE  files[n] = [kind |-> "whole", by |-> session.run]
    <3>1. CASE n <= h
      BY <1>1, <1>3, <2>8, <3>1 DEF EncInv, HeadIsFinished
    <3>2. CASE n > h
      BY <1>1, <2>5, <2>6, <2>7, <2>8, <3>2
    <3> QED BY <1>1, <3>1, <3>2
  <2> QED BY <2>5, <2>8
<1> QED BY <1>2, <1>3

----------------------------------------------------------------------------
(* Requests that start and stop nothing.                                   *)

\* Inside a start or a switch, with startMu held.
Inside(k) ==
    \/ k.pc \in {"begin", "stranded", "launch", "publish"}
    \/ k.pc \in {"stop", "gone"} /\ k.kind # "close"

\* What a step of client c, which ends as k, may do with startMu.
MuMoves(c, k) ==
    \/ startMu' = startMu /\ (Inside(k) <=> Inside(clients[c]))
    \/ startMu = Free /\ startMu' = c /\ Inside(k)
    \/ startMu = c /\ startMu' = Free /\ ~Inside(k)

\* startMu is held exactly by the client inside.
MuOK == \A c \in Clients : startMu = c <=> Inside(clients[c])

LEMMA MuStep ==
  ASSUME EncInv, NEW c \in Clients, NEW k, clients' = [clients EXCEPT ![c] = k],
         MuMoves(c, k)
  PROVE  MuOK' /\ startMu' \in Clients \union {Free}
<1>1. MuOK /\ startMu \in Clients \union {Free}
  BY DEF EncInv, EncTypeOK, ClientOK, MuOK, Inside
<1>2. \A d \in Clients : clients'[d] = IF d = c THEN k ELSE clients[d]
  BY DEF EncInv, ClientOK
<1>3. Free \notin Clients
  BY FreeAssumption DEF Free
<1>4. ASSUME NEW d \in Clients PROVE startMu' = d <=> Inside(clients'[d])
  BY <1>1, <1>2, <1>3 DEF MuMoves, MuOK
<1> QED BY <1>1, <1>3, <1>4 DEF MuOK, MuMoves, Inside

\* A client's step outside of stop, launch and publish leaves the files, the processes and
\* what is known of them; only the head may advance.
LEMMA QuietStep ==
  ASSUME EncInv, NEW c \in Clients, NEW k \in Client, Placed(k),
         clients' = [clients EXCEPT ![c] = k], MuMoves(c, k),
         clients[c].pc \notin {"stop", "gone", "publish"},
         k.kind # "close", k.pc \notin {"gone", "launch", "publish"},
         k.pc = "stop" => k.kind # "track",
         session' = session \/ session' = [session EXCEPT !.headTo = AdvancedHead],
         files' = files, init' = init, removed' = removed, procs' = procs,
         awaiting' = awaiting, launched' = launched
  PROVE  EncInv'
<1>1. /\ session'.run = session.run /\ session'.headFrom = session.headFrom
      /\ session'.ended = session.ended /\ session'.finished = session.finished
      /\ session'.closed = session.closed /\ session'.track = session.track
  BY DEF EncInv, EncTypeOK
<1>2. \A d \in Clients : clients'[d] = IF d = c THEN k ELSE clients[d]
  BY DEF EncInv, ClientOK
<1>3. clients[c].kind # "close"
  BY DEF EncInv, ClientOK, Placed
<1>4. /\ \A q : (Tending(q)' <=> Tending(q)) /\ (Publishing(q)' <=> Publishing(q))
      /\ Switching' <=> Switching
      /\ Closing' <=> Closing
  BY <1>2, <1>3 DEF Tending, Publishing, Switching, Closing
<1>5. MuOK' /\ startMu' \in Clients \union {Free}
  BY MuStep
<1>6. session' \in [run : 0 .. MaxRuns, headFrom : Segment \union {-1},
                    headTo : Segment \union {-1}, ended : 0 .. MaxRuns,
                    finished : 0 .. MaxRuns, closed : BOOLEAN, hardware : BOOLEAN,
                    fellBack : BOOLEAN, track : {0, 1}]
  BY HeadAdvances DEF EncInv, EncTypeOK
<1>7. EncTypeOK'
  BY <1>5, <1>6 DEF EncInv, EncTypeOK, MuOK, Inside
<1>8. ClientOK'
  BY <1>2, <1>5 DEF EncInv, ClientOK
<1>9. Latest'
  BY <1>1 DEF EncInv, Latest
<1>10. RunOK'
  <2>1. \A q \in Runs : Running(q)' <=> Running(q)
    BY DEF Running
  <2> QED BY <1>1, <1>2, <1>4, <2>1 DEF EncInv, RunOK
<1>11. OwnedOK' /\ ShortOK' /\ StrayOK'
  BY <1>1, <1>4 DEF EncInv, OwnedOK, ShortOK, StrayOK, Running
<1>12. ProgressOK'
  BY <1>1, <1>4 DEF EncInv, ProgressOK, Progress, Running
<1>13. TrackOK'
  BY <1>1, <1>4 DEF EncInv, TrackOK, Running
<1>14. HeadIsFinished'
  <2>1. session'.headTo \in {session.headTo, AdvancedHead}
    BY DEF EncInv, EncTypeOK
  <2> QED BY <1>1, <2>1, HeadAdvances DEF EncInv, HeadIsFinished
<1> QED
  BY <1>7, <1>8, <1>9, <1>10, <1>11, <1>12, <1>13, <1>14 DEF EncInv

LEMMA RestFields ==
  /\ AtRest \in Client /\ AtRest.pc = "idle" /\ AtRest.kind = "none" /\ AtRest.n = 0
  /\ AtRest.again = FALSE /\ AtRest.ready = FALSE /\ AtRest.r = 0
BY EncoderBounds DEF AtRest, Client, Places, Kinds, Starters

LEMMA RequestFields ==
  ASSUME NEW kind \in Kinds, NEW n \in Nat, NEW pc \in Places
  PROVE  /\ Request(kind, n, pc) \in Client
         /\ Request(kind, n, pc).kind = kind /\ Request(kind, n, pc).n = n
         /\ Request(kind, n, pc).pc = pc /\ Request(kind, n, pc).r = 0
<1> HIDE DEF AtRest
<1> QED BY RestFields DEF Request, Client

LEMMA SegmentIsNat == Segment \subseteq Nat
BY SegmentsAssumption DEF Segment

\* A new request that is not a close.
LEMMA ArriveStep ==
  ASSUME EncInv, NEW c \in Clients, NEW kind \in Starters \union {"track"}, NEW n \in Nat,
         kind \in Starters => n \in Segment, kind = "track" => n \in {0, 1},
         NEW pc \in {"served", "ensure", "lock"}, pc = "ensure" => kind = "segment",
         Arrive(c, Request(kind, n, pc)), session' = session
  PROVE  EncInv'
<1> DEFINE k == Request(kind, n, pc)
<1>1. k \in Client /\ k.kind = kind /\ k.n = n /\ k.pc = pc
  BY RequestFields DEF Kinds, Starters, Places
<1> HIDE DEF k
<1>2. Placed(k)
  BY <1>1 DEF Placed, Starters
<1>3. clients' = [clients EXCEPT ![c] = k] /\ clients[c].pc = "idle"
      /\ files' = files /\ init' = init /\ removed' = removed /\ procs' = procs
      /\ awaiting' = awaiting /\ launched' = launched /\ startMu' = startMu
  BY DEF Arrive, k
<1>4. MuMoves(c, k)
  BY <1>1, <1>3 DEF MuMoves, Inside
<1>5. k.kind # "close" /\ k.pc \notin {"gone", "launch", "publish", "stop"}
      /\ clients[c].pc \notin {"stop", "gone", "publish"}
  BY <1>1, <1>3 DEF Starters
<1> QED
  BY <1>1, <1>2, <1>3, <1>4, <1>5, QuietStep

\* Every arrival but a close.
LEMMA ArrivalStep ==
  ASSUME EncInv, NEW c \in Clients, Arrival(c), ~Close(c)
  PROVE  EncInv'
<1>1. ASSUME NEW n \in Segment, WaitSegment(c, n) PROVE EncInv'
  <2>1. CASE segmentReady(n)
    BY <1>1, <2>1, ArriveStep, SegmentIsNat DEF WaitSegment, Starters
  <2>2. CASE ~segmentReady(n)
    BY <1>1, <2>2, ArriveStep, SegmentIsNat DEF WaitSegment, Starters
  <2> QED BY <2>1, <2>2
<1>2. ASSUME NEW n \in Segment, WaitInit(c, n) PROVE EncInv'
  <2>1. CASE init # 0
    BY <1>2, <2>1, ArriveStep, SegmentIsNat DEF WaitInit, Starters
  <2>2. CASE init = 0
    BY <1>2, <2>2, ArriveStep, SegmentIsNat DEF WaitInit, Starters
  <2> QED BY <2>1, <2>2
<1>3. ASSUME NEW n \in Segment, Prestart(c, n) PROVE EncInv'
  BY <1>3, ArriveStep, SegmentIsNat DEF Prestart, Starters
<1>4. ASSUME NEW n \in {0, 1}, SetTrack(c, n) PROVE EncInv'
  BY <1>4, ArriveStep DEF SetTrack, Starters
<1> QED BY <1>1, <1>2, <1>3, <1>4 DEF Arrival

\* k is c's place moved to pc, by Goto or with what it has seen.
LEMMA Moved ==
  ASSUME EncInv, NEW c \in Clients, NEW pc \in Places
  PROVE  /\ [clients[c] EXCEPT !.pc = pc] \in Client
         /\ [clients[c] EXCEPT !.pc = pc].pc = pc
         /\ [clients[c] EXCEPT !.pc = pc].kind = clients[c].kind
         /\ [clients[c] EXCEPT !.pc = pc].n = clients[c].n
         /\ [clients[c] EXCEPT !.pc = pc].r = clients[c].r
         /\ [clients EXCEPT ![c].pc = pc] = [clients EXCEPT ![c] = [clients[c] EXCEPT !.pc = pc]]
BY DEF EncInv, ClientOK, Client

\* A quiet step that only moves c.
LEMMA GotoStep ==
  ASSUME EncInv, NEW c \in Clients, NEW pc \in Places, Goto(c, pc),
         LET k == [clients[c] EXCEPT !.pc = pc] IN Placed(k) /\ MuMoves(c, k),
         clients[c].pc \notin {"stop", "gone", "publish"},
         pc \notin {"gone", "launch", "publish"},
         pc = "stop" => clients[c].kind # "track",
         session' = session \/ advanceHead,
         UNCHANGED <<files, init, removed, procs, awaiting, launched>>
  PROVE  EncInv'
<1> DEFINE k == [clients[c] EXCEPT !.pc = pc]
<1>1. k \in Client /\ k.pc = pc /\ k.kind = clients[c].kind
      /\ [clients EXCEPT ![c].pc = pc] = [clients EXCEPT ![c] = k]
  BY Moved
<1>2. clients[c].kind # "close"
  BY DEF EncInv, ClientOK, Placed
<1>3. Placed(k) /\ MuMoves(c, k)
  OBVIOUS
<1>4. clients' = [clients EXCEPT ![c] = k]
  BY <1>1 DEF Goto
<1>5. session' = session \/ session' = [session EXCEPT !.headTo = AdvancedHead]
  BY DEF advanceHead
<1> HIDE DEF k
<1> QED BY <1>1, <1>2, <1>3, <1>4, <1>5, QuietStep

\* A quiet step that ends c's request.
LEMMA FinishStep ==
  ASSUME EncInv, NEW c \in Clients, Finish(c), MuMoves(c, AtRest),
         clients[c].pc \notin {"stop", "gone", "publish"}, session' = session,
         UNCHANGED <<files, init, removed, procs, awaiting, launched>>
  PROVE  EncInv'
<1>1. Placed(AtRest) /\ AtRest.kind # "close"
      /\ AtRest.pc \notin {"stop", "gone", "launch", "publish"}
  BY RestFields DEF Placed, Starters
<1> HIDE DEF AtRest
<1> QED BY <1>1, RestFields, QuietStep DEF Finish

\* Where a start leaves a request that goes on.
LEMMA ResumedFields ==
  ASSUME EncInv, NEW c \in Clients, clients[c].kind \in Starters
  PROVE  /\ Resumed(c) \in Client /\ Placed(Resumed(c)) /\ Resumed(c).kind # "close"
         /\ Resumed(c).pc \in {"idle", "loop", "awaitFile", "init"}
<1>1. clients[c] \in Client /\ Placed(clients[c])
  BY DEF EncInv, ClientOK
<1>2. CASE clients[c].kind = "segment"
  <2> DEFINE k == [clients[c] EXCEPT !.pc = "loop", !.r = 0]
  <2>0. 0 \in 0 .. MaxRuns
    BY EncoderBounds
  <2>1. k \in Client /\ k.pc = "loop" /\ k.kind = "segment" /\ k.n = clients[c].n
    BY <1>1, <1>2, <2>0 DEF Client, Places
  <2>2. Resumed(c) = k
    BY <1>2 DEF Resumed
  <2> HIDE DEF k
  <2> QED BY <1>1, <1>2, <2>1, <2>2 DEF Placed, Starters
<1>3. CASE clients[c].kind = "init"
  <2> DEFINE pc == IF clients[c].again THEN "awaitFile" ELSE "init"
             k == [clients[c] EXCEPT !.pc = pc, !.r = 0]
  <2>0. 0 \in 0 .. MaxRuns
    BY EncoderBounds
  <2>1. k \in Client /\ k.pc \in {"awaitFile", "init"} /\ k.kind = "init" /\ k.n = clients[c].n
    BY <1>1, <1>3, <2>0 DEF Client, Places
  <2>2. Resumed(c) = k
    BY <1>3 DEF Resumed
  <2> HIDE DEF k
  <2> QED BY <1>1, <1>3, <2>1, <2>2 DEF Placed, Starters
<1>4. CASE clients[c].kind = "prestart"
  <2>1. Resumed(c) = AtRest
    BY <1>4 DEF Resumed
  <2> HIDE DEF AtRest
  <2> QED BY <2>1, RestFields DEF Placed, Starters
<1> QED BY <1>2, <1>3, <1>4 DEF Starters

\* The steps of a request before its start and while it waits.
LEMMA WaitingStep ==
  ASSUME EncInv, NEW c \in Clients,
         \/ Return(c) \/ ensureHead(c) \/ Lock(c) \/ awaitStranded(c) \/ GraceExpires(c)
         \/ Look(c) \/ Judge(c) \/ Alive(c) \/ LookInit(c) \/ awaitFile(c) \/ Deadline(c)
         \/ launchFails(c)
  PROVE  EncInv'
<1>1. clients[c] \in Client /\ Placed(clients[c])
  BY DEF EncInv, ClientOK
<1>2. startMu = c <=> Inside(clients[c])
  BY DEF EncInv, EncTypeOK, Inside
<1>3. \A pc \in Places : LET k == [clients[c] EXCEPT !.pc = pc] IN
        k.pc = pc /\ k.kind = clients[c].kind /\ k.n = clients[c].n
  BY Moved
<1>4. CASE Return(c)
  <2>1. MuMoves(c, AtRest) /\ clients[c].pc = "served"
    BY <1>4, RestFields DEF Return, MuMoves, Inside
  <2> QED BY <1>4, <2>1, FinishStep DEF Return
<1>5. CASE ensureHead(c)
  <2>1. clients[c].pc = "ensure" /\ clients[c].kind = "segment" /\ startMu' = startMu
    BY <1>1, <1>5 DEF ensureHead, Placed
  <2>2. ASSUME NEW pc \in {"lock", "loop"}, Goto(c, pc) PROVE EncInv'
    <3>1. LET k == [clients[c] EXCEPT !.pc = pc] IN Placed(k) /\ MuMoves(c, k)
      BY <1>1, <1>3, <2>1 DEF Placed, MuMoves, Inside, Places, Starters
    <3> QED BY <1>5, <2>1, <2>2, <3>1, GotoStep DEF ensureHead, Places
  <2> QED BY <1>5, <2>2 DEF ensureHead
<1>6. CASE Lock(c)
  <2>1. LET k == [clients[c] EXCEPT !.pc = "begin"] IN Placed(k) /\ MuMoves(c, k)
    BY <1>1, <1>3, <1>6 DEF Lock, Placed, MuMoves, Inside, Places, Starters
  <2> QED BY <1>6, <2>1, GotoStep DEF Lock, Places
<1>7. CASE awaitStranded(c) \/ GraceExpires(c)
  <2>1. clients[c].pc = "stranded" /\ clients[c].kind \in Starters /\ startMu' = startMu
    BY <1>1, <1>7 DEF awaitStranded, GraceExpires, Placed
  <2>2. LET k == [clients[c] EXCEPT !.pc = "stop"] IN Placed(k) /\ MuMoves(c, k)
    BY <1>1, <1>3, <2>1 DEF Placed, MuMoves, Inside, Places, Starters
  <2> QED BY <1>7, <2>1, <2>2, GotoStep DEF awaitStranded, GraceExpires, Places, Starters
<1>8. CASE Look(c)
  <2> DEFINE k == [clients[c] EXCEPT !.pc = "judge", !.ready = segmentReady(clients[c].n)]
  <2>0. segmentReady(clients[c].n) \in BOOLEAN
    BY DEF segmentReady
  <2>1. k \in Client /\ k.pc = "judge" /\ k.kind = clients[c].kind /\ k.n = clients[c].n
    BY <1>1, <2>0 DEF Client, Places
  <2>2. clients' = [clients EXCEPT ![c] = k]
    BY <1>1, <1>8 DEF Look, EncInv, ClientOK
  <2>3. clients[c].pc = "loop" /\ startMu' = startMu
    BY <1>8 DEF Look
  <2> HIDE DEF k
  <2>4. Placed(k) /\ MuMoves(c, k) /\ k.kind # "close"
    BY <1>1, <2>1, <2>3 DEF Placed, MuMoves, Inside, Starters
  <2> QED BY <1>8, <2>1, <2>2, <2>3, <2>4, QuietStep DEF Look, advanceHead
<1>9. CASE Judge(c)
  <2> DEFINE k == [clients[c] EXCEPT !.pc = IF Complete(c) THEN "served" ELSE "alive",
                                     !.ready = FALSE]
  <2>1. k \in Client /\ k.pc \in {"served", "alive"} /\ k.kind = clients[c].kind
        /\ k.n = clients[c].n
    BY <1>1 DEF Client, Places
  <2>2. clients' = [clients EXCEPT ![c] = k]
    BY <1>1, <1>9 DEF Judge, EncInv, ClientOK
  <2>3. clients[c].pc = "judge" /\ startMu' = startMu
    BY <1>9 DEF Judge
  <2> HIDE DEF k
  <2>4. Placed(k) /\ MuMoves(c, k) /\ k.kind # "close"
    BY <1>1, <2>1, <2>3 DEF Placed, MuMoves, Inside, Starters
  <2> QED BY <1>9, <2>1, <2>2, <2>3, <2>4, QuietStep DEF Judge
<1>10. CASE Alive(c)
  <2>1. clients[c].pc = "alive" /\ clients[c].kind = "segment" /\ startMu' = startMu
    BY <1>1, <1>10 DEF Alive, Placed
  <2>2. CASE session.run # 0
    <3>1. LET k == [clients[c] EXCEPT !.pc = "loop"] IN
            Placed(k) /\ MuMoves(c, k) /\ clients' = [clients EXCEPT ![c] = k]
      BY <1>1, <1>3, <1>10, <2>1, <2>2 DEF Alive, Placed, MuMoves, Inside, Places, Starters
    <3>2. Goto(c, "loop")
      BY <3>1, Moved DEF Goto, Places
    <3> QED BY <1>10, <2>1, <3>1, <3>2, GotoStep DEF Alive, Places
  <2>3. CASE session.run = 0 /\ clients[c].again
    <3>1. Finish(c)
      BY <1>10, <2>3 DEF Alive, Finish
    <3>2. MuMoves(c, AtRest)
      BY <2>1, RestFields DEF MuMoves, Inside
    <3> QED BY <1>10, <2>1, <3>1, <3>2, FinishStep DEF Alive
  <2>4. CASE session.run = 0 /\ ~clients[c].again
    <3> DEFINE k == [clients[c] EXCEPT !.pc = "lock", !.again = TRUE]
    <3>1. k \in Client /\ k.pc = "lock" /\ k.kind = clients[c].kind /\ k.n = clients[c].n
      BY <1>1 DEF Client, Places
    <3>2. clients' = [clients EXCEPT ![c] = k]
      BY <1>10, <2>4 DEF Alive
    <3> HIDE DEF k
    <3>3. Placed(k) /\ MuMoves(c, k) /\ k.kind # "close"
      BY <1>1, <2>1, <3>1 DEF Placed, MuMoves, Inside, Starters
    <3> QED BY <1>10, <2>1, <3>1, <3>2, <3>3, QuietStep DEF Alive
  <2> QED BY <2>2, <2>3, <2>4
<1>11. CASE LookInit(c)
  <2>1. clients[c].pc = "init" /\ clients[c].kind = "init" /\ startMu' = startMu
    BY <1>1, <1>11 DEF LookInit, Placed
  <2>2. CASE init # 0
    <3>1. LET k == [clients[c] EXCEPT !.pc = "served"] IN
            Placed(k) /\ MuMoves(c, k) /\ clients' = [clients EXCEPT ![c] = k]
      BY <1>1, <1>3, <1>11, <2>1, <2>2 DEF LookInit, Placed, MuMoves, Inside, Places, Starters
    <3>2. Goto(c, "served")
      BY <3>1, Moved DEF Goto, Places
    <3> QED BY <1>11, <2>1, <3>1, <3>2, GotoStep DEF LookInit, Places
  <2>3. CASE init = 0
    <3> DEFINE k == [clients[c] EXCEPT !.pc = "lock", !.again = TRUE]
    <3>1. k \in Client /\ k.pc = "lock" /\ k.kind = clients[c].kind /\ k.n = clients[c].n
      BY <1>1 DEF Client, Places
    <3>2. clients' = [clients EXCEPT ![c] = k]
      BY <1>11, <2>3 DEF LookInit
    <3> HIDE DEF k
    <3>3. Placed(k) /\ MuMoves(c, k) /\ k.kind # "close"
      BY <1>1, <2>1, <3>1 DEF Placed, MuMoves, Inside, Starters
    <3> QED BY <1>11, <2>1, <3>1, <3>2, <3>3, QuietStep DEF LookInit
  <2> QED BY <2>2, <2>3
<1>12. CASE awaitFile(c)
  <2>1. clients[c].pc = "awaitFile" /\ clients[c].kind = "init" /\ startMu' = startMu
    BY <1>1, <1>12 DEF awaitFile, Placed
  <2>2. LET k == [clients[c] EXCEPT !.pc = "served"] IN Placed(k) /\ MuMoves(c, k)
    BY <1>1, <1>3, <2>1 DEF Placed, MuMoves, Inside, Places, Starters
  <2> QED BY <1>12, <2>1, <2>2, GotoStep DEF awaitFile, Places
<1>13. CASE Deadline(c)
  <2>1. clients[c].pc \in {"alive", "init", "awaitFile"} /\ startMu' = startMu
    BY <1>13 DEF Deadline
  <2>2. MuMoves(c, AtRest)
    BY <2>1, RestFields DEF MuMoves, Inside
  <2> QED BY <1>13, <2>1, <2>2, FinishStep DEF Deadline
<1>14. CASE launchFails(c)
  <2>1. clients[c].pc = "launch" /\ startMu' = Free
    BY <1>14 DEF launchFails
  <2>2. MuMoves(c, AtRest)
    BY <1>2, <2>1, RestFields DEF MuMoves, Inside
  <2> QED BY <1>14, <2>1, <2>2, FinishStep DEF launchFails
<1> QED
  BY <1>4, <1>5, <1>6, <1>7, <1>8, <1>9, <1>10, <1>11, <1>12, <1>13, <1>14

\* The beginning of a start: it ends at once, lets the request go on, or goes to stop.
LEMMA BeginStartStep ==
  ASSUME EncInv, NEW c \in Clients, BeginStart(c)
  PROVE  EncInv'
<1>1. clients[c] \in Client /\ Placed(clients[c]) /\ clients[c].pc = "begin"
      /\ clients[c].kind \in Starters
  BY DEF EncInv, ClientOK, BeginStart, Placed
<1>2. startMu = c
  BY <1>1 DEF EncInv, EncTypeOK
<1>3. UNCHANGED <<files, init, removed, procs, awaiting, launched>> /\ session' = session
  BY DEF BeginStart
<1>4. CASE startMu' = Free /\ Finish(c)
  <2>1. MuMoves(c, AtRest)
    BY <1>2, <1>4, RestFields DEF MuMoves, Inside
  <2> QED BY <1>1, <1>3, <1>4, <2>1, FinishStep
<1>5. CASE startMu' = Free /\ GoOn(c)
  <2> DEFINE k == Resumed(c)
  <2>1. k \in Client /\ Placed(k) /\ k.kind # "close"
        /\ k.pc \in {"idle", "loop", "awaitFile", "init"}
    BY <1>1, ResumedFields
  <2>2. clients' = [clients EXCEPT ![c] = k]
    BY <1>5 DEF GoOn
  <2> HIDE DEF k
  <2>3. MuMoves(c, k)
    BY <1>2, <1>5, <2>1 DEF MuMoves, Inside
  <2> QED BY <1>1, <1>3, <2>1, <2>2, <2>3, QuietStep
<1>6. CASE Goto(c, "stranded") /\ startMu' = startMu
  <2>1. LET k == [clients[c] EXCEPT !.pc = "stranded"] IN Placed(k) /\ MuMoves(c, k)
    BY <1>1, <1>6, Moved DEF Placed, MuMoves, Inside, Places, Starters
  <2> QED BY <1>1, <1>3, <1>6, <2>1, GotoStep DEF Places
<1> QED BY <1>4, <1>5, <1>6 DEF BeginStart

----------------------------------------------------------------------------
(* Requests that end or start a pass.                                      *)

\* In an open session only the holder of startMu has a process in hand.
LEMMA SoleTender ==
  ASSUME EncInv, ~session.closed, NEW c \in Clients, Inside(clients[c]),
         NEW d \in Clients, clients[d].pc \in {"gone", "launch", "publish"}
  PROVE  d = c
<1>1. clients[d].kind # "close"
  BY DEF EncInv, RunOK
<1> QED BY <1>1 DEF EncInv, EncTypeOK, Inside

\* The type of the files, of the processes and of the session.
FileType == [kind : {"none", "stub", "part", "whole"}, by : 0 .. MaxRuns]
ProcType == [state : {"none", "live", "killed"} \union Exits, from : Segment,
             at : Segment \union {-1}, track : {0, 1}, subs : BOOLEAN]
SessionType == [run : 0 .. MaxRuns, headFrom : Segment \union {-1},
                headTo : Segment \union {-1}, ended : 0 .. MaxRuns,
                finished : 0 .. MaxRuns, closed : BOOLEAN, hardware : BOOLEAN,
                fellBack : BOOLEAN, track : {0, 1}]

LEMMA Types ==
  EncTypeOK <=>
    /\ files \in [Segment -> FileType] /\ init \in 0 .. MaxRuns /\ removed \in BOOLEAN
    /\ procs \in [Runs -> ProcType] /\ awaiting \subseteq Runs /\ session \in SessionType
    /\ MuOK
BY DEF EncTypeOK, FileType, ProcType, SessionType, MuOK, Inside

LEMMA TypesNext ==
  ASSUME files' \in [Segment -> FileType], init' \in 0 .. MaxRuns, removed' \in BOOLEAN,
         procs' \in [Runs -> ProcType], awaiting' \subseteq Runs, session' \in SessionType,
         MuOK'
  PROVE  EncTypeOK'
BY DEF EncTypeOK, FileType, ProcType, SessionType, MuOK, Inside

\* P is procs with the runs of S killed: all of a process is left but its life and its
\* subtitles.
Kills(P, S) ==
    /\ P \in [Runs -> ProcType]
    /\ \A q \in Runs :
         /\ P[q].from = procs[q].from /\ P[q].at = procs[q].at /\ P[q].track = procs[q].track
         /\ P[q].state = IF q \in S /\ procs[q].state = "live" THEN "killed" ELSE procs[q].state
         /\ P[q].subs = IF q \in S THEN FALSE ELSE procs[q].subs
         /\ q \notin S => P[q] = procs[q]

LEMMA KilledFields ==
  ASSUME EncInv, NEW S
  PROVE  Kills(Killed(S), S)
<1>0. procs \in [Runs -> ProcType]
  BY Types DEF EncInv
<1>1. ASSUME NEW q \in Runs
      PROVE  /\ Killed(S)[q] \in ProcType
             /\ Killed(S)[q].from = procs[q].from /\ Killed(S)[q].at = procs[q].at
             /\ Killed(S)[q].track = procs[q].track
             /\ Killed(S)[q].state =
                  IF q \in S /\ procs[q].state = "live" THEN "killed" ELSE procs[q].state
             /\ Killed(S)[q].subs = IF q \in S THEN FALSE ELSE procs[q].subs
             /\ q \notin S => Killed(S)[q] = procs[q]
  <2>1. procs[q] \in ProcType
    BY <1>0
  <2>2. CASE q \notin S
    BY <2>1, <2>2 DEF Killed
  <2>3. CASE q \in S
    <3> DEFINE st == IF procs[q].state = "live" THEN "killed" ELSE procs[q].state
               e == [procs[q] EXCEPT !.subs = FALSE, !.state = st]
    <3>1. Killed(S)[q] = e
      BY <2>3 DEF Killed
    <3>2. e \in ProcType /\ e.from = procs[q].from /\ e.at = procs[q].at
          /\ e.track = procs[q].track /\ e.state = st /\ e.subs = FALSE
      BY <2>1 DEF ProcType
    <3> HIDE DEF e
    <3> QED BY <2>3, <3>1, <3>2
  <2> QED BY <2>2, <2>3
<1>2. Killed(S) = [q \in Runs |-> Killed(S)[q]]
  BY DEF Killed
<1> QED BY <1>1, <1>2 DEF Kills

\* Removing files leaves the others.
LEMMA RemoveFields ==
  ASSUME NEW F \in [Segment -> FileType], NEW S
  PROVE  /\ Remove(F, S) \in [Segment -> FileType]
         /\ \A n \in Segment :
              /\ n \in S => Remove(F, S)[n].kind = "none" /\ Remove(F, S)[n].by = 0
              /\ n \notin S => Remove(F, S)[n] = F[n]
<1>1. [kind |-> "none", by |-> 0] \in FileType
  BY EncoderBounds DEF FileType
<1> QED BY <1>1 DEF Remove

\* SetAudioTrack and SetSound up to the stop: from here to the wipe the files may carry the
\* old track.
LEMMA BeginSwitchStep ==
  ASSUME EncInv, NEW c \in Clients, BeginSwitch(c)
  PROVE  EncInv'
<1>1. clients[c] \in Client /\ Placed(clients[c]) /\ clients[c].pc = "begin"
      /\ clients[c].kind = "track" /\ clients[c].n \in {0, 1}
  BY DEF EncInv, ClientOK, BeginSwitch, Placed
<1>2. startMu = c
  BY <1>1 DEF EncInv, EncTypeOK
<1>3. UNCHANGED <<files, init, removed, procs, awaiting, launched>>
  BY DEF BeginSwitch
<1>4. CASE startMu' = Free /\ Finish(c) /\ session' = session
  <2>1. MuMoves(c, AtRest)
    BY <1>2, <1>4, RestFields DEF MuMoves, Inside
  <2> QED BY <1>1, <1>3, <1>4, <2>1, FinishStep
<1>5. CASE /\ session' = [session EXCEPT !.track = clients[c].n, !.headFrom = -1, !.headTo = -1]
           /\ Goto(c, "stop") /\ startMu' = startMu
  <2> DEFINE k == [clients[c] EXCEPT !.pc = "stop"]
  <2>1. k \in Client /\ k.pc = "stop" /\ k.kind = "track" /\ k.n = clients[c].n
        /\ clients' = [clients EXCEPT ![c] = k]
    <3>1. "stop" \in Places
      BY DEF Places
    <3>2. /\ k \in Client /\ k.pc = "stop" /\ k.kind = clients[c].kind /\ k.n = clients[c].n
          /\ [clients EXCEPT ![c].pc = "stop"] = [clients EXCEPT ![c] = k]
      BY <3>1, Moved
    <3> QED BY <1>1, <1>5, <3>2 DEF Goto
  <2> HIDE DEF k
  <2>2. Placed(k) /\ MuMoves(c, k)
    BY <1>1, <1>5, <2>1 DEF Placed, MuMoves, Inside, Starters
  <2>3. MuOK' /\ startMu' \in Clients \union {Free}
    BY <2>1, <2>2, MuStep
  <2>4. \A d \in Clients : clients'[d] = IF d = c THEN k ELSE clients[d]
    BY <2>1 DEF EncInv, ClientOK
  <2>5. /\ session' \in SessionType
        /\ session'.run = session.run /\ session'.ended = session.ended
        /\ session'.finished = session.finished /\ session'.closed = session.closed
        /\ session'.headFrom = -1 /\ session'.headTo = -1
    BY <1>1, <1>5, Types DEF EncInv, SessionType
  <2>6. /\ \A q : (Tending(q)' <=> Tending(q)) /\ (Publishing(q)' <=> Publishing(q))
        /\ Switching' /\ (Closing' <=> Closing)
    BY <1>1, <2>1, <2>4 DEF Tending, Publishing, Switching, Closing
  <2>7. EncTypeOK'
    BY <1>3, <2>3, <2>5, Types, TypesNext DEF EncInv
  <2>8. ClientOK'
    BY <1>3, <2>1, <2>2, <2>3, <2>4 DEF EncInv, ClientOK
  <2>9. Latest'
    BY <1>3, <2>5 DEF EncInv, Latest
  <2>10. RunOK'
    BY <1>3, <2>1, <2>4, <2>5, <2>6 DEF EncInv, RunOK, Running
  <2>11. OwnedOK' /\ ShortOK' /\ StrayOK'
    BY <1>3, <2>5, <2>6 DEF EncInv, OwnedOK, ShortOK, StrayOK, Running
  <2>12. ProgressOK'
    BY <1>3, <2>5, <2>6 DEF EncInv, ProgressOK, Progress, Running
  <2>13. TrackOK'
    BY <2>6 DEF TrackOK
  <2>14. HeadIsFinished'
    BY <2>5 DEF HeadIsFinished
  <2> QED
    BY <2>7, <2>8, <2>9, <2>10, <2>11, <2>12, <2>13, <2>14 DEF EncInv
<1> QED BY <1>4, <1>5 DEF BeginSwitch

\* A close marks the session; its stop comes next.
LEMMA CloseStep ==
  ASSUME EncInv, NEW c \in Clients, Close(c)
  PROVE  EncInv'
<1> DEFINE k == Request("close", 0, "stop")
<1>1. k \in Client /\ k.kind = "close" /\ k.n = 0 /\ k.pc = "stop"
  BY RequestFields DEF Kinds, Starters, Places
<1>2. /\ clients' = [clients EXCEPT ![c] = k] /\ clients[c].pc = "idle"
      /\ files' = files /\ init' = init /\ removed' = removed /\ procs' = procs
      /\ awaiting' = awaiting /\ launched' = launched /\ startMu' = startMu
      /\ session' = [session EXCEPT !.closed = TRUE]
  BY DEF Close, Arrive
<1> HIDE DEF k
<1>3. Placed(k) /\ MuMoves(c, k)
  BY <1>1, <1>2 DEF Placed, MuMoves, Inside, Starters
<1>4. MuOK' /\ startMu' \in Clients \union {Free}
  BY <1>2, <1>3, MuStep
<1>5. \A d \in Clients : clients'[d] = IF d = c THEN k ELSE clients[d]
  BY <1>2 DEF EncInv, ClientOK
<1>6. /\ session' \in SessionType
      /\ session'.run = session.run /\ session'.ended = session.ended
      /\ session'.finished = session.finished /\ session'.closed
      /\ session'.headFrom = session.headFrom /\ session'.headTo = session.headTo
  BY <1>2, Types DEF EncInv, SessionType
<1>7. (\A q : Publishing(q)' <=> Publishing(q)) /\ Closing'
  BY <1>1, <1>2, <1>5 DEF Publishing, Closing
<1>8. EncTypeOK'
  BY <1>2, <1>4, <1>6, Types, TypesNext DEF EncInv
<1>9. ClientOK'
  BY <1>1, <1>2, <1>3, <1>4, <1>5 DEF EncInv, ClientOK
<1>10. Latest'
  BY <1>2, <1>6 DEF EncInv, Latest
<1>11. RunOK'
  BY <1>1, <1>2, <1>5, <1>6, <1>7 DEF EncInv, RunOK, Running
<1>12. OwnedOK' /\ ShortOK' /\ TrackOK'
  BY <1>6 DEF OwnedOK, ShortOK, TrackOK
<1>13. StrayOK'
  BY <1>2, <1>6, <1>7 DEF EncInv, StrayOK
<1>14. ProgressOK'
  BY <1>2, <1>6 DEF EncInv, ProgressOK, Progress, Running
<1>15. HeadIsFinished'
  BY <1>2, <1>6 DEF EncInv, HeadIsFinished
<1> QED
  BY <1>8, <1>9, <1>10, <1>11, <1>12, <1>13, <1>14, <1>15 DEF EncInv

\* stop kills the pass and takes it off the session; the request keeps it in hand.
LEMMA StopStep ==
  ASSUME EncInv, NEW c \in Clients, stop(c)
  PROVE  EncInv'
<1> DEFINE k == [clients[c] EXCEPT !.pc = "gone", !.r = session.run]
           S == {session.run, session.finished} \ {0}
<1>0. session.run \in 0 .. MaxRuns /\ session.finished \in 0 .. MaxRuns
  BY DEF EncInv, EncTypeOK
<1>1. clients[c] \in Client /\ Placed(clients[c]) /\ clients[c].pc = "stop"
  BY DEF EncInv, ClientOK, stop
<1>2. k \in Client /\ k.pc = "gone" /\ k.kind = clients[c].kind /\ k.n = clients[c].n
      /\ k.r = session.run
  BY <1>0, <1>1 DEF Client, Places
<1>3. clients' = [clients EXCEPT ![c] = k]
  BY <1>1 DEF stop, EncInv, ClientOK
<1> HIDE DEF k
<1>4. /\ files' = files /\ init' = init /\ removed' = removed /\ awaiting' = awaiting
      /\ launched' = launched /\ startMu' = startMu /\ procs' = Killed(S)
      /\ session' = [session EXCEPT !.run = 0, !.ended = 0, !.finished = 0]
  BY DEF stop
<1>5. Placed(k) /\ MuMoves(c, k)
  BY <1>1, <1>2, <1>4 DEF Placed, MuMoves, Inside, Starters
<1>6. MuOK' /\ startMu' \in Clients \union {Free}
  BY <1>3, <1>5, MuStep
<1>7. \A d \in Clients : clients'[d] = IF d = c THEN k ELSE clients[d]
  BY <1>3 DEF EncInv, ClientOK
<1>8. /\ session' \in SessionType /\ session'.run = 0 /\ session'.ended = 0
      /\ session'.finished = 0 /\ session'.closed = session.closed
      /\ session'.track = session.track
  <2>1. 0 \in 0 .. MaxRuns
    BY EncoderBounds
  <2> QED BY <1>4, <2>1, Types DEF EncInv, SessionType
<1>9. Kills(procs', S)
  <2> HIDE DEF S
  <2> QED BY <1>4, KilledFields
<1>10. \A q \in Runs : Running(q)' <=> Running(q)
  BY <1>9 DEF Running, Kills
<1>11. /\ \A q : Tending(q)' <=> (Tending(q) \/ q = session.run)
       /\ \A q : Publishing(q)' <=> Publishing(q)
       /\ Switching' <=> Switching
  BY <1>1, <1>2, <1>7 DEF Tending, Publishing, Switching
<1>12. EncTypeOK'
  BY <1>4, <1>6, <1>8, <1>9, Types, TypesNext DEF EncInv, Kills
<1>13. ClientOK'
  <2>1. clients' \in [Clients -> Client]
    BY <1>2, <1>3 DEF EncInv, ClientOK
  <2>2. \A d \in Clients : Placed(clients'[d])
    BY <1>5, <1>7 DEF EncInv, ClientOK
  <2> QED BY <1>4, <1>6, <2>1, <2>2 DEF EncInv, ClientOK, Placed
<1>14. Latest'
  <2>1. session.run <= launched
    BY <1>0, EncoderBounds DEF EncInv, RunOK, ClientOK
  <2>2. ASSUME NEW r \in Runs, r > launched PROVE procs'[r] = NoProc
    <3>1. r \notin S
      BY <2>1, <2>2, <1>0, <1>4 DEF Runs, EncInv, ClientOK, Latest
    <3> QED BY <3>1, <2>2, <1>4, <1>9 DEF EncInv, Latest, Kills
  <2>3. session'.finished <= launched'
    BY <1>4, <1>8 DEF EncInv, ClientOK
  <2> QED BY <1>4, <2>2, <2>3 DEF EncInv, Latest
<1>15. RunOK'
  <2>1. ASSUME NEW d \in Clients
        PROVE  /\ clients'[d].pc = "gone" /\ clients'[d].kind # "close" /\ clients'[d].r # 0 =>
                    clients'[d].r = launched
               /\ clients'[d].pc = "publish" => clients'[d].r = launched /\ launched # 0
               /\ clients'[d].kind = "close" => session.closed
    BY <1>1, <1>2, <1>7 DEF EncInv, RunOK
  <2> QED BY <1>4, <1>8, <2>1 DEF RunOK
<1>16. OwnedOK' /\ ShortOK'
  BY <1>4, <1>8, <1>10, <1>11 DEF EncInv, OwnedOK, ShortOK
<1>17. ProgressOK'
  <2> SUFFICES ASSUME launched # 0, ~session.closed, Tending(launched) \/ launched = session.run
               PROVE  Progress(launched)'
    BY <1>4, <1>8, <1>11 DEF ProgressOK
  <2>1. Progress(launched)
    BY DEF EncInv, ProgressOK
  <2>2. launched \in Runs
    BY DEF EncInv, ClientOK, Runs
  <2>3. /\ procs'[launched].from = procs[launched].from /\ procs'[launched].at = procs[launched].at
        /\ procs'[launched].state = "done" <=> procs[launched].state = "done"
        /\ procs'[launched].state \in {"live", "killed"} <=>
             procs[launched].state \in {"live", "killed"}
    <3> HIDE DEF S
    <3> QED BY <1>9, <2>2 DEF Kills
  <2> QED BY <1>4, <2>1, <2>3 DEF Progress, Running
<1>18. TrackOK'
  <2>1. ASSUME NEW n \in Segment, files[n].by # 0 PROVE files[n].by \in Runs
    BY <2>1, Types DEF EncInv, FileType, Runs
  <2> HIDE DEF S
  <2>2. \A q \in Runs : procs'[q].track = procs[q].track
    BY <1>9 DEF Kills
  <2> QED BY <1>4, <1>8, <1>10, <1>11, <2>1, <2>2 DEF EncInv, TrackOK
<1>19. StrayOK'
  <2>1. ASSUME NEW q \in Runs
        PROVE  /\ procs'[q].state = "live" => Publishing(q)
               /\ procs'[q].subs => Publishing(q)
    <3>1. q # 0
      BY DEF Runs
    <3> QED BY <1>9, <3>1 DEF EncInv, StrayOK, Kills
  <2> QED BY <1>11, <2>1 DEF StrayOK
<1>20. HeadIsFinished'
  BY <1>8 DEF HeadIsFinished
<1> QED
  BY <1>12, <1>13, <1>14, <1>15, <1>16, <1>17, <1>18, <1>19, <1>20 DEF EncInv

\* dropTail removes the one file of the latest pass that is not whole.
LEMMA ShortIsTail ==
  ASSUME EncInv, launched # 0, Progress(launched), NEW n \in Segment,
         files[n].by = launched, files[n].kind # "whole"
  PROVE  n \in TailOf(launched)
<1>1. launched \in Nat /\ launched > 0 /\ launched \in Runs
  BY DEF EncInv, ClientOK, Runs
<1>2. /\ \A k \in Segment : files[k].by \in Nat
      /\ procs[launched].from \in Segment
  BY <1>1, Types, EncoderBounds DEF EncInv, FileType, ProcType
<1>3. Segment \subseteq Int /\ \A k, m \in Segment : k .. m \subseteq Segment
  BY SegmentsAssumption DEF Segment
<1>4. procs[launched].from <= n /\ \A k \in procs[launched].from .. n : files[k].by = launched
  BY DEF Progress
<1>5. ASSUME NEW k \in procs[launched].from .. n PROVE wrote(launched, k)
  <2>1. k \in Segment /\ files[k].by = launched
    BY <1>2, <1>3, <1>4
  <2>2. files[k].kind # "none"
    BY <1>1, <2>1 DEF EncInv, Latest
  <2> QED BY <1>1, <2>1, <2>2 DEF wrote, fileReady
<1>6. ~wrote(launched, n + 1)
  <2> SUFFICES ASSUME n + 1 \in Segment, files[n + 1].by >= launched PROVE FALSE
    BY DEF wrote, fileReady
  <2>1. files[n + 1].by = launched
    BY <1>1, <1>2 DEF EncInv, Latest
  <2> QED BY <2>1 DEF Progress
<1> QED BY <1>3, <1>4, <1>5, <1>6 DEF TailOf

\* A stop whose process has gone: in an open session nothing runs, and what is not whole is
\* the tail of that process.
LEMMA NothingRuns ==
  ASSUME EncInv, ~session.closed, NEW c \in Clients, clients[c].pc = "gone",
         clients[c].kind # "close", clients[c].r # 0 => procs[clients[c].r].state \in Exits
  PROVE  /\ \A q \in Runs : ~Running(q)
         /\ \A n \in Segment : files[n].by # 0 /\ files[n].kind # "whole" =>
              clients[c].r # 0 /\ n \in TailOf(clients[c].r)
<1>1. session.run = 0
  BY DEF EncInv, RunOK
<1>2. ASSUME NEW q, Tending(q) PROVE clients[c].r = q
  BY <1>2, SoleTender DEF Tending, Inside
<1>3. ASSUME NEW q \in Runs PROVE ~Running(q)
  <2> SUFFICES ASSUME Running(q) PROVE FALSE
    OBVIOUS
  <2>1. q # 0
    BY DEF Runs
  <2>2. clients[c].r = q
    BY <1>1, <1>2, <2>1 DEF EncInv, OwnedOK
  <2> QED BY <2>1, <2>2 DEF Running, Exits
<1>4. ASSUME NEW n \in Segment, files[n].by # 0, files[n].kind # "whole"
      PROVE  clients[c].r # 0 /\ n \in TailOf(clients[c].r)
  <2>1. files[n].by = launched /\ Tending(launched)
    BY <1>1, <1>4 DEF EncInv, ShortOK
  <2>2. clients[c].r = launched /\ launched # 0
    BY <1>2, <1>4, <2>1
  <2>3. Progress(launched)
    BY <2>1, <2>2 DEF EncInv, ProgressOK
  <2> QED BY <1>4, <2>1, <2>2, <2>3, ShortIsTail
<1> QED BY <1>3, <1>4

\* A step of a client that has waited for its process and removes files: it goes on to
\* launch, or it is done.
LEMMA RemovalStep ==
  ASSUME EncInv, NEW c \in Clients, NEW k \in Client, Placed(k), k.kind # "close",
         clients' = [clients EXCEPT ![c] = k], MuMoves(c, k),
         clients[c].pc = "gone",
         clients[c].r # 0 => procs[clients[c].r].state \in Exits,
         k.pc = "launch" \/ k.pc = "idle",
         k.pc = "launch" => clients[c].kind \in Starters,
         clients[c].kind = "track" => \A n \in Segment : files'[n].by = 0,
         files' \in [Segment -> FileType],
         \A n \in Segment : files'[n] = files[n] \/ (files'[n].by = 0 /\ files'[n].kind = "none"),
         ~session.closed => \A n \in Segment : files'[n].by = 0 \/ files'[n].kind = "whole",
         init' \in 0 .. MaxRuns, removed' \in BOOLEAN,
         session' = session, procs' = procs, awaiting' = awaiting, launched' = launched
  PROVE  EncInv'
<1>1. \A d \in Clients : clients'[d] = IF d = c THEN k ELSE clients[d]
  BY DEF EncInv, ClientOK
<1>2. MuOK' /\ startMu' \in Clients \union {Free}
  BY MuStep
<1>3. clients[c] \in Client /\ Placed(clients[c])
  BY DEF EncInv, ClientOK
<1>4. session.run = 0 /\ session.ended = 0 /\ session.finished = 0
  BY DEF EncInv, RunOK
<1>5. /\ \A q : Publishing(q)' <=> Publishing(q)
      /\ \A q : Tending(q)' => Tending(q)
      /\ Switching' => Switching
  BY <1>1 DEF Publishing, Tending, Switching
<1>6. EncTypeOK'
  BY <1>2, Types, TypesNext DEF EncInv
<1>7. ClientOK'
  BY <1>1, <1>2 DEF EncInv, ClientOK
<1>8. Latest'
  <2>1. launched \in Nat
    BY DEF EncInv, ClientOK
  <2> QED BY <2>1 DEF EncInv, Latest
<1>9. RunOK'
  BY <1>1, <1>4 DEF EncInv, RunOK
<1>10. ASSUME ~session.closed PROVE clients[c].kind # "close" /\ \A q \in Runs : ~Running(q)
  <2>1. clients[c].kind # "close"
    BY <1>10 DEF EncInv, RunOK
  <2> QED BY <1>10, <2>1, NothingRuns
<1>11. OwnedOK'
  BY <1>10 DEF OwnedOK, Running
<1>12. ShortOK'
  BY DEF ShortOK
<1>13. ProgressOK'
  <2> SUFFICES ASSUME ~session.closed, Tending(launched)' PROVE FALSE
    BY <1>4 DEF ProgressOK
  <2>1. PICK d \in Clients : clients'[d].pc \in {"gone", "publish"}
    BY DEF Tending
  <2>2. d # c /\ clients[d].pc \in {"gone", "publish"}
    BY <1>1, <2>1
  <2>3. Inside(clients[c])
    BY <1>10 DEF Inside
  <2> QED BY <2>2, <2>3, SoleTender
<1>14. TrackOK'
  <2> SUFFICES ASSUME ~session.closed, ~Switching'
               PROVE  \A n \in Segment : files'[n].by # 0 =>
                        procs[files'[n].by].track = session.track
    BY <1>10 DEF TrackOK, Running
  <2>1. CASE clients[c].kind = "track"
    BY <2>1
  <2>2. CASE clients[c].kind # "track"
    <3>1. ~Switching
      BY <1>1, <2>2 DEF Switching
    <3> QED BY <3>1 DEF EncInv, TrackOK
  <2> QED BY <2>1, <2>2
<1>15. StrayOK'
  BY <1>5 DEF EncInv, StrayOK
<1>16. HeadIsFinished'
  BY <1>4 DEF HeadIsFinished
<1> QED
  BY <1>6, <1>7, <1>8, <1>9, <1>11, <1>12, <1>13, <1>14, <1>15, <1>16 DEF EncInv

\* startLocked between stop and launch, wipeOutput, and the directory's end.
LEMMA GoneStep ==
  ASSUME EncInv, NEW c \in Clients, ClearAhead(c) \/ Wipe(c) \/ RemoveAll(c)
  PROVE  EncInv'
<1>1. clients[c] \in Client /\ Placed(clients[c]) /\ clients[c].pc = "gone"
      /\ (clients[c].r # 0 => procs[clients[c].r].state \in Exits)
  BY DEF EncInv, ClientOK, ClearAhead, Wipe, RemoveAll, Gone
<1>2. files \in [Segment -> FileType] /\ init \in 0 .. MaxRuns /\ removed \in BOOLEAN
      /\ 0 \in 0 .. MaxRuns
  BY Types, EncoderBounds DEF EncInv
<1>3. startMu = c <=> Inside(clients[c])
  BY DEF EncInv, EncTypeOK, Inside
<1>4. CASE ClearAhead(c)
  <2> DEFINE kept == IF clients[c].r = 0 THEN files ELSE dropTail(clients[c].r)
             k == [clients[c] EXCEPT !.pc = "launch"]
  <2>1. clients[c].kind \in Starters
    BY <1>4 DEF ClearAhead, Gone, Starters
  <2>2. k \in Client /\ k.pc = "launch" /\ k.kind = clients[c].kind /\ k.n = clients[c].n
        /\ clients' = [clients EXCEPT ![c] = k]
    BY <1>4, Moved DEF ClearAhead, Goto, Places
  <2> HIDE DEF k
  <2>3. Placed(k) /\ k.kind # "close"
    BY <1>1, <2>1, <2>2 DEF Placed, Starters
  <2>4. MuMoves(c, k)
    BY <1>1, <1>4, <2>1, <2>2 DEF ClearAhead, MuMoves, Inside, Starters
  <2>5. files' = Remove(kept, RunFrom(kept, clients[c].n))
    BY <1>4 DEF ClearAhead
  <2>6. kept \in [Segment -> FileType]
        /\ \A n \in Segment : kept[n] = files[n] \/ (kept[n].by = 0 /\ kept[n].kind = "none")
    BY <1>2, RemoveFields DEF dropTail
  <2>7. ASSUME ~session.closed, NEW n \in Segment PROVE kept[n].by = 0 \/ kept[n].kind = "whole"
    <3>1. CASE files[n].by = 0 \/ files[n].kind = "whole"
      BY <2>6, <3>1
    <3>2. CASE files[n].by # 0 /\ files[n].kind # "whole"
      <4>1. clients[c].r # 0 /\ n \in TailOf(clients[c].r)
        BY <1>1, <2>1, <2>7, <3>2, NothingRuns DEF Starters
      <4>2. kept = Remove(files, TailOf(clients[c].r))
        BY <4>1 DEF dropTail
      <4> QED BY <1>2, <4>1, <4>2, RemoveFields
    <3> QED BY <3>1, <3>2
  <2> HIDE DEF kept
  <2>8. /\ files' \in [Segment -> FileType]
        /\ \A n \in Segment : files'[n] = kept[n] \/ (files'[n].by = 0 /\ files'[n].kind = "none")
    BY <2>5, <2>6, RemoveFields
  <2>9. /\ \A n \in Segment : files'[n] = files[n] \/ (files'[n].by = 0 /\ files'[n].kind = "none")
        /\ ~session.closed => \A n \in Segment : files'[n].by = 0 \/ files'[n].kind = "whole"
    BY <2>6, <2>7, <2>8
  <2> QED
    BY <1>1, <1>2, <1>4, <2>1, <2>2, <2>3, <2>4, <2>8, <2>9, RemovalStep DEF ClearAhead, Starters
<1>5. CASE Wipe(c) \/ RemoveAll(c)
  <2>1. files' = Remove(files, Segment) /\ init' = 0 /\ removed' \in BOOLEAN /\ Finish(c)
        /\ session' = session /\ procs' = procs /\ awaiting' = awaiting /\ launched' = launched
    BY <1>2, <1>5 DEF Wipe, RemoveAll
  <2>2. files' \in [Segment -> FileType]
        /\ \A n \in Segment : files'[n].by = 0 /\ files'[n].kind = "none"
    BY <1>2, <2>1, RemoveFields
  <2>3. MuMoves(c, AtRest)
    BY <1>1, <1>3, <1>5, RestFields DEF Wipe, RemoveAll, Gone, MuMoves, Inside
  <2>4. Placed(AtRest) /\ AtRest.kind # "close" /\ AtRest.pc = "idle"
    BY RestFields DEF Placed, Starters
  <2>5. clients' = [clients EXCEPT ![c] = AtRest] /\ AtRest \in Client
    BY <2>1, RestFields DEF Finish
  <2> HIDE DEF AtRest
  <2> QED BY <1>1, <1>2, <2>1, <2>2, <2>3, <2>4, <2>5, RemovalStep
<1> QED BY <1>4, <1>5

LEMMA LaunchedFields ==
  ASSUME EncInv, NEW from \in Segment
  PROVE  /\ Launched(from) \in ProcType /\ Launched(from).state = "live"
         /\ Launched(from).from = from /\ Launched(from).at = -1
         /\ Launched(from).track = session.track /\ Launched(from).subs = TRUE
<1>1. session.track \in {0, 1} /\ 0 \in Segment
  BY SegmentsAssumption DEF EncInv, EncTypeOK, Segment
<1>2. NoProc \in ProcType /\ NoProc.at = -1
  BY <1>1 DEF NoProc, ProcType
<1> HIDE DEF NoProc
<1>3. QED
  BY <1>1, <1>2 DEF Launched, ProcType

\* launch: a process of the next number, which the client has in hand.
LEMMA LaunchStep ==
  ASSUME EncInv, NEW c \in Clients, launch(c)
  PROVE  EncInv'
<1> DEFINE new == launched + 1
           k == [clients[c] EXCEPT !.pc = "publish", !.r = new]
           P == Launched(clients[c].n)
<1>1. clients[c] \in Client /\ Placed(clients[c]) /\ clients[c].pc = "launch"
      /\ clients[c].kind \in Starters /\ clients[c].n \in Segment
  BY DEF EncInv, ClientOK, launch, Placed
<1>2. launched \in 0 .. MaxRuns /\ launched < MaxRuns
  BY DEF EncInv, ClientOK, launch
<1>3. new \in Runs /\ new \in 0 .. MaxRuns /\ new # 0 /\ new > launched
  BY <1>2, EncoderBounds DEF Runs
<1>4. k \in Client /\ k.pc = "publish" /\ k.kind = clients[c].kind /\ k.n = clients[c].n
      /\ k.r = new
  <2> HIDE DEF new
  <2> QED BY <1>1, <1>3 DEF Client, Places
<1>5. clients' = [clients EXCEPT ![c] = k]
  BY DEF launch, EncInv, ClientOK
<1>6. P \in ProcType /\ P.state = "live" /\ P.from = clients[c].n /\ P.at = -1
      /\ P.track = session.track
  BY <1>1, LaunchedFields
<1> HIDE DEF k, P
<1>7. /\ files' = files /\ init' = init /\ removed' = removed /\ awaiting' = awaiting
      /\ launched' = new /\ startMu' = startMu /\ session' = session
      /\ procs' = [procs EXCEPT ![new] = P]
  BY DEF launch, P
<1> HIDE DEF new
<1>8. procs \in [Runs -> ProcType]
  BY Types DEF EncInv
<1>9. procs' \in [Runs -> ProcType] /\ \A q \in Runs : procs'[q] = IF q = new THEN P ELSE procs[q]
  BY <1>3, <1>6, <1>7, <1>8
<1>10. \A d \in Clients : clients'[d] = IF d = c THEN k ELSE clients[d]
  BY <1>5 DEF EncInv, ClientOK
<1>11. Placed(k) /\ MuMoves(c, k) /\ Inside(clients[c])
  BY <1>1, <1>4, <1>7 DEF Placed, MuMoves, Inside, Starters
<1>12. MuOK' /\ startMu' \in Clients \union {Free}
  BY <1>5, <1>11, MuStep
<1>13. session.run = 0 /\ session.ended = 0 /\ session.finished = 0
  BY <1>1 DEF EncInv, RunOK
<1>14. \A d \in Clients : d # c => ~Inside(clients[d])
  BY <1>11 DEF EncInv, EncTypeOK, Inside
<1>15. /\ \A q : Publishing(q) => Publishing(q)'
       /\ \A q : q = new => Publishing(q)' /\ Tending(q)'
       /\ Switching' <=> Switching
       /\ Closing' <=> Closing
  BY <1>1, <1>4, <1>10 DEF Publishing, Tending, Switching, Closing, Starters
<1>16. EncTypeOK'
  BY <1>7, <1>9, <1>12, Types, TypesNext DEF EncInv
<1>17. ClientOK'
  <2>1. clients' \in [Clients -> Client]
    BY <1>4, <1>5 DEF EncInv, ClientOK
  <2>2. \A d \in Clients : Placed(clients'[d])
    BY <1>10, <1>11 DEF EncInv, ClientOK
  <2> QED BY <1>3, <1>7, <1>12, <2>1, <2>2 DEF ClientOK, Placed
<1>18. Latest'
  <2>1. ASSUME NEW r \in Runs, r > new PROVE procs'[r] = NoProc
    <3>1. r # new /\ r > launched
      BY <1>2, <1>3, <2>1, EncoderBounds DEF Runs
    <3> QED BY <1>9, <3>1 DEF EncInv, Latest
  <2>2. session'.finished <= launched'
    BY <1>3, <1>7, <1>13
  <2>3. ASSUME NEW n \in Segment PROVE files[n].by <= new
    <3>1. files[n].by \in 0 .. MaxRuns /\ files[n].by <= launched
      BY Types DEF EncInv, FileType, Latest
    <3> QED BY <1>2, <1>3, <3>1
  <2> QED BY <1>7, <2>1, <2>2, <2>3 DEF EncInv, Latest
<1>19. RunOK'
  <2>1. ASSUME NEW d \in Clients
        PROVE  /\ clients'[d].pc = "gone" /\ clients'[d].kind # "close" => FALSE
               /\ clients'[d].pc = "publish" => clients'[d].r = new
               /\ clients'[d].kind = "close" => session.closed
    <3>1. CASE d = c
      BY <1>1, <1>4, <1>10, <3>1 DEF Starters
    <3>2. CASE d # c
      BY <1>10, <1>14, <3>2 DEF EncInv, RunOK, Inside
    <3> QED BY <3>1, <3>2
  <2> QED BY <1>3, <1>7, <1>13, <2>1 DEF RunOK
<1>20. ASSUME ~session.closed, NEW q, Tending(q) PROVE FALSE
  BY <1>1, <1>11, <1>20, SoleTender DEF Tending
<1>21. OwnedOK'
  <2> SUFFICES ASSUME ~session.closed, NEW q \in Runs, Running(q)', q # new PROVE FALSE
    BY <1>7, <1>15 DEF OwnedOK
  <2>1. Running(q) /\ q # 0
    BY <1>9 DEF Running, Runs
  <2> QED BY <1>13, <1>20, <2>1 DEF EncInv, OwnedOK
<1>22. ShortOK'
  BY <1>7, <1>13, <1>20 DEF EncInv, ShortOK
<1>23. ASSUME NEW n \in Segment PROVE files[n].by # new
  <2>1. files[n].by \in 0 .. MaxRuns /\ files[n].by <= launched
    BY Types DEF EncInv, FileType, Latest
  <2> QED BY <1>2, <1>3, <2>1
<1>24. ProgressOK'
  <2>1. procs'[new].at = -1
    BY <1>3, <1>6, <1>9
  <2> QED BY <1>7, <1>23, <2>1 DEF ProgressOK, Progress
<1>25. TrackOK'
  <2> SUFFICES ASSUME ~session.closed, ~Switching
               PROVE  /\ \A n \in Segment : files[n].by # 0 =>
                           procs'[files[n].by].track = session.track
                      /\ \A q \in Runs : Running(q)' => procs'[q].track = session.track
    BY <1>7, <1>15 DEF TrackOK
  <2>1. ASSUME NEW n \in Segment, files[n].by # 0 PROVE procs'[files[n].by].track = session.track
    <3>1. files[n].by \in Runs
      BY <2>1, Types DEF EncInv, FileType, Runs
    <3> QED BY <1>9, <1>23, <2>1, <3>1 DEF EncInv, TrackOK
  <2>2. ASSUME NEW q \in Runs, Running(q)' PROVE procs'[q].track = session.track
    BY <1>6, <1>9, <2>2 DEF EncInv, TrackOK, Running
  <2> QED BY <2>1, <2>2
<1>26. StrayOK'
  BY <1>7, <1>9, <1>15 DEF EncInv, StrayOK
<1>27. HeadIsFinished'
  BY <1>7, <1>13 DEF HeadIsFinished
<1> QED
  BY <1>16, <1>17, <1>18, <1>19, <1>21, <1>22, <1>24, <1>25, <1>26, <1>27 DEF EncInv

\* The end of startLocked: the session takes the pass over, or a closed one kills it.
LEMMA PublishStep ==
  ASSUME EncInv, NEW c \in Clients, publish(c)
  PROVE  EncInv'
<1> DEFINE new == clients[c].r
<1>1. clients[c] \in Client /\ Placed(clients[c]) /\ clients[c].pc = "publish"
      /\ clients[c].kind \in Starters /\ clients[c].n \in Segment
  BY DEF EncInv, ClientOK, publish, Placed
<1>2. new = launched /\ launched # 0 /\ launched \in 0 .. MaxRuns
      /\ session.run = 0 /\ session.ended = 0 /\ session.finished = 0
  BY <1>1 DEF EncInv, RunOK, ClientOK
<1>3. new \in Runs
  BY <1>2 DEF Runs
<1>4. Inside(clients[c]) /\ startMu = c
  BY <1>1 DEF EncInv, EncTypeOK, Inside
<1>5. \A d \in Clients : d # c => ~Inside(clients[d])
  BY <1>4 DEF EncInv, EncTypeOK, Inside
<1>6. \A q : Publishing(q) => q = new
  BY <1>5 DEF Publishing, Inside
<1>7. /\ files' = files /\ init' = init /\ removed' = removed /\ launched' = launched
      /\ startMu' = Free
  BY DEF publish
<1> HIDE DEF new
<1>8. CASE session.closed
  <2>1. /\ procs' = Killed({new}) /\ clients' = [clients EXCEPT ![c] = AtRest]
        /\ session' = session /\ awaiting' = awaiting
    BY <1>8 DEF publish, Finish, new
  <2>2. Placed(AtRest) /\ AtRest \in Client /\ AtRest.kind = "none" /\ AtRest.pc = "idle"
        /\ MuMoves(c, AtRest)
    BY <1>4, <1>7, RestFields DEF Placed, Starters, MuMoves, Inside
  <2> HIDE DEF AtRest
  <2>3. MuOK' /\ startMu' \in Clients \union {Free}
    BY <2>1, <2>2, MuStep
  <2>4. \A d \in Clients : clients'[d] = IF d = c THEN AtRest ELSE clients[d]
    BY <2>1 DEF EncInv, ClientOK
  <2>5. Kills(procs', {new})
    BY <2>1, KilledFields
  <2>6. EncTypeOK'
    BY <1>7, <2>1, <2>3, <2>5, Types, TypesNext DEF EncInv, Kills
  <2>7. ClientOK'
    BY <1>7, <2>2, <2>3, <2>4, <2>1 DEF EncInv, ClientOK
  <2>8. Latest'
    <3>1. ASSUME NEW r \in Runs, r > launched PROVE procs'[r] = NoProc
      <4>1. r # new
        BY <1>2, <3>1 DEF Runs
      <4> QED BY <2>5, <3>1, <4>1 DEF EncInv, Latest, Kills
    <3> QED BY <1>7, <2>1, <3>1 DEF EncInv, Latest
  <2>9. RunOK'
    BY <1>2, <1>7, <2>1, <2>2, <2>4 DEF EncInv, RunOK
  <2>10. OwnedOK' /\ ShortOK' /\ TrackOK'
    BY <1>8, <2>1 DEF OwnedOK, ShortOK, TrackOK
  <2>11. ProgressOK' /\ HeadIsFinished'
    BY <1>2, <1>8, <2>1 DEF ProgressOK, HeadIsFinished
  <2>12. StrayOK'
    <3>1. ASSUME NEW q \in Runs PROVE procs'[q].state # "live" /\ ~procs'[q].subs
      <4>1. q # 0
        BY DEF Runs
      <4> QED BY <1>2, <1>6, <2>5, <4>1 DEF EncInv, StrayOK, Kills
    <3> QED BY <3>1 DEF StrayOK
  <2> QED
    BY <2>6, <2>7, <2>8, <2>9, <2>10, <2>11, <2>12 DEF EncInv
<1>9. CASE ~session.closed
  <2> DEFINE k == Resumed(c)
  <2>1. /\ session' = [session EXCEPT !.run = new, !.headFrom = clients[c].n,
                                      !.headTo = clients[c].n - 1]
        /\ awaiting' = awaiting \union {new}
        /\ clients' = [clients EXCEPT ![c] = k] /\ procs' = procs
    BY <1>9 DEF publish, GoOn, new
  <2>2. k \in Client /\ Placed(k) /\ k.kind # "close"
        /\ k.pc \in {"idle", "loop", "awaitFile", "init"}
    BY <1>1, ResumedFields
  <2> HIDE DEF k
  <2>3. MuMoves(c, k)
    BY <1>4, <1>7, <2>2 DEF MuMoves, Inside
  <2>4. MuOK' /\ startMu' \in Clients \union {Free}
    BY <2>1, <2>3, MuStep
  <2>5. \A d \in Clients : clients'[d] = IF d = c THEN k ELSE clients[d]
    BY <2>1 DEF EncInv, ClientOK
  <2>6. clients[c].n - 1 \in Segment \union {-1} /\ new \in 0 .. MaxRuns
    BY <1>1, <1>2, SegmentsAssumption DEF Segment
  <2>7. /\ session' \in SessionType /\ session'.run = new /\ session'.ended = 0
        /\ session'.finished = 0 /\ session'.closed = session.closed
        /\ session'.track = session.track
        /\ session'.headFrom = clients[c].n /\ session'.headTo = clients[c].n - 1
    BY <1>1, <1>2, <2>1, <2>6, Types DEF EncInv, SessionType
  <2>8. Switching' <=> Switching
    BY <1>1, <2>2, <2>5 DEF Switching
  <2>9. \A q \in Runs : Running(q)' <=> Running(q)
    BY <2>1 DEF Running
  <2>10. \A d \in Clients : clients'[d].pc \notin {"gone", "launch", "publish"}
                            /\ clients'[d].kind # "close"
    <3>1. ASSUME NEW d \in Clients, d # c
          PROVE  clients[d].pc \notin {"gone", "launch", "publish"} /\ clients[d].kind # "close"
      BY <1>4, <1>9, <3>1, SoleTender DEF EncInv, RunOK
    <3> QED BY <2>2, <2>5, <3>1
  <2>11. EncTypeOK'
    <3>1. awaiting' \subseteq Runs
      BY <1>3, <2>1 DEF EncInv, EncTypeOK
    <3> QED BY <1>7, <2>1, <2>4, <2>7, <3>1, Types, TypesNext DEF EncInv
  <2>12. ClientOK'
    BY <1>7, <2>1, <2>2, <2>4, <2>5 DEF EncInv, ClientOK
  <2>13. Latest'
    BY <1>2, <1>7, <2>1, <2>7 DEF EncInv, Latest
  <2>14. RunOK'
    <3>1. \A q \in Runs : Running(q) => q = new
      BY <1>2, <1>9 DEF EncInv, OwnedOK
    <3> QED BY <1>2, <1>7, <1>9, <2>1, <2>7, <2>9, <2>10, <3>1 DEF RunOK
  <2>15. OwnedOK' /\ ShortOK'
    BY <1>2, <1>7, <1>9, <2>7, <2>9 DEF EncInv, OwnedOK, ShortOK
  <2>16. ProgressOK'
    <3>1. Tending(launched)
      BY <1>1, <1>2 DEF Tending, new
    <3>2. Progress(launched)
      BY <1>2, <1>9, <3>1 DEF EncInv, ProgressOK
    <3> QED BY <1>7, <2>1, <3>2 DEF ProgressOK, Progress, Running
  <2>17. TrackOK'
    BY <1>7, <2>1, <2>7, <2>8, <2>9 DEF EncInv, TrackOK
  <2>18. StrayOK'
    <3>1. ASSUME NEW q \in Runs PROVE (procs[q].state = "live" \/ procs[q].subs) => q = new
      <4>1. q # 0
        BY DEF Runs
      <4> QED BY <1>2, <1>6, <4>1 DEF EncInv, StrayOK
    <3> QED BY <2>1, <2>7, <3>1 DEF StrayOK
  <2>19. HeadIsFinished'
    <3>1. clients[c].n \in Nat
      BY <1>1 DEF Client
    <3> QED BY <2>7, <3>1 DEF HeadIsFinished
  <2> QED
    BY <2>11, <2>12, <2>13, <2>14, <2>15, <2>16, <2>17, <2>18, <2>19 DEF EncInv
<1> QED BY <1>8, <1>9

----------------------------------------------------------------------------
(* ffmpeg.                                                                 *)

\* A step of process r alone. It leaves what it had finished, and of the latest process
\* the files stay without a gap.
LEMMA WorkStep ==
  ASSUME EncInv, NEW r \in Runs, Running(r),
         files' \in [Segment -> FileType], procs' \in [Runs -> ProcType],
         init' \in 0 .. MaxRuns, removed' = removed,
         UNCHANGED <<awaiting, session, startMu, clients, launched>>,
         \A q \in Runs : q # r => procs'[q] = procs[q],
         procs'[r].track = procs[r].track, procs'[r].subs = procs[r].subs,
         Running(r)' => procs'[r].state = procs[r].state,
         \A n \in Segment : files'[n] = files[n] \/ (files'[n].by = r /\ files'[n].kind # "none"),
         r = launched /\ Progress(r) =>
           /\ Progress(r)'
           /\ \A n \in Segment : files[n].by = r /\ files[n].kind = "whole" => files'[n] = files[n]
  PROVE  EncInv'
<1>1. /\ \A q : (Tending(q)' <=> Tending(q)) /\ (Publishing(q)' <=> Publishing(q))
      /\ (Switching' <=> Switching) /\ (Closing' <=> Closing)
  BY DEF Tending, Publishing, Switching, Closing
<1>2. \A q \in Runs : Running(q)' => Running(q)
  BY DEF Running
<1>3. launched \in Nat /\ r \in Nat /\ r # 0 /\ r <= launched
  <2>1. launched \in Nat /\ r \in Nat /\ r # 0
    BY DEF EncInv, ClientOK, Runs
  <2>2. procs[r] # NoProc
    BY DEF Running, NoProc
  <2> QED BY <2>1, <2>2 DEF EncInv, Latest
<1>4. EncTypeOK'
  BY Types, TypesNext DEF EncInv, MuOK, Inside
<1>5. ClientOK'
  BY DEF EncInv, ClientOK
<1>6. Latest'
  <2>1. ASSUME NEW q \in Runs, q > launched PROVE procs'[q] = NoProc
    <3>1. q # r
      BY <1>3, <2>1 DEF Runs
    <3> QED BY <2>1, <3>1 DEF EncInv, Latest
  <2> QED BY <1>3, <2>1 DEF EncInv, Latest
<1>7. RunOK'
  BY <1>1, <1>2 DEF EncInv, RunOK
<1>8. OwnedOK'
  BY <1>1, <1>2 DEF EncInv, OwnedOK
<1>9. ~session.closed => r = launched /\ (r = session.run \/ Tending(r))
  BY DEF EncInv, OwnedOK
<1>10. ShortOK'
  <2> SUFFICES ASSUME ~session.closed, NEW n \in Segment, files'[n].by # 0,
                      files'[n].kind # "whole"
               PROVE  files'[n].by = launched
                      /\ (files'[n].by = session.run \/ Tending(files'[n].by))
    BY <1>1 DEF ShortOK
  <2> QED BY <1>9 DEF EncInv, ShortOK
<1>11. session.run # 0 => r = session.run /\ r = launched
  BY DEF EncInv, RunOK
<1>12. ProgressOK'
  <2> SUFFICES ASSUME launched # 0, session.run # 0 \/ (~session.closed /\ Tending(launched))
               PROVE  Progress(launched)'
    BY <1>1 DEF ProgressOK
  <2>1. Progress(launched) /\ r = launched
    BY <1>9, <1>11 DEF EncInv, ProgressOK
  <2>2. Progress(r)'
    BY <2>1
  <2> QED BY <2>1, <2>2 DEF Progress, Running
<1>13. TrackOK'
  <2> SUFFICES ASSUME ~session.closed, ~Switching
               PROVE  /\ \A n \in Segment : files'[n].by # 0 =>
                           procs'[files'[n].by].track = session.track
                      /\ \A q \in Runs : Running(q)' => procs'[q].track = session.track
    BY <1>1 DEF TrackOK
  <2>1. \A q \in Runs : procs'[q].track = procs[q].track
    OBVIOUS
  <2>2. ASSUME NEW n \in Segment, files'[n].by # 0
        PROVE  procs'[files'[n].by].track = session.track
    <3>1. files'[n].by \in Runs
      BY <2>2 DEF FileType, Runs
    <3>2. CASE files'[n] = files[n]
      BY <2>1, <2>2, <3>1, <3>2 DEF EncInv, TrackOK
    <3>3. CASE files'[n].by = r
      BY <2>1, <3>3 DEF EncInv, TrackOK
    <3> QED BY <3>2, <3>3
  <2> QED BY <1>2, <2>1, <2>2 DEF EncInv, TrackOK
<1>14. StrayOK'
  BY <1>1 DEF EncInv, StrayOK, Running
<1>15. HeadIsFinished'
  <2> SUFFICES ASSUME session.run # 0, NEW n \in session.headFrom .. session.headTo, n >= 0
               PROVE  files'[n] = [kind |-> "whole", by |-> session.run]
    BY DEF HeadIsFinished
  <2>1. files[n] = [kind |-> "whole", by |-> r]
    BY <1>11 DEF EncInv, HeadIsFinished
  <2>2. Progress(r)
    BY <1>3, <1>11 DEF EncInv, ProgressOK
  <2>3. n \in Segment
    <3>1. session.headTo \in Segment \union {-1} /\ session.headFrom \in Segment \union {-1}
      BY DEF EncInv, EncTypeOK
    <3> QED BY <3>1, SegmentsAssumption DEF Segment
  <2> QED BY <1>11, <2>1, <2>2, <2>3
<1> QED
  BY <1>4, <1>5, <1>6, <1>7, <1>8, <1>10, <1>12, <1>13, <1>14, <1>15 DEF EncInv

LEMMA ExitedFields ==
  ASSUME EncInv, NEW r \in Runs, NEW how \in Exits
  PROVE  /\ Exited(r, how) \in [Runs -> ProcType]
         /\ \A q \in Runs : q # r => Exited(r, how)[q] = procs[q]
         /\ Exited(r, how)[r].state = how /\ Exited(r, how)[r].at = -1
         /\ Exited(r, how)[r].from = procs[r].from /\ Exited(r, how)[r].track = procs[r].track
         /\ Exited(r, how)[r].subs = procs[r].subs
<1>1. procs \in [Runs -> ProcType]
  BY Types DEF EncInv
<1> DEFINE e == [procs[r] EXCEPT !.state = how, !.at = -1]
<1>2. e \in ProcType /\ e.state = how /\ e.at = -1 /\ e.from = procs[r].from
      /\ e.track = procs[r].track /\ e.subs = procs[r].subs
  BY <1>1 DEF ProcType
<1>3. Exited(r, how) = [procs EXCEPT ![r] = e]
  BY <1>1 DEF Exited
<1> HIDE DEF e
<1> QED BY <1>1, <1>2, <1>3

\* procs with r at segment a.
LEMMA MovedFields ==
  ASSUME EncInv, NEW r \in Runs, NEW a \in Segment,
         procs' = [procs EXCEPT ![r].at = a]
  PROVE  /\ procs' \in [Runs -> ProcType]
         /\ \A q \in Runs : q # r => procs'[q] = procs[q]
         /\ procs'[r].state = procs[r].state /\ procs'[r].at = a /\ procs'[r].from = procs[r].from
         /\ procs'[r].track = procs[r].track /\ procs'[r].subs = procs[r].subs
<1>1. procs \in [Runs -> ProcType]
  BY Types DEF EncInv
<1> DEFINE e == [procs[r] EXCEPT !.at = a]
<1>2. e \in ProcType /\ e.state = procs[r].state /\ e.at = a /\ e.from = procs[r].from
      /\ e.track = procs[r].track /\ e.subs = procs[r].subs
  BY <1>1 DEF ProcType
<1>3. procs' = [procs EXCEPT ![r] = e]
  BY <1>1
<1> HIDE DEF e
<1> QED BY <1>1, <1>2, <1>3

\* Opening, filling, following and closing a segment.
LEMMA EncodeStep ==
  ASSUME EncInv, NEW r \in Runs, OpenFile(r) \/ Write(r) \/ NextSegment(r) \/ Ends(r)
  PROVE  EncInv'
<1> DEFINE a == procs[r].at
           F == procs[r].from
<1>1. Running(r)
  BY DEF OpenFile, Write, NextSegment, Ends, Encodes, Running
<1>2. /\ files \in [Segment -> FileType] /\ procs \in [Runs -> ProcType]
      /\ init \in 0 .. MaxRuns
  BY Types DEF EncInv
<1>3. F \in Segment /\ a \in Segment \union {-1} /\ procs[r] \in ProcType
  BY <1>2 DEF ProcType
<1>4. r \in 0 .. MaxRuns
  BY DEF Runs
<1>5. Segment \subseteq Int /\ \A n \in Segment : n >= 0 /\ n <= Last
  BY SegmentsAssumption DEF Segment, Last
<1>6. UNCHANGED <<awaiting, session, startMu, clients, launched>> /\ removed' = removed
  BY DEF OpenFile, Write, NextSegment, Ends
<1>7. procs[r].state # "done"
  BY <1>1 DEF Running
<1>8. CASE OpenFile(r)
  <2> DEFINE f == [kind |-> "stub", by |-> r]
  <2>1. f \in FileType /\ f.kind = "stub" /\ f.by = r
    BY <1>4 DEF FileType
  <2> HIDE DEF f
  <2>2. /\ a = -1 /\ init' = r /\ files' = [files EXCEPT ![F] = f]
        /\ procs' = [procs EXCEPT ![r].at = F]
    BY <1>8 DEF OpenFile, f
  <2>3. /\ procs' \in [Runs -> ProcType] /\ \A q \in Runs : q # r => procs'[q] = procs[q]
        /\ procs'[r].state = procs[r].state /\ procs'[r].at = F /\ procs'[r].from = F
        /\ procs'[r].track = procs[r].track /\ procs'[r].subs = procs[r].subs
    BY <1>3, <2>2, MovedFields
  <2>4. files' \in [Segment -> FileType]
        /\ \A n \in Segment : files'[n] = IF n = F THEN f ELSE files[n]
    BY <1>2, <1>3, <2>1, <2>2
  <2>5. ASSUME Progress(r) PROVE Progress(r)' /\ \A n \in Segment : files[n].by # r
    <3>1. \A n \in Segment : files[n].by # r
      BY <1>1, <2>2, <2>5 DEF Progress
    <3>2. \A n \in Segment : files'[n].by = r <=> n = F
      BY <2>1, <2>4, <3>1
    <3>3. F + 1 \in Segment => files'[F + 1].by # r
      BY <1>3, <1>5, <3>2
    <3>4. ASSUME NEW n \in Segment, files'[n].by = r
          PROVE  /\ F <= n /\ \A k \in F .. n : files'[k].by = r
                 /\ n + 1 \in Segment => files'[n + 1].by # r
      <4>1. n = F
        BY <3>2, <3>4
      <4>2. \A k \in F .. F : k = F
        BY <1>3, <1>5
      <4> QED BY <1>3, <1>5, <3>2, <3>3, <4>1, <4>2
    <3>5. files'[F].by = r /\ \A n \in Segment : n > F => files'[n].by # r
      <4>1. F \in Segment /\ F \in Int
        BY <1>3, <1>5
      <4>2. \A n \in Segment : n > F => n # F
        BY <4>1
      <4> HIDE DEF F
      <4> QED BY <3>2, <4>1, <4>2
    <3>6. F # -1
      BY <1>3, <1>5
    <3>7. Progress(r)'
      BY <1>7, <2>3, <3>4, <3>5, <3>6 DEF Progress
    <3> QED BY <3>1, <3>7
  <2> QED
    BY <1>1, <1>4, <1>6, <2>1, <2>2, <2>3, <2>4, <2>5, WorkStep
<1>9. ASSUME NEW kd \in {"part", "whole"}, a # -1, files' = [files EXCEPT ![a].kind = kd],
             files[a].by = r, files[a].kind # "none"
      PROVE  /\ files' \in [Segment -> FileType] /\ a \in Segment
             /\ \A n \in Segment : n # a => files'[n] = files[n]
             /\ files'[a].kind = kd /\ files'[a].by = r
  <2> DEFINE f == [files[a] EXCEPT !.kind = kd]
  <2>1. a \in Segment
    BY <1>3, <1>9
  <2>2. f \in FileType /\ f.kind = kd /\ f.by = r
    BY <1>2, <1>9, <2>1 DEF FileType
  <2>3. files' = [files EXCEPT ![a] = f]
    BY <1>2, <1>9, <2>1
  <2> HIDE DEF f, a
  <2> QED BY <1>2, <2>1, <2>2, <2>3
\* Up to where it is the process has written everything, all whole but the last.
<1>10. ASSUME Progress(r), a # -1
       PROVE  /\ files[a].by = r /\ a \in Segment /\ F <= a
              /\ \A n \in Segment : files[n].by = r <=> n \in F .. a
              /\ \A n \in Segment : files[n].by = r /\ n # a => files[n].kind = "whole"
  <2>1. a \in Segment /\ files[a].by = r /\ F <= a
        /\ \A n \in Segment : n > a => files[n].by # r
    BY <1>1, <1>3, <1>10 DEF Progress
  <2>2. \A k \in F .. a : files[k].by = r
    BY <1>10, <2>1 DEF Progress
  <2>3. ASSUME NEW n \in Segment PROVE files[n].by = r <=> n \in F .. a
    <3>1. files[n].by = r => F <= n
      BY <1>10 DEF Progress
    <3>2. n \in Int /\ a \in Int /\ F \in Int
      BY <1>3, <1>5, <2>1
    <3> QED BY <2>1, <2>2, <3>1, <3>2
  <2>4. ASSUME NEW n \in Segment, files[n].by = r, n # a PROVE files[n].kind = "whole"
    <3>1. n \in Int /\ a \in Int /\ F \in Int /\ n + 1 \in F .. a
      <4>1. n \in F .. a
        BY <2>3, <2>4
      <4> QED BY <1>3, <1>5, <2>1, <2>4, <4>1
    <3>2. n + 1 \in Segment
      BY <1>3, <2>1, <3>1, SegmentsAssumption DEF Segment
    <3>3. files[n + 1].by = r
      BY <2>3, <3>1, <3>2
    <3> QED BY <1>10, <2>4, <3>2, <3>3 DEF Progress
  <2> QED BY <2>1, <2>3, <2>4
<1>11. CASE Write(r)
  <2>1. /\ a # -1 /\ files[a].kind = "stub" /\ files[a].by = r /\ init' = init
        /\ procs' = procs /\ files' = [files EXCEPT ![a].kind = "part"]
    BY <1>11 DEF Write
  <2>2. /\ files' \in [Segment -> FileType] /\ a \in Segment
        /\ \A n \in Segment : n # a => files'[n] = files[n]
        /\ files'[a].kind = "part" /\ files'[a].by = r
    BY <1>9, <2>1
  <2>3. ASSUME Progress(r)
        PROVE  /\ Progress(r)'
               /\ \A n \in Segment : files[n].by = r /\ files[n].kind = "whole" =>
                    files'[n] = files[n]
    <3>1. \A n \in Segment : /\ files'[n].by = files[n].by
                             /\ files'[n].kind # "whole" => files[n].kind # "whole"
      BY <2>1, <2>2
    <3>2. \A n \in Segment : \A k \in F .. n : k \in Segment
      BY <1>3, SegmentsAssumption DEF Segment
    <3>3. Progress(r)'
      BY <1>3, <2>1, <2>2, <2>3, <3>1, <3>2 DEF Progress, Running
    <3> QED BY <2>1, <2>2, <3>3
  <2> QED
    BY <1>1, <1>2, <1>6, <2>1, <2>2, <2>3, WorkStep
<1>12. CASE NextSegment(r)
  <2> DEFINE f == [kind |-> "stub", by |-> r]
             W == [files EXCEPT ![a].kind = "whole"]
  <2>1. a \in 0 .. Last - 1 /\ files[a].kind = "part" /\ files[a].by = r /\ init' = init
        /\ procs' = [procs EXCEPT ![r].at = a + 1]
    BY <1>12 DEF NextSegment
  <2>2. a # -1 /\ a \in Segment /\ a + 1 \in Segment /\ a \in Int
    BY <2>1, SegmentsAssumption DEF Segment, Last
  <2>3. f \in FileType /\ f.kind = "stub" /\ f.by = r
    BY <1>4 DEF FileType
  <2>4. files' = [W EXCEPT ![a + 1] = f]
    BY <1>12 DEF NextSegment
  <2> HIDE DEF f
  <2>5. /\ W \in [Segment -> FileType]
        /\ \A n \in Segment : n # a => W[n] = files[n]
        /\ W[a].kind = "whole" /\ W[a].by = r
    <3> DEFINE g == [files[a] EXCEPT !.kind = "whole"]
    <3>1. g \in FileType /\ g.kind = "whole" /\ g.by = r
      BY <1>2, <2>1, <2>2 DEF FileType
    <3>2. W = [files EXCEPT ![a] = g]
      BY <1>2, <2>2
    <3> HIDE DEF g, a, W
    <3> QED BY <1>2, <2>2, <3>1, <3>2
  <2> HIDE DEF W
  <2>6. /\ files' \in [Segment -> FileType]
        /\ \A n \in Segment : n # a /\ n # a + 1 => files'[n] = files[n]
        /\ files'[a].kind = "whole" /\ files'[a].by = r
        /\ files'[a + 1].kind = "stub" /\ files'[a + 1].by = r
    <3>1. a # a + 1
      BY <2>2
    <3> HIDE DEF a
    <3> QED BY <2>2, <2>3, <2>4, <2>5, <3>1
  <2>7. /\ procs' \in [Runs -> ProcType] /\ \A q \in Runs : q # r => procs'[q] = procs[q]
        /\ procs'[r].state = procs[r].state /\ procs'[r].at = a + 1 /\ procs'[r].from = F
        /\ procs'[r].track = procs[r].track /\ procs'[r].subs = procs[r].subs
    BY <2>1, <2>2, MovedFields
  <2>8. ASSUME Progress(r)
        PROVE  /\ Progress(r)'
               /\ \A n \in Segment : files[n].by = r /\ files[n].kind = "whole" =>
                    files'[n] = files[n]
    <3>1. /\ F <= a /\ \A n \in Segment : files[n].by = r <=> n \in F .. a
          /\ \A n \in Segment : files[n].by = r /\ n # a => files[n].kind = "whole"
      BY <1>10, <2>2, <2>8
    <3>2. ASSUME NEW n \in Segment PROVE files'[n].by = r <=> n \in F .. a + 1
      <4>1. CASE n # a /\ n # a + 1
        BY <1>3, <1>5, <2>2, <2>6, <3>1, <4>1
      <4>2. CASE n = a \/ n = a + 1
        <5>1. F \in Int /\ a \in Int /\ F <= a
          BY <1>3, <1>5, <2>2, <3>1
        <5>2. a \in F .. a + 1 /\ a + 1 \in F .. a + 1
          <6> HIDE DEF a, F
          <6> QED BY <5>1
        <5> HIDE DEF a, F
        <5> QED BY <2>6, <4>2, <5>2
      <4> QED BY <4>1, <4>2
    <3>3. ASSUME NEW n \in Segment, files'[n].by = r
          PROVE  /\ F <= n /\ \A k \in F .. n : files'[k].by = r
                 /\ files'[n].kind # "whole" => n = a + 1
      <4>1. n \in F .. a + 1 /\ n \in Int /\ F \in Int /\ a \in Int
        BY <1>3, <1>5, <2>2, <3>2, <3>3
      <4>2. ASSUME NEW k \in F .. n PROVE files'[k].by = r
        <5>1. k \in Segment
          BY <1>3, <4>1, SegmentsAssumption DEF Segment
        <5>2. k \in F .. a + 1
          BY <4>1
        <5> QED BY <3>2, <5>1, <5>2
      <4>3. files'[n].kind # "whole" => n = a + 1
        BY <2>6, <3>1, <3>3
      <4> QED BY <4>1, <4>2, <4>3
    <3>4. \A n \in Segment : n > a + 1 => files'[n].by # r
      BY <1>3, <1>5, <2>2, <3>2
    <3>5. a + 2 \in Segment => files'[a + 2].by # r
      BY <2>2, <3>4
    <3>6. a + 1 # -1 /\ (a + 1) + 1 = a + 2
      BY <2>1, <2>2
    <3>7. Progress(r)'
      <4> HIDE DEF a, F
      <4> QED BY <1>7, <2>6, <2>7, <3>3, <3>4, <3>5, <3>6 DEF Progress
    <3>8. a + 1 \notin F .. a
      BY <1>3, <1>5, <2>2
    <3> QED BY <2>1, <2>2, <2>6, <3>1, <3>7, <3>8
  <2>9. \A n \in Segment : files'[n] = files[n] \/ (files'[n].by = r /\ files'[n].kind # "none")
    BY <2>6
  <2> QED
    BY <1>1, <1>2, <1>6, <2>1, <2>6, <2>7, <2>8, <2>9, WorkStep
<1>13. CASE Ends(r)
  <2>1. /\ a # -1 /\ files[a].kind = "part" /\ files[a].by = r /\ init' = init
        /\ procs' = Exited(r, "done") /\ files' = [files EXCEPT ![a].kind = "whole"]
    BY <1>13 DEF Ends
  <2>2. /\ files' \in [Segment -> FileType] /\ a \in Segment
        /\ \A n \in Segment : n # a => files'[n] = files[n]
        /\ files'[a].kind = "whole" /\ files'[a].by = r
    BY <1>9, <2>1
  <2>3. /\ procs' \in [Runs -> ProcType] /\ \A q \in Runs : q # r => procs'[q] = procs[q]
        /\ procs'[r].state = "done" /\ procs'[r].from = F
        /\ procs'[r].track = procs[r].track /\ procs'[r].subs = procs[r].subs
    BY <2>1, ExitedFields DEF Exits
  <2>4. ~Running(r)'
    BY <2>3 DEF Running
  <2>5. ASSUME Progress(r)
        PROVE  /\ Progress(r)'
               /\ \A n \in Segment : files[n].by = r /\ files[n].kind = "whole" =>
                    files'[n] = files[n]
    <3>1. \A n \in Segment : files'[n].by = files[n].by
      BY <2>1, <2>2
    <3>2. \A n \in Segment : files'[n].by = r => files'[n].kind = "whole"
      BY <1>10, <2>1, <2>2, <2>5
    <3>3. \A n \in Segment : \A k \in F .. n : k \in Segment
      BY <1>3, SegmentsAssumption DEF Segment
    <3>4. Progress(r)'
      BY <2>3, <2>4, <2>5, <3>1, <3>2, <3>3 DEF Progress
    <3> QED BY <2>1, <2>2, <3>4
  <2>6. \A n \in Segment : files'[n] = files[n] \/ (files'[n].by = r /\ files'[n].kind # "none")
    BY <2>2
  <2> QED
    BY <1>1, <1>2, <1>6, <2>1, <2>2, <2>3, <2>4, <2>5, <2>6, WorkStep
<1> QED BY <1>8, <1>11, <1>12, <1>13

\* A process that stops short.
LEMMA ExitStep ==
  ASSUME EncInv, NEW r \in Runs,
         Dies(r) \/ \E how \in {"cut", "crash", "init"} : Breaks(r, how)
  PROVE  EncInv'
<1>1. PICK how \in Exits : how # "done" /\ procs' = Exited(r, how)
  BY DEF Dies, Breaks, Exits
<1>2. Running(r)
  BY DEF Dies, Breaks, Running
<1>3. files' = files /\ init' = init /\ removed' = removed
      /\ UNCHANGED <<awaiting, session, startMu, clients, launched>>
  BY DEF Dies, Breaks
<1>4. /\ procs' \in [Runs -> ProcType] /\ \A q \in Runs : q # r => procs'[q] = procs[q]
      /\ procs'[r].state = how /\ procs'[r].from = procs[r].from
      /\ procs'[r].track = procs[r].track /\ procs'[r].subs = procs[r].subs
  BY <1>1, ExitedFields
<1>5. ~Running(r)'
  BY <1>4 DEF Running, Exits
<1>6. Progress(r) => Progress(r)'
  BY <1>1, <1>3, <1>4, <1>5 DEF Progress
<1> QED BY <1>2, <1>3, <1>4, <1>5, <1>6, Types, WorkStep DEF EncInv

----------------------------------------------------------------------------
(* await.                                                                  *)

\* The running pass has exited: nothing runs, nobody has a process in hand, and in an open
\* session what is not whole is its tail.
LEMMA PassIsOver ==
  ASSUME EncInv, NEW r \in Runs, session.run = r, procs[r].state \in Exits
  PROVE  /\ r = launched /\ session.ended = 0 /\ session.finished = 0
         /\ \A q \in Runs : ~Running(q)
         /\ \A d \in Clients : clients[d].pc \notin {"gone", "launch", "publish"}
         /\ \A q \in Runs : procs[q].subs => q = r
         /\ ~session.closed =>
              \A n \in Segment : files[n].by # 0 /\ files[n].kind # "whole" =>
                n \in TailOf(r) /\ procs[r].state # "done"
<1>1. r # 0
  BY DEF Runs
<1>2. r = launched /\ session.ended = 0 /\ session.finished = 0
      /\ \A q \in Runs : Running(q) => q = r
  BY <1>1 DEF EncInv, RunOK
<1>3. ~Running(r)
  BY DEF Running, Exits
<1>4. \A d \in Clients : clients[d].pc \notin {"gone", "launch", "publish"}
  BY <1>1 DEF EncInv, RunOK
<1>5. ASSUME NEW q \in Runs, procs[q].subs PROVE q = r
  <2>1. q # 0
    BY DEF Runs
  <2> QED BY <1>2, <1>4, <1>5, <2>1 DEF EncInv, StrayOK, Publishing
<1>6. ASSUME ~session.closed, NEW n \in Segment, files[n].by # 0, files[n].kind # "whole"
      PROVE  n \in TailOf(r) /\ procs[r].state # "done"
  <2>1. files[n].by = r
    BY <1>2, <1>6 DEF EncInv, ShortOK
  <2>2. Progress(launched)
    BY <1>1, <1>2 DEF EncInv, ProgressOK
  <2>3. procs[r].state # "done"
    BY <1>2, <1>6, <2>1, <2>2 DEF Progress
  <2> QED BY <1>1, <1>2, <1>6, <2>1, <2>2, <2>3, ShortIsTail
<1> QED BY <1>2, <1>3, <1>4, <1>5, <1>6

\* await takes the pass off the session and leaves no short file behind.
LEMMA EndedStep ==
  ASSUME EncInv, NEW r \in Runs, session.run = r, procs[r].state \in Exits,
         session' \in SessionType, session'.run = 0, session'.finished \in {0, r},
         session'.closed = session.closed, session'.track = session.track,
         procs' \in [Runs -> ProcType], \A q \in Runs : q # r => procs'[q] = procs[q],
         procs'[r].state = procs[r].state, procs'[r].track = procs[r].track,
         procs'[r].subs => session'.finished = r,
         files' \in [Segment -> FileType],
         \A n \in Segment : files'[n] = files[n] \/ (files'[n].by = 0 /\ files'[n].kind = "none"),
         ~session.closed => \A n \in Segment : files'[n].by = 0 \/ files'[n].kind = "whole",
         awaiting' \subseteq Runs, init' \in 0 .. MaxRuns, removed' = removed,
         UNCHANGED <<startMu, clients, launched>>
  PROVE  EncInv'
<1>1. /\ r = launched /\ session.ended = 0 /\ session.finished = 0 /\ r # 0
      /\ \A q \in Runs : ~Running(q)
      /\ \A d \in Clients : clients[d].pc \notin {"gone", "launch", "publish"}
      /\ \A q \in Runs : procs[q].subs => q = r
  BY PassIsOver DEF Runs
<1>2. \A q \in Runs : ~Running(q)'
  BY <1>1 DEF Running
<1>3. (\A q : ~Tending(q)' /\ ~Publishing(q)') /\ (Switching' <=> Switching)
      /\ (Closing' <=> Closing)
  BY <1>1 DEF Tending, Publishing, Switching, Closing
<1>4. EncTypeOK'
  BY Types, TypesNext DEF EncInv, MuOK, Inside
<1>5. ClientOK'
  BY DEF EncInv, ClientOK
<1>6. Latest'
  <2>1. launched \in Nat
    BY DEF EncInv, ClientOK
  <2>2. session'.finished <= launched
    BY <1>1, <2>1
  <2>3. ASSUME NEW q \in Runs, q > launched PROVE procs'[q] = NoProc
    <3>1. q # r
      BY <1>1, <2>1, <2>3 DEF Runs
    <3> QED BY <2>3, <3>1 DEF EncInv, Latest
  <2> QED BY <2>1, <2>2, <2>3 DEF EncInv, Latest
<1>7. RunOK'
  BY <1>1, <1>3 DEF EncInv, RunOK
<1>8. OwnedOK' /\ ShortOK' /\ ProgressOK'
  BY <1>2, <1>3 DEF OwnedOK, ShortOK, ProgressOK
<1>9. TrackOK'
  <2>1. \A q \in Runs : procs'[q].track = procs[q].track
    OBVIOUS
  <2>2. \A n \in Segment : files[n].by # 0 => files[n].by \in Runs
    BY Types DEF EncInv, FileType, Runs
  <2> QED BY <1>2, <1>3, <2>1, <2>2 DEF EncInv, TrackOK
<1>10. StrayOK'
  <2>1. ASSUME NEW q \in Runs
        PROVE procs'[q].state # "live" /\ (procs'[q].subs => q = session'.finished)
    BY <1>1, <1>2 DEF Running
  <2> QED BY <2>1 DEF StrayOK
<1>11. HeadIsFinished'
  BY DEF HeadIsFinished
<1> QED
  BY <1>4, <1>5, <1>6, <1>7, <1>8, <1>9, <1>10, <1>11 DEF EncInv

\* The files a failed pass leaves once its tail, or everything, is removed.
LEMMA TailGone ==
  ASSUME EncInv, NEW r \in Runs, session.run = r, procs[r].state \in Exits,
         NEW S, TailOf(r) \subseteq S
  PROVE  /\ Remove(files, S) \in [Segment -> FileType]
         /\ \A n \in Segment : \/ Remove(files, S)[n] = files[n]
                               \/ Remove(files, S)[n].by = 0 /\ Remove(files, S)[n].kind = "none"
         /\ ~session.closed =>
              \A n \in Segment : Remove(files, S)[n].by = 0 \/ Remove(files, S)[n].kind = "whole"
<1>1. files \in [Segment -> FileType]
  BY Types DEF EncInv
<1> QED BY <1>1, RemoveFields, PassIsOver

\* await of a pass that somebody else took off the session.
LEMMA AwaitStoppedStep ==
  ASSUME EncInv, NEW r \in Runs, AwaitStopped(r)
  PROVE  EncInv'
<1>1. /\ procs[r].state \in Exits /\ session.run # r /\ awaiting' = awaiting \ {r}
      /\ procs' = Killed({r}) /\ files' = files /\ init' = init /\ removed' = removed
      /\ UNCHANGED <<session, startMu, clients, launched>>
  BY DEF AwaitStopped, Seen
<1>2. Kills(procs', {r})
  BY <1>1, KilledFields
<1>3. \A q \in Runs : /\ procs'[q].state = procs[q].state /\ procs'[q].from = procs[q].from
                      /\ procs'[q].at = procs[q].at /\ procs'[q].track = procs[q].track
                      /\ procs'[q].subs => procs[q].subs
                      /\ q # r => procs'[q] = procs[q]
  BY <1>1, <1>2 DEF Kills, Exits
<1>4. \A q \in Runs : Running(q)' <=> Running(q)
  BY <1>3 DEF Running
<1>5. /\ \A q : (Tending(q)' <=> Tending(q)) /\ (Publishing(q)' <=> Publishing(q))
      /\ (Switching' <=> Switching) /\ (Closing' <=> Closing)
  BY <1>1 DEF Tending, Publishing, Switching, Closing
<1>6. EncTypeOK'
  <2>1. awaiting' \subseteq Runs
    BY <1>1 DEF EncInv, EncTypeOK
  <2> QED BY <1>1, <1>2, <2>1, Types, TypesNext DEF EncInv, MuOK, Inside, Kills
<1>7. ClientOK'
  BY <1>1 DEF EncInv, ClientOK
<1>8. Latest'
  <2>1. procs[r] # NoProc
    BY <1>1 DEF Exits, NoProc
  <2> QED BY <1>1, <1>3, <2>1 DEF EncInv, Latest
<1>9. RunOK'
  BY <1>1, <1>4, <1>5 DEF EncInv, RunOK
<1>10. OwnedOK' /\ ShortOK'
  BY <1>1, <1>4, <1>5 DEF EncInv, OwnedOK, ShortOK
<1>11. ProgressOK'
  <2> SUFFICES ASSUME launched # 0, session.run # 0 \/ (~session.closed /\ Tending(launched))
               PROVE  Progress(launched)'
    BY <1>1, <1>5 DEF ProgressOK
  <2>1. Progress(launched) /\ launched \in Runs
    BY DEF EncInv, ProgressOK, ClientOK, Runs
  <2>2. /\ procs'[launched].from = procs[launched].from /\ procs'[launched].at = procs[launched].at
        /\ procs'[launched].state = procs[launched].state
    BY <1>3, <2>1
  <2> QED BY <1>1, <2>1, <2>2 DEF Progress, Running
<1>12. TrackOK'
  <2>1. \A n \in Segment : files[n].by # 0 => files[n].by \in Runs
    BY Types DEF EncInv, FileType, Runs
  <2> QED BY <1>1, <1>3, <1>4, <1>5, <2>1 DEF EncInv, TrackOK
<1>13. StrayOK'
  BY <1>1, <1>3, <1>5 DEF EncInv, StrayOK
<1>14. HeadIsFinished'
  BY <1>1 DEF EncInv, HeadIsFinished
<1> QED
  BY <1>6, <1>7, <1>8, <1>9, <1>10, <1>11, <1>12, <1>13, <1>14 DEF EncInv

\* await of a pass that ended, and of one that failed for good.
LEMMA AwaitEndStep ==
  ASSUME EncInv, NEW r \in Runs,
         AwaitClean(r) \/ AwaitFailed(r) \/ AwaitFallback(r, FALSE)
  PROVE  EncInv'
<1>1. session.run = r /\ procs[r].state \in Exits /\ awaiting' = awaiting \ {r}
      /\ removed' = removed /\ UNCHANGED <<startMu, clients, launched>>
  BY DEF AwaitClean, AwaitFailed, AwaitFallback, Seen
<1>2. session \in SessionType /\ files \in [Segment -> FileType] /\ init \in 0 .. MaxRuns
      /\ procs \in [Runs -> ProcType] /\ awaiting' \subseteq Runs /\ r \in 0 .. MaxRuns
      /\ 0 \in 0 .. MaxRuns
  BY <1>1, Types, EncoderBounds DEF EncInv, Runs
<1>3. session.finished = 0
  BY <1>1, PassIsOver
<1>4. ASSUME procs' = Killed({r})
      PROVE  /\ procs' \in [Runs -> ProcType] /\ \A q \in Runs : q # r => procs'[q] = procs[q]
             /\ procs'[r].state = procs[r].state /\ procs'[r].track = procs[r].track
             /\ ~procs'[r].subs
  <2>1. Kills(procs', {r})
    BY <1>4, KilledFields
  <2> QED BY <1>1, <2>1 DEF Kills, Exits
<1>5. CASE AwaitClean(r)
  <2>1. /\ session' = [session EXCEPT !.run = 0, !.finished = r, !.ended = r]
        /\ procs' = procs /\ init' = init
        /\ files' = IF procs[r].state = "cut" THEN dropTail(r) ELSE files
        /\ procs[r].state \in {"done", "cut"}
    BY <1>5 DEF AwaitClean
  <2>2. /\ session' \in SessionType /\ session'.run = 0 /\ session'.finished = r
        /\ session'.closed = session.closed /\ session'.track = session.track
    BY <1>2, <2>1 DEF SessionType
  <2>3. /\ files' \in [Segment -> FileType]
        /\ \A n \in Segment : files'[n] = files[n] \/ (files'[n].by = 0 /\ files'[n].kind = "none")
        /\ ~session.closed => \A n \in Segment : files'[n].by = 0 \/ files'[n].kind = "whole"
    <3>1. CASE procs[r].state = "cut"
      BY <1>1, <2>1, <3>1, TailGone DEF dropTail
    <3>2. CASE procs[r].state = "done"
      BY <1>1, <1>2, <2>1, <3>2, PassIsOver
    <3> QED BY <2>1, <3>1, <3>2
  <2> QED BY <1>1, <1>2, <2>1, <2>2, <2>3, EndedStep
<1>6. CASE AwaitFailed(r)
  <2>1. /\ session' = [session EXCEPT !.run = 0, !.ended = r]
        /\ procs' = Killed({r}) /\ init' = init /\ files' = dropTail(r)
    BY <1>6 DEF AwaitFailed
  <2>2. /\ session' \in SessionType /\ session'.run = 0 /\ session'.finished = 0
        /\ session'.closed = session.closed /\ session'.track = session.track
    BY <1>2, <1>3, <2>1 DEF SessionType
  <2>3. /\ files' \in [Segment -> FileType]
        /\ \A n \in Segment : files'[n] = files[n] \/ (files'[n].by = 0 /\ files'[n].kind = "none")
        /\ ~session.closed => \A n \in Segment : files'[n].by = 0 \/ files'[n].kind = "whole"
    BY <1>1, <2>1, TailGone DEF dropTail
  <2> QED BY <1>1, <1>2, <1>4, <2>1, <2>2, <2>3, EndedStep
<1>7. CASE AwaitFallback(r, FALSE)
  <2>1. /\ session' = [[session EXCEPT !.fellBack = TRUE, !.hardware = FALSE] EXCEPT !.run = 0]
        /\ procs' = Killed({r}) /\ init' = 0
        /\ files' = Remove(files, Segment) \/ files' = Remove(files, TailOf(r))
    BY <1>7 DEF AwaitFallback, dropTail
  <2>2. /\ session' \in SessionType /\ session'.run = 0 /\ session'.finished = 0
        /\ session'.closed = session.closed /\ session'.track = session.track
    BY <1>2, <1>3, <2>1 DEF SessionType
  <2>3. TailOf(r) \subseteq Segment
    BY DEF TailOf
  <2>4. /\ files' \in [Segment -> FileType]
        /\ \A n \in Segment : files'[n] = files[n] \/ (files'[n].by = 0 /\ files'[n].kind = "none")
        /\ ~session.closed => \A n \in Segment : files'[n].by = 0 \/ files'[n].kind = "whole"
    BY <1>1, <2>1, <2>3, TailGone
  <2> QED BY <1>1, <1>2, <1>4, <2>1, <2>2, <2>4, EndedStep
<1> QED BY <1>5, <1>6, <1>7

\* await's fallback: the software pass takes the hardware pass's place in one step.
LEMMA FallbackStep ==
  ASSUME EncInv, NEW r \in Runs, AwaitFallback(r, TRUE)
  PROVE  EncInv'
<1> DEFINE new == launched + 1
           from == procs[r].from
           P == Launched(from)
           K == Killed({r})
<1>1. /\ session.run = r /\ procs[r].state \in Exits /\ ~session.closed
      /\ removed' = removed /\ startMu' = startMu /\ clients' = clients /\ launched < MaxRuns
      /\ init' = 0
  BY DEF AwaitFallback, Seen
<1>2. /\ session \in SessionType /\ files \in [Segment -> FileType]
      /\ procs \in [Runs -> ProcType] /\ awaiting \subseteq Runs /\ 0 \in 0 .. MaxRuns
  BY Types, EncoderBounds DEF EncInv
<1>3. launched \in 0 .. MaxRuns
  BY DEF EncInv, ClientOK
<1>4. new \in Runs /\ new \in 0 .. MaxRuns /\ new # 0 /\ new > launched
  BY <1>1, <1>3, EncoderBounds DEF Runs
<1>5. from \in Segment /\ from - 1 \in Segment \union {-1}
  BY <1>2, SegmentsAssumption DEF ProcType, Segment
<1>6. P \in ProcType /\ P.state = "live" /\ P.from = from /\ P.at = -1
      /\ P.track = session.track
  <2> HIDE DEF from
  <2> QED BY <1>5, LaunchedFields
<1>7. /\ session' = [[session EXCEPT !.fellBack = TRUE, !.hardware = FALSE]
                       EXCEPT !.run = new, !.headFrom = from, !.headTo = from - 1]
      /\ procs' = [K EXCEPT ![new] = P]
      /\ awaiting' = (awaiting \ {r}) \union {new} /\ launched' = new
      /\ files' = Remove(files, Segment) \/ files' = Remove(files, TailOf(r))
  BY DEF AwaitFallback, dropTail
<1>8. Kills(K, {r})
  BY KilledFields
<1> HIDE DEF new, P, K, from
<1>9. /\ r = launched /\ session.ended = 0 /\ session.finished = 0
      /\ \A q \in Runs : ~Running(q)
      /\ \A d \in Clients : clients[d].pc \notin {"gone", "launch", "publish"}
      /\ \A q \in Runs : procs[q].subs => q = r
  BY <1>1, PassIsOver
<1>10. \A q \in Runs : procs'[q] = IF q = new THEN P ELSE K[q]
  BY <1>4, <1>7, <1>8 DEF Kills
<1>11. procs' \in [Runs -> ProcType]
  BY <1>4, <1>6, <1>7, <1>8 DEF Kills
<1>12. /\ session' \in SessionType /\ session'.run = new /\ session'.ended = 0
       /\ session'.finished = 0 /\ session'.closed = session.closed
       /\ session'.track = session.track
       /\ session'.headFrom = from /\ session'.headTo = from - 1
  BY <1>2, <1>4, <1>5, <1>7, <1>9 DEF SessionType
<1>13. /\ files' \in [Segment -> FileType]
       /\ \A n \in Segment : files'[n] = files[n] \/ (files'[n].by = 0 /\ files'[n].kind = "none")
       /\ \A n \in Segment : files'[n].by = 0 \/ files'[n].kind = "whole"
  <2>1. TailOf(r) \subseteq Segment
    BY DEF TailOf
  <2> QED BY <1>1, <1>7, <2>1, TailGone
<1>14. \A q \in Runs : Running(q)' => q = new
  <2>1. ASSUME NEW q \in Runs, q # new PROVE ~Running(q)'
    <3>1. procs'[q].state = K[q].state
      BY <1>10, <2>1
    <3>2. procs[q].state \notin {"live", "killed"}
      BY <1>9 DEF Running
    <3>3. K[q].state = procs[q].state
      BY <1>8, <3>2 DEF Kills
    <3> QED BY <3>1, <3>2, <3>3 DEF Running
  <2> QED BY <2>1
<1>15. ASSUME NEW n \in Segment
       PROVE  files'[n].by # new /\ files'[n].by <= launched
              /\ (files'[n].by # 0 => files'[n].by \in Runs)
  <2>1. files[n].by \in 0 .. MaxRuns /\ files[n].by <= launched
    BY <1>2 DEF EncInv, FileType, Latest
  <2>2. files'[n].by \in 0 .. MaxRuns /\ files'[n].by <= launched
    BY <1>3, <1>13, <2>1 DEF FileType
  <2> QED BY <1>3, <1>4, <2>2 DEF Runs
<1>16. (\A q : ~Tending(q)' /\ ~Publishing(q)') /\ (Switching' <=> Switching)
  BY <1>1, <1>9 DEF Tending, Publishing, Switching
<1>17. EncTypeOK'
  <2>1. awaiting' \subseteq Runs
    BY <1>2, <1>4, <1>7
  <2> QED
    BY <1>1, <1>2, <1>11, <1>12, <1>13, <2>1, Types, TypesNext DEF EncInv, MuOK, Inside
<1>18. ClientOK'
  BY <1>1, <1>4, <1>7 DEF EncInv, ClientOK
<1>19. Latest'
  <2>1. ASSUME NEW q \in Runs, q > new PROVE procs'[q] = NoProc
    <3>1. q # new /\ q > launched
      BY <1>3, <1>4, <2>1, EncoderBounds DEF Runs
    <3>2. q # r
      BY <1>3, <1>9, <3>1 DEF Runs
    <3> QED BY <1>8, <1>10, <3>1, <3>2 DEF EncInv, Latest, Kills
  <2>2. session'.finished <= launched'
    BY <1>4, <1>7, <1>12
  <2>3. ASSUME NEW n \in Segment PROVE files'[n].by <= new
    <3>1. files'[n].by \in Int /\ files'[n].by <= launched
      BY <1>13, <1>15 DEF FileType
    <3> QED BY <1>3, <1>4, <3>1
  <2>4. ASSUME NEW n \in Segment PROVE files'[n].kind = "none" <=> files'[n].by = 0
    BY <1>13 DEF EncInv, Latest
  <2> QED BY <1>7, <2>1, <2>2, <2>3, <2>4 DEF Latest
<1>20. RunOK'
  <2>1. \A d \in Clients : clients[d].kind # "close"
    BY <1>1 DEF EncInv, RunOK
  <2> QED BY <1>1, <1>7, <1>9, <1>12, <1>14, <2>1 DEF RunOK
<1>21. OwnedOK' /\ ShortOK'
  BY <1>7, <1>12, <1>13, <1>14 DEF OwnedOK, ShortOK
<1>22. ProgressOK'
  <2>1. procs'[new].at = -1
    BY <1>4, <1>6, <1>10
  <2> QED BY <1>7, <1>15, <2>1 DEF ProgressOK, Progress
<1>23. TrackOK'
  <2> SUFFICES ASSUME ~Switching
               PROVE  /\ \A n \in Segment : files'[n].by # 0 =>
                           procs'[files'[n].by].track = session.track
                      /\ \A q \in Runs : Running(q)' => procs'[q].track = session.track
    BY <1>12, <1>16 DEF TrackOK
  <2>1. \A q \in Runs : q # new => procs'[q].track = procs[q].track
    BY <1>8, <1>10 DEF Kills
  <2>2. \A n \in Segment : files[n].by # 0 => procs[files[n].by].track = session.track
    BY <1>1 DEF EncInv, TrackOK
  <2>3. ASSUME NEW n \in Segment, files'[n].by # 0
        PROVE  procs'[files'[n].by].track = session.track
    BY <1>13, <1>15, <2>1, <2>2, <2>3
  <2> QED BY <1>4, <1>6, <1>10, <1>14, <2>3
<1>24. StrayOK'
  <2>1. ASSUME NEW q \in Runs, q # new PROVE procs'[q].state # "live" /\ ~procs'[q].subs
    <3>1. procs'[q].state # "live"
      BY <1>14, <2>1 DEF Running
    <3> QED BY <1>8, <1>9, <1>10, <2>1, <3>1 DEF Kills
  <2> QED BY <1>12, <2>1 DEF StrayOK
<1>25. HeadIsFinished'
  <2>1. from \in Int
    BY <1>5, SegmentsAssumption DEF Segment
  <2> QED BY <1>12, <2>1 DEF HeadIsFinished
<1> QED
  BY <1>17, <1>18, <1>19, <1>20, <1>21, <1>22, <1>23, <1>24, <1>25 DEF EncInv

----------------------------------------------------------------------------
(* The theorems.                                                           *)

LEMMA EncInvStarts == EncInit => EncInv
<1> SUFFICES ASSUME EncInit PROVE EncInv
  OBVIOUS
<1>1. /\ 0 \in 0 .. MaxRuns /\ 0 \in Segment
      /\ \A r \in Runs : r # 0
  BY EncoderBounds, SegmentsAssumption DEF Segment, Runs
<1> DEFINE f == [kind |-> "none", by |-> 0]
<1>2. f \in FileType /\ f.kind = "none" /\ f.by = 0
  BY <1>1 DEF FileType
<1>3. NoProc \in ProcType /\ NoProc.state = "none" /\ NoProc.subs = FALSE
  BY <1>1 DEF NoProc, ProcType
<1>4. files = [n \in Segment |-> f] /\ procs = [r \in Runs |-> NoProc]
      /\ clients = [c \in Clients |-> AtRest]
  BY DEF EncInit
<1>5. /\ session \in SessionType /\ session.run = 0 /\ session.ended = 0
      /\ session.finished = 0 /\ session.closed = FALSE
  BY <1>1 DEF EncInit, SessionType
<1> HIDE DEF f, NoProc, AtRest
<1>6. /\ \A n \in Segment : files[n].kind = "none" /\ files[n].by = 0
      /\ \A r \in Runs : procs[r].state = "none" /\ ~procs[r].subs /\ procs[r] = NoProc
      /\ \A c \in Clients : clients[c] = AtRest
  BY <1>2, <1>3, <1>4
<1>7. startMu = Free /\ launched = 0 /\ init = 0 /\ removed = FALSE /\ awaiting = {}
  BY DEF EncInit
<1>8. MuOK
  BY <1>6, <1>7, RestFields, FreeAssumption DEF MuOK, Inside, Free
<1>9. EncTypeOK
  <2>1. files \in [Segment -> FileType] /\ procs \in [Runs -> ProcType]
    BY <1>2, <1>3, <1>4
  <2> QED BY <1>1, <1>5, <1>7, <1>8, <2>1, Types
<1>10. ClientOK
  BY <1>1, <1>4, <1>6, <1>7, RestFields DEF ClientOK, Placed, Starters
<1>11. Latest
  BY <1>5, <1>6, <1>7 DEF Latest
<1>12. \A r \in Runs : ~Running(r)
  BY <1>6 DEF Running
<1>13. RunOK
  BY <1>5, <1>6, RestFields DEF RunOK
<1>14. OwnedOK /\ ShortOK /\ ProgressOK /\ TrackOK
  BY <1>6, <1>7, <1>12 DEF OwnedOK, ShortOK, ProgressOK, TrackOK
<1>15. StrayOK /\ HeadIsFinished
  BY <1>5, <1>6 DEF StrayOK, HeadIsFinished
<1> QED BY <1>9, <1>10, <1>11, <1>13, <1>14, <1>15 DEF EncInv

LEMMA EncInvKept ==
  ASSUME EncInv, [EncNext]_encVars
  PROVE  EncInv'
<1>1. ASSUME NEW c \in Clients, Arrival(c) PROVE EncInv'
  <2>1. CASE Close(c)
    BY <2>1, CloseStep
  <2>2. CASE ~Close(c)
    BY <1>1, <2>2, ArrivalStep
  <2> QED BY <2>1, <2>2
<1>2. ASSUME NEW c \in Clients, Lock(c) \/ Step(c) \/ Deadline(c) PROVE EncInv'
  <2>1. CASE BeginStart(c)
    BY <2>1, BeginStartStep
  <2>2. CASE BeginSwitch(c)
    BY <2>2, BeginSwitchStep
  <2>3. CASE stop(c)
    BY <2>3, StopStep
  <2>4. CASE ClearAhead(c) \/ Wipe(c) \/ RemoveAll(c)
    BY <2>4, GoneStep
  <2>5. CASE launch(c)
    BY <2>5, LaunchStep
  <2>6. CASE publish(c)
    BY <2>6, PublishStep
  <2>7. CASE \/ Return(c) \/ ensureHead(c) \/ Lock(c) \/ awaitStranded(c) \/ GraceExpires(c)
             \/ Look(c) \/ Judge(c) \/ Alive(c) \/ LookInit(c) \/ awaitFile(c) \/ Deadline(c)
             \/ launchFails(c)
    BY <2>7, WaitingStep
  <2> QED BY <1>2, <2>1, <2>2, <2>3, <2>4, <2>5, <2>6, <2>7 DEF Step
<1>3. ASSUME NEW r \in Runs, Encode(r) \/ Dies(r) PROVE EncInv'
  BY <1>3, EncodeStep, ExitStep DEF Encode
<1>4. ASSUME NEW r \in Runs, await(r) PROVE EncInv'
  BY <1>4, AwaitStoppedStep, AwaitEndStep, FallbackStep DEF await
<1>5. CASE UNCHANGED encVars
  <2>1. /\ files' = files /\ init' = init /\ removed' = removed /\ procs' = procs
        /\ awaiting' = awaiting /\ session' = session /\ startMu' = startMu
        /\ clients' = clients /\ launched' = launched
    BY <1>5 DEF encVars
  <2>2. /\ \A q : (Tending(q)' <=> Tending(q)) /\ (Publishing(q)' <=> Publishing(q))
        /\ (Switching' <=> Switching) /\ (Closing' <=> Closing)
        /\ \A q : Running(q)' <=> Running(q)
    BY <2>1 DEF Tending, Publishing, Switching, Closing, Running
  <2>3. EncTypeOK' /\ ClientOK' /\ Latest' /\ HeadIsFinished'
    BY <2>1 DEF EncInv, EncTypeOK, ClientOK, Latest, HeadIsFinished
  <2>4. RunOK' /\ OwnedOK' /\ ShortOK' /\ StrayOK' /\ TrackOK'
    BY <2>1, <2>2 DEF EncInv, RunOK, OwnedOK, ShortOK, StrayOK, TrackOK
  <2>5. ProgressOK'
    BY <2>1, <2>2 DEF EncInv, ProgressOK, Progress
  <2> QED BY <2>3, <2>4, <2>5 DEF EncInv
<1> QED BY <1>1, <1>2, <1>3, <1>4, <1>5 DEF EncNext

\* The inductive invariant holds at every moment.
THEOREM EncInvariant == EncSpec => []EncInv
BY EncInvStarts, EncInvKept, PTL DEF EncSpec

\* With startMu free nobody is inside a start or a switch.
LEMMA FreeMeansNobody ==
  ASSUME EncInv, startMu = Free, ~session.closed
  PROVE  (\A q : ~Tending(q)) /\ ~Switching
<1>1. \A c \in Clients : ~Inside(clients[c])
  BY FreeAssumption DEF EncInv, EncTypeOK, Inside, Free
<1>2. \A c \in Clients : clients[c].kind # "close"
  BY DEF EncInv, RunOK
<1> QED BY <1>1, <1>2 DEF Inside, Tending, Switching

LEMMA EncInvSafe ==
  ASSUME EncInv
  PROVE  EncoderSafe
<1>1. OneEncoder
  <2> SUFFICES ASSUME ~session.closed, NEW r \in Runs, NEW q \in Runs, Running(r), Running(q)
               PROVE  r = q
    BY DEF OneEncoder, Running
  <2> QED BY DEF EncInv, OwnedOK
<1>2. OnlyHeadIsShort
  <2> SUFFICES ASSUME startMu = Free, ~session.closed, NEW n \in Segment,
                      files[n].kind # "none"
               PROVE  /\ files[n].kind = "whole" \/ (session.run # 0 /\ files[n].by = session.run)
                      /\ procs[files[n].by].track = session.track
    BY DEF OnlyHeadIsShort
  <2>1. files[n].by # 0
    BY DEF EncInv, Latest
  <2> QED BY <2>1, FreeMeansNobody DEF EncInv, ShortOK, TrackOK
<1>3. NoStrayEncoder
  <2> SUFFICES ASSUME session.closed, awaiting = {}, \A c \in Clients : clients[c].pc = "idle",
                      NEW r \in Runs
               PROVE  procs[r].state # "live" /\ ~procs[r].subs
    BY DEF NoStrayEncoder
  <2>1. (\A q : ~Publishing(q)) /\ ~Closing
    BY DEF Publishing, Closing
  <2>2. session.run = 0 /\ session.finished = 0
    BY <2>1 DEF EncInv, RunOK
  <2>3. r # 0
    BY DEF Runs
  <2> QED BY <2>1, <2>2, <2>3 DEF EncInv, StrayOK
<1> QED BY <1>1, <1>2, <1>3 DEF EncoderSafe, EncInv

\* In an open session one encoder writes at a time; with no start under way a file that is
\* not whole is the running pass's and every file carries the session's track; the head
\* counts finished segments only; and a closed session leaves no encoder behind. For every
\* number of requests, segments, processes and faults.
THEOREM EncoderStaysSafe == EncSpec => []EncoderSafe
BY EncInvariant, EncInvSafe, PTL

\* What judge serves, in one step.
LEMMA JudgeIsHonest ==
  ASSUME EncInv, NEW c \in Clients, Judge(c), Complete(c), session.run # 0,
         procs[session.run].from <= clients[c].n, clients[c].n < Last
  PROVE  files[clients[c].n].kind = "whole"
<1> DEFINE n == clients[c].n
           r == session.run
<1>1. n \in Segment
  BY DEF Judge, EncInv, ClientOK, Placed, Starters
<1>2. n \in Int /\ ~(n >= Last)
  BY <1>1, SegmentsAssumption DEF Segment, Last
<1>3. session.ended = 0 /\ r = launched /\ launched \in Nat
  BY DEF EncInv, RunOK, ClientOK
<1>4. wrote(r, n + 1)
  BY <1>2, <1>3 DEF Complete, wroteWhole, nextStarted
<1>5. n + 1 \in Segment /\ files[n + 1].by >= r /\ files[n + 1].by <= launched
      /\ files[n + 1].by \in Nat
  BY <1>4, Types, EncoderBounds DEF wrote, fileReady, EncInv, Latest, FileType
<1>6. files[n + 1].by = launched
  BY <1>3, <1>5
<1>7. Progress(launched)
  BY <1>3 DEF EncInv, ProgressOK
<1>8. procs[launched].from \in Int /\ n \in procs[launched].from .. n + 1
  <2>1. launched \in Runs
    BY <1>3 DEF EncInv, ClientOK, Runs
  <2>2. procs[launched].from \in Segment
    BY <2>1, Types DEF EncInv, ProcType
  <2>3. procs[launched].from \in Int
    BY <2>2, SegmentsAssumption DEF Segment
  <2> HIDE DEF n
  <2> QED BY <1>2, <1>3, <2>3 DEF n
<1>9. files[n].by = launched
  BY <1>5, <1>6, <1>7, <1>8 DEF Progress
<1> QED BY <1>1, <1>5, <1>6, <1>7, <1>9 DEF Progress

\* A request's step moves no other request.
LEMMA OthersStay ==
  ASSUME EncInv, NEW d \in Clients, Arrival(d) \/ Lock(d) \/ Step(d) \/ Deadline(d),
         NEW c \in Clients, c # d
  PROVE  clients'[c] = clients[c]
<1>1. clients \in [Clients -> Client]
  BY DEF EncInv, ClientOK
<1>2. CASE Arrival(d)
  BY <1>1, <1>2 DEF Arrival, WaitSegment, WaitInit, Prestart, SetTrack, Close, Arrive
<1>3. CASE Lock(d) \/ Deadline(d)
  BY <1>1, <1>3 DEF Lock, Goto, Deadline, Finish
<1>4. CASE Return(d) \/ ensureHead(d) \/ BeginStart(d) \/ BeginSwitch(d)
           \/ awaitStranded(d) \/ GraceExpires(d) \/ stop(d)
  BY <1>1, <1>4 DEF Return, ensureHead, BeginStart, BeginSwitch, awaitStranded, GraceExpires,
                    stop, Goto, Finish, GoOn
<1>5. CASE ClearAhead(d) \/ Wipe(d) \/ RemoveAll(d) \/ launch(d) \/ launchFails(d) \/ publish(d)
  BY <1>1, <1>5 DEF ClearAhead, Wipe, RemoveAll, launch, launchFails, publish, Goto, Finish, GoOn
<1>6. CASE Look(d) \/ Judge(d) \/ Alive(d) \/ LookInit(d) \/ awaitFile(d)
  BY <1>1, <1>6 DEF Look, Judge, Alive, LookInit, awaitFile, Goto
<1> QED BY <1>2, <1>3, <1>4, <1>5, <1>6 DEF Step

\* From "judge" a request goes on by Judge only.
LEMMA OnlyJudge ==
  ASSUME NEW c \in Clients, clients[c].pc = "judge",
         Arrival(c) \/ Lock(c) \/ Step(c) \/ Deadline(c)
  PROVE  Judge(c)
<1>1. ~Arrival(c)
  BY DEF Arrival, WaitSegment, WaitInit, Prestart, SetTrack, Close, Arrive
<1>2. ~Lock(c) /\ ~Deadline(c)
  BY DEF Lock, Deadline
<1>3. ~Return(c) /\ ~ensureHead(c) /\ ~BeginStart(c) /\ ~BeginSwitch(c)
      /\ ~awaitStranded(c) /\ ~GraceExpires(c) /\ ~stop(c)
  BY DEF Return, ensureHead, BeginStart, BeginSwitch, awaitStranded, GraceExpires, stop
<1>4. ~ClearAhead(c) /\ ~Wipe(c) /\ ~RemoveAll(c) /\ ~launch(c) /\ ~launchFails(c) /\ ~publish(c)
  BY DEF ClearAhead, Wipe, RemoveAll, Gone, launch, launchFails, publish
<1>5. ~Look(c) /\ ~Alive(c) /\ ~LookInit(c) /\ ~awaitFile(c)
  BY DEF Look, Alive, LookInit, awaitFile
<1> QED BY <1>1, <1>2, <1>3, <1>4, <1>5 DEF Step

\* WaitSegment's loop serves no segment the running pass is still writing, whatever files
\* earlier passes left and whoever moves the pass meanwhile.
THEOREM LoopIsHonest == EncSpec => LoopServesFinished
<1> DEFINE Serves(c) == /\ clients[c].pc = "judge" /\ clients'[c].pc = "served"
                        /\ session.run # 0 /\ procs[session.run].from <= clients[c].n
                           /\ clients[c].n < Last
                        => files[clients[c].n].kind = "whole"
<1>1. ASSUME EncInv, EncNext, NEW c \in Clients, clients[c].pc = "judge",
             clients'[c].pc = "served"
      PROVE  Judge(c) /\ Complete(c)
  <2>1. CASE \E r \in Runs : Encode(r) \/ Dies(r) \/ await(r)
    <3>1. clients' = clients
      BY <2>1 DEF Encode, OpenFile, Write, NextSegment, Ends, Breaks, Dies, await, AwaitStopped,
                  AwaitClean, AwaitFailed, AwaitFallback
    <3> QED BY <1>1, <3>1
  <2>2. ASSUME NEW d \in Clients, Arrival(d) \/ Lock(d) \/ Step(d) \/ Deadline(d)
        PROVE  Judge(c)
    <3>1. d = c
      BY <1>1, <2>2, OthersStay
    <3> QED BY <1>1, <2>2, <3>1, OnlyJudge
  <2>3. Judge(c)
    BY <1>1, <2>1, <2>2 DEF EncNext
  <2>4. Complete(c)
    <3>1. clients[c] \in Client /\ clients \in [Clients -> Client]
      BY <1>1 DEF EncInv, ClientOK
    <3>2. clients'[c].pc = IF Complete(c) THEN "served" ELSE "alive"
      BY <2>3, <3>1 DEF Judge, Client
    <3> QED BY <1>1, <3>2
  <2> QED BY <2>3, <2>4
<1>2. ASSUME EncInv, EncNext PROVE \A c \in Clients : Serves(c)
  BY <1>1, <1>2, JudgeIsHonest
<1>3. EncInv /\ [EncNext]_encVars => [\A c \in Clients : Serves(c)]_encVars
  BY <1>2
<1> QED BY <1>3, EncInvariant, PTL DEF EncSpec, LoopServesFinished
=============================================================================
