------------------------------ MODULE ReaderWindow ------------------------------
(* Streams reading a torrent that is still coming (bt/reader.go, the readers' part of
   bt/torrent.go and bt/piece.go, engine/storage.go under it, engine/api.go handleStream above):
   where a reader stands decides which pieces are wanted first, a read blocks until its bytes
   are in, and storage may have lost what was complete.  Beside them the check of a download
   carried over from another client (engine/session.go resume) and the torrent being dropped.
   Positions count pieces; a piece is one chunk. *)
EXTENDS Integers, FiniteSets

CONSTANTS RdPieces,   \* the pieces are 0 .. RdPieces - 1, one file
          Streams,    \* stream requests
          RdAhead,    \* SetReadahead, in pieces
          RdOps       \* bound on seeks, pauses, selections, losses and wrong data

ASSUME RdAssumption == RdPieces \in Nat \ {0} /\ RdAhead \in Nat \ {0}

P == 0 .. RdPieces - 1
VARIABLES pst,      \* p |-> "missing", "dirty" (its chunk is in, unverified) or "complete"
          bytes,    \* p |-> "none", "good" or "bad": the file
          queued,   \* piecesQueuedForHash, and being hashed: queued.wait, queued.hash
          selected, \* the file's priority is Normal
          stopped,  \* dataDownloadDisallowed
          nowP, aheadP, \* _readerNowPieces, _readerReadaheadPieces
          pend,     \* _pendingPieces
          rd,       \* each reader
          check,    \* VerifyDataContext: stage, piece, hashes it still waits for
          closed,   \* the torrent is dropped
          wedged,   \* the client's lock was never given back
          rdOps
rdVars == <<pst, bytes, queued, selected, stopped, nowP, aheadP, pend, rd, check, closed, wedged, rdOps>>

NoReader == [pc |-> "none", pos |-> 0, reading |-> FALSE, win |-> <<0, 0>>, tries |-> 0, woke |-> FALSE]
RdInit ==
  /\ pst = [p \in P |-> "missing"]
  /\ selected \in BOOLEAN /\ bytes = [p \in P |-> IF selected THEN "good" ELSE "none"]
  /\ queued = [wait |-> {}, hash |-> {}] /\ stopped = FALSE /\ nowP = {} /\ aheadP = {}
  /\ pend = IF selected THEN P ELSE {}
  /\ rd = [r \in Streams |-> NoReader]
  /\ check = [at |-> IF bytes[0] = "good" THEN "next" ELSE "off", p |-> 0, left |-> 0]
  /\ closed = FALSE /\ wedged = FALSE /\ rdOps = 0

Spend == rdOps < RdOps /\ rdOps' = rdOps + 1
CanLock == ~wedged

(* ignoreForRequests, purePriority, effectivePriority. *)
Ignored(p, st, q, stop) == st[p] # "missing" \/ p \in q.wait \cup q.hash \/ stop
Wanted(p, st, q, stop, sel, now, ahead) == ~Ignored(p, st, q, stop) /\ (sel \/ p \in now \cup ahead)
(* updatePiecePriorities for the pieces S. *)
Updated(S, st, q, stop, sel, now, ahead) ==
  (pend \ S) \cup {p \in S : Wanted(p, st, q, stop, sel, now, ahead)}

(* piecesUncached, byteRegionPieces. *)
Window(pos, reading) ==
  LET ra == IF ~reading THEN 0 ELSE IF RdAhead > RdPieces - pos THEN RdPieces - pos ELSE RdAhead
  IN IF pos >= RdPieces \/ ra <= 0 THEN <<0, 0>> ELSE <<pos, pos + ra>>
In(w) == {p \in P : w[1] <= p /\ p < w[2]}
(* readerPiecePriorities. *)
NowOf(R) == {R[r].win[1] : r \in {x \in Streams : R[x].pc \notin {"none", "gone"} /\ R[x].win[1] < R[x].win[2]}}
AheadOf(R) == UNION {In(R[r].win) \ {R[r].win[1]} : r \in {x \in Streams : R[x].pc \notin {"none", "gone"}}}
\* Variant for mutation: only the pieces newly in the window are looked at.
TouchedNew(from, to) == In(to)
(* readerPosChanged: the pieces between the old window and the new, when they overlap. *)
Touched(from, to) ==
  LET l == IF from[1] > to[1] THEN to ELSE from
      h == IF from[1] > to[1] THEN from ELSE to
      end == IF l[2] > h[2] THEN l[2] ELSE h[2]
  IN IF from = to THEN {} ELSE IF l[2] < h[1] THEN In(l) \cup In(h) ELSE In(<<l[1], end>>)
(* posChanged: the reader moved; R is the readers with its new place. *)
PosChanged(r, R) ==
  LET to == Window(R[r].pos, R[r].reading)
      new == [R EXCEPT ![r].win = to]
  IN /\ rd' = new
     /\ nowP' = NowOf(new) /\ aheadP' = AheadOf(new)
     /\ pend' = Updated(Touched(R[r].win, to), pst, queued, stopped, selected, NowOf(new), AheadOf(new))

-----------------------------------------------------------------------------
(* handleStream, newReader: a reader that has not read yet wants nothing. *)
OpenStream(r) ==
  /\ rd[r].pc = "none" /\ CanLock /\ ~closed
  /\ PosChanged(r, [rd EXCEPT ![r] = [NoReader EXCEPT !.pc = "idle"]])
  /\ UNCHANGED <<pst, bytes, queued, selected, stopped, check, closed, wedged, rdOps>>
Seek(r, pos) ==
  /\ rd[r].pc = "idle" /\ CanLock /\ pos # rd[r].pos /\ Spend
  /\ PosChanged(r, [rd EXCEPT ![r].pos = pos, ![r].reading = FALSE])
  /\ UNCHANGED <<pst, bytes, queued, selected, stopped, check, closed, wedged>>
Read(r) ==
  /\ rd[r].pc = "idle" /\ rd[r].pos < RdPieces /\ CanLock
  /\ PosChanged(r, [rd EXCEPT ![r].reading = TRUE, ![r].pc = "check", ![r].tries = 1, ![r].woke = FALSE])
  /\ UNCHANGED <<pst, bytes, queued, selected, stopped, check, closed, wedged, rdOps>>

(* available: a responsive reader takes a chunk that is in, verified or not. *)
Available(r) == pst[rd[r].pos] # "missing"
(* waitAvailable's look, under the lock, with the piece's condition taken in the same hold. *)
LookAvailable(r) ==
  /\ rd[r].pc = "check" /\ CanLock
  /\ rd' = [rd EXCEPT ![r].pc = IF Available(r) THEN "store" ELSE "blocked", ![r].woke = FALSE]
  /\ UNCHANGED <<pst, bytes, queued, selected, stopped, nowP, aheadP, pend, check, closed, wedged, rdOps>>
(* readAt's ladder: the reader reset, then the completion looked up again, then the error. *)
Failed(R, r) ==
  CASE R[r].tries = 1 -> [R EXCEPT ![r].pc = "check", ![r].tries = 2]
    [] R[r].tries = 2 -> [R EXCEPT ![r].pc = "resync", ![r].tries = 3]
    [] OTHER -> [R EXCEPT ![r].pc = "over"]
(* Its select: the piece changed; or the torrent is closed, paused, or the request is gone. *)
Unblock(r) ==
  /\ rd[r].pc = "blocked"
  /\ \/ rd[r].woke /\ rd' = [rd EXCEPT ![r].pc = "check"] /\ rdOps' = rdOps
     \/ (closed \/ stopped) /\ rd' = Failed(rd, r) /\ rdOps' = rdOps
     \/ Spend /\ rd' = [rd EXCEPT ![r].pc = "over"]
  /\ UNCHANGED <<pst, bytes, queued, selected, stopped, nowP, aheadP, pend, check, closed, wedged>>
(* readOnceAt: the bytes from the file, unlocked; a missing or short file is an error. *)
ReadStore(r) ==
  /\ rd[r].pc = "store"
  /\ rd' = IF bytes[rd[r].pos] = "none" THEN Failed(rd, r) ELSE [rd EXCEPT ![r].pc = "moved"]
  /\ UNCHANGED <<pst, bytes, queued, selected, stopped, nowP, aheadP, pend, check, closed, wedged, rdOps>>
(* readContext's end: the position moves, and the window with it. *)
Move(r) ==
  /\ rd[r].pc = "moved" /\ CanLock
  /\ PosChanged(r, [rd EXCEPT ![r].pos = rd[r].pos + 1, ![r].pc = "idle", ![r].tries = 0])
  /\ UNCHANGED <<pst, bytes, queued, selected, stopped, check, closed, wedged, rdOps>>
(* updatePieceCompletion: the pieces of the window as storage now has them; a record of a piece
   whose bytes are not on disk is a plain no. *)
Resync(r) ==
  /\ rd[r].pc = "resync" /\ CanLock
  /\ LET lost == {p \in In(rd[r].win) : pst[p] = "complete" /\ bytes[p] = "none"}
         st == [p \in P |-> IF ~closed /\ p \in lost THEN "missing" ELSE pst[p]]
     IN /\ pst' = st
        /\ pend' = IF closed THEN pend ELSE Updated(lost, st, queued, stopped, selected, nowP, aheadP)
  /\ rd' = [rd EXCEPT ![r].pc = "check"]
  /\ UNCHANGED <<bytes, queued, selected, stopped, nowP, aheadP, check, closed, wedged, rdOps>>
(* Close: deleteReader, readersChanged. *)
CloseStream(r) ==
  /\ rd[r].pc \in {"idle", "over"} /\ CanLock
  /\ LET R == [rd EXCEPT ![r] = [NoReader EXCEPT !.pc = "gone"]]
     IN rd' = R /\ nowP' = NowOf(R) /\ aheadP' = AheadOf(R)
        /\ pend' = Updated(P, pst, queued, stopped, selected, NowOf(R), AheadOf(R))
  /\ UNCHANGED <<pst, bytes, queued, selected, stopped, check, closed, wedged, rdOps>>

-----------------------------------------------------------------------------
(* Broadcast of the piece's readerCond: whoever took it is woken. *)
Woken(p) == [r \in Streams |-> IF rd[r].pc = "blocked" /\ rd[r].pos = p THEN [rd[r] EXCEPT !.woke = TRUE] ELSE rd[r]]
(* A chunk of a wanted piece is written, and the piece, all in, is hashed. *)
ChunkIn(p) ==
  /\ p \in pend /\ ~stopped /\ ~closed /\ CanLock
  /\ \/ bytes' = [bytes EXCEPT ![p] = "good"] /\ rdOps' = rdOps
     \/ bytes' = [bytes EXCEPT ![p] = "bad"] /\ Spend
  /\ pst' = [pst EXCEPT ![p] = "dirty"] /\ queued' = [queued EXCEPT !.hash = queued.hash \cup {p}]
  /\ pend' = pend \ {p} /\ rd' = Woken(p)
  /\ UNCHANGED <<selected, stopped, nowP, aheadP, check, closed, wedged>>
(* startHash of a piece a check asked for. *)
StartCheck(p) ==
  /\ p \in queued.wait \ queued.hash /\ ~closed /\ CanLock
  /\ queued' = [wait |-> queued.wait \ {p}, hash |-> queued.hash \cup {p}]
  /\ UNCHANGED <<pst, bytes, selected, stopped, nowP, aheadP, pend, rd, check, closed, wedged, rdOps>>
(* pieceHashed: what the bytes say; readers of a piece that completed are woken. *)
Hashed(p) ==
  /\ p \in queued.hash /\ CanLock /\ ~closed
  /\ LET st == [pst EXCEPT ![p] = IF bytes[p] = "good" THEN "complete" ELSE "missing"]
         q == [queued EXCEPT !.hash = queued.hash \ {p}]
     IN /\ pst' = st /\ queued' = q /\ pend' = Updated({p}, st, q, stopped, selected, nowP, aheadP)
        /\ rd' = IF st[p] = "complete" THEN Woken(p) ELSE rd
  /\ check' = IF check.p = p /\ check.left > 0 THEN [check EXCEPT !.left = check.left - 1] ELSE check
  /\ UNCHANGED <<bytes, selected, stopped, nowP, aheadP, closed, wedged, rdOps>>
(* engine apply: the selection or the pause of the user; a pause deselects first.  Pausing
   leaves pend to its next updates, resuming updates it all. *)
SelectFile(on) ==
  /\ on # selected /\ ~closed /\ CanLock /\ Spend /\ selected' = on
  /\ pend' = Updated(P, pst, queued, stopped, on, nowP, aheadP)
  /\ UNCHANGED <<pst, bytes, queued, stopped, nowP, aheadP, rd, check, closed, wedged>>
DisallowDownload ==
  /\ ~stopped /\ ~selected /\ ~closed /\ CanLock /\ Spend /\ stopped' = TRUE
  /\ UNCHANGED <<pst, bytes, queued, selected, nowP, aheadP, pend, rd, check, closed, wedged>>
AllowDownload ==
  /\ stopped /\ ~closed /\ CanLock /\ stopped' = FALSE
  /\ pend' = Updated(P, pst, queued, FALSE, selected, nowP, aheadP)
  /\ UNCHANGED <<pst, bytes, queued, selected, nowP, aheadP, rd, check, closed, wedged, rdOps>>
(* The file is deleted outside the program. *)
FileLost ==
  /\ Spend /\ \E p \in P : bytes[p] # "none"
  /\ bytes' = [p \in P |-> "none"]
  /\ UNCHANGED <<pst, queued, selected, stopped, nowP, aheadP, pend, rd, check, closed, wedged>>

-----------------------------------------------------------------------------
(* VerifyDataContext of the next piece: it locks, and of a torrent closed by then returns
   without unlocking; else the piece is queued, for the hash after one under way. *)
VerifyPiece ==
  /\ check.at = "next" /\ CanLock
  /\ IF closed THEN wedged' = TRUE /\ check' = [check EXCEPT !.at = "failed"] /\ UNCHANGED <<queued, pend>>
     ELSE /\ queued' = [queued EXCEPT !.wait = queued.wait \cup {check.p}] /\ pend' = pend \ {check.p} /\ wedged' = wedged
          /\ check' = [check EXCEPT !.at = "wait", !.left = IF check.p \in queued.hash THEN 2 ELSE 1]
  /\ UNCHANGED <<pst, bytes, selected, stopped, nowP, aheadP, rd, closed, rdOps>>
VerifyWaits ==
  /\ check.at = "wait"
  /\ \/ /\ check.left = 0 /\ CanLock
        /\ check' = IF check.p = RdPieces - 1 THEN [check EXCEPT !.at = "done"]
                    ELSE [check EXCEPT !.at = "next", !.p = check.p + 1]
     \/ closed /\ check' = [check EXCEPT !.at = "failed"]
  /\ UNCHANGED <<pst, bytes, queued, selected, stopped, nowP, aheadP, pend, rd, closed, wedged, rdOps>>
(* Drop. *)
DropTorrent ==
  /\ ~closed /\ CanLock /\ Spend /\ closed' = TRUE
  /\ UNCHANGED <<pst, bytes, queued, selected, stopped, nowP, aheadP, pend, rd, check, wedged>>

RdNext ==
  \/ \E r \in Streams : \/ OpenStream(r) \/ Read(r) \/ LookAvailable(r) \/ Unblock(r) \/ ReadStore(r)
                        \/ Move(r) \/ Resync(r) \/ CloseStream(r) \/ \E n \in 0 .. RdPieces : Seek(r, n)
  \/ \E p \in P : ChunkIn(p) \/ StartCheck(p) \/ Hashed(p)
  \/ \E on \in BOOLEAN : SelectFile(on)
  \/ DisallowDownload \/ AllowDownload \/ FileLost \/ VerifyPiece \/ VerifyWaits \/ DropTorrent
RdSpec == RdInit /\ [][RdNext]_rdVars
-----------------------------------------------------------------------------
(* What is asked of the swarm is what the selection and the streams want, whatever order they
   moved, opened and closed in: the window is updated piece by piece and never recomputed. *)
WantedIsAsked ==
  ~closed /\ ~stopped => pend = {p \in P : Wanted(p, pst, queued, stopped, selected, nowP, aheadP)}
(* The pieces wanted first are those under the streams' read heads now. *)
WindowsFollow ==
  /\ \A r \in Streams : rd[r].pc \notin {"none", "gone"} => rd[r].win = Window(rd[r].pos, rd[r].reading)
  /\ nowP = NowOf(rd) /\ aheadP = AheadOf(rd)
(* No read sleeps on a piece that came in after it looked: the condition it sleeps on was taken
   under the lock it looked under. *)
NoneSleepsOnData == \A r \in Streams : rd[r].pc = "blocked" /\ Available(r) => rd[r].woke
(* A read that fails looks its completion up at the head of its own window (a panic otherwise). *)
ResyncAtHead == \A r \in Streams : rd[r].pc = "resync" => rd[r].win[1] = rd[r].pos
RdSafe == WantedIsAsked /\ WindowsFollow /\ NoneSleepsOnData /\ ResyncAtHead

=============================================================================
