----------------------------- MODULE MediaProofs -----------------------------
(***************************************************************************)
(* Proofs about the parts of MCMedia, for any number of streams, callers,  *)
(* shows, files and releases.  The parts share no variable, so each has an *)
(* inductive invariant and theorems of its own: ReaderWindow, then the     *)
(* AniList client, the corpus, local files, release news, favourites, what *)
(* was watched, the list of episodes, the MyAnimeList token (its copy of   *)
(* the list is in MalProofs) and a show's seasons.  The last theorems put  *)
(* them together for MCMedia.                                              *)
(***************************************************************************)
EXTENDS MCMedia, MalProofs, FiniteSetTheorems, WellFoundedInduction, TLAPS

(* A reader between its first look and its last: it reads a piece, and its window begins there. *)
RdBusy == {"check", "blocked", "store", "moved", "resync"}
RdPcs == RdBusy \cup {"none", "idle", "over", "gone"}
RdReader == [pc : RdPcs, pos : 0 .. RdPieces, reading : BOOLEAN, win : Nat \X Nat, tries : Nat, woke : BOOLEAN]
\* What every variable ranges over.
RdShape ==
  /\ pst \in [P -> {"missing", "dirty", "complete"}] /\ bytes \in [P -> {"none", "good", "bad"}]
  /\ queued \in [wait : SUBSET P, hash : SUBSET P] /\ pend \subseteq P
  /\ selected \in BOOLEAN /\ stopped \in BOOLEAN /\ closed \in BOOLEAN /\ wedged \in BOOLEAN
  /\ rd \in [Streams -> RdReader]
  /\ check \in [at : {"off", "next", "wait", "failed", "done"}, p : P, left : Nat]
\* A reader in its read wants its piece: it reads, and stands on a piece.
BusyReads == \A r \in Streams : rd[r].pc \in RdBusy => rd[r].reading /\ rd[r].pos \in P
\* The inductive invariant: the four that matter lean on BusyReads.
RdInv == RdShape /\ BusyReads /\ WantedIsAsked /\ WindowsFollow /\ NoneSleepsOnData

\* A reader that counts when the wishes are collected.
Open(x) == x.pc \notin {"none", "gone"}

\* piecesUncached: a window lies among the pieces, and that of a reader that reads begins where it stands.
LEMMA WindowIs ==
  ASSUME NEW pos \in 0 .. RdPieces, NEW reading \in BOOLEAN
  PROVE  /\ Window(pos, reading) \in Nat \X Nat
         /\ Window(pos, reading)[1] < Window(pos, reading)[2] => Window(pos, reading)[1] \in P
         /\ reading /\ pos \in P => Window(pos, reading)[1] = pos
<1> DEFINE ra == IF ~reading THEN 0 ELSE IF RdAhead > RdPieces - pos THEN RdPieces - pos ELSE RdAhead
<1>1. ra \in Nat /\ pos \in Nat /\ RdPieces \in Nat
  BY RdAssumption
<1>2. Window(pos, reading) = IF pos >= RdPieces \/ ra <= 0 THEN <<0, 0>> ELSE <<pos, pos + ra>>
  BY DEF Window
<1>3. reading /\ pos \in P => ra > 0 /\ pos < RdPieces
  BY RdAssumption DEF P
<1> HIDE DEF ra
<1>4. CASE pos >= RdPieces \/ ra <= 0
  BY <1>1, <1>2, <1>3, <1>4
<1>5. CASE ~(pos >= RdPieces \/ ra <= 0)
  BY <1>1, <1>2, <1>5 DEF P
<1> QED BY <1>4, <1>5

\* readerPiecePriorities: a piece is wanted now or soon when it is in some open reader's window.
LEMMA InWindows ==
  ASSUME NEW R \in [Streams -> RdReader],
         \A r \in Streams : Open(R[r]) => R[r].win = Window(R[r].pos, R[r].reading)
  PROVE  \A p \in P : p \in NowOf(R) \cup AheadOf(R) <=> \E r \in Streams : Open(R[r]) /\ p \in In(R[r].win)
<1> SUFFICES ASSUME NEW p \in P
             PROVE  p \in NowOf(R) \cup AheadOf(R) <=> \E r \in Streams : Open(R[r]) /\ p \in In(R[r].win)
  OBVIOUS
<1>1. \A r \in Streams : R[r].win \in Nat \X Nat /\ p \in Nat
  BY RdAssumption DEF RdReader, P
<1>2. ASSUME p \in NowOf(R)
      PROVE  \E r \in Streams : Open(R[r]) /\ p \in In(R[r].win)
  <2>1. PICK r \in Streams : Open(R[r]) /\ R[r].win[1] < R[r].win[2] /\ p = R[r].win[1]
    BY <1>2 DEF NowOf, Open
  <2> QED BY <1>1, <2>1 DEF In
<1>3. ASSUME p \in AheadOf(R)
      PROVE  \E r \in Streams : Open(R[r]) /\ p \in In(R[r].win)
  BY <1>3 DEF AheadOf, Open
<1>4. ASSUME NEW r \in Streams, Open(R[r]), p \in In(R[r].win)
      PROVE  p \in NowOf(R) \cup AheadOf(R)
  <2>1. R[r].win[1] < R[r].win[2]
    BY <1>1, <1>4 DEF In
  <2>2. CASE p = R[r].win[1]
    BY <1>4, <2>1, <2>2 DEF NowOf, Open
  <2>3. CASE p # R[r].win[1]
    BY <1>4, <2>3 DEF AheadOf, Open
  <2> QED BY <2>2, <2>3
<1> QED BY <1>2, <1>3, <1>4

\* readerPosChanged: a piece it does not look at is in both windows or in neither.
LEMMA UntouchedSame ==
  ASSUME NEW from \in Nat \X Nat, NEW to \in Nat \X Nat, NEW p \in P, p \notin Touched(from, to)
  PROVE  p \in In(from) <=> p \in In(to)
<1> DEFINE l == IF from[1] > to[1] THEN to ELSE from
           h == IF from[1] > to[1] THEN from ELSE to
           end == IF l[2] > h[2] THEN l[2] ELSE h[2]
<1>1. Touched(from, to) = IF from = to THEN {} ELSE IF l[2] < h[1] THEN In(l) \cup In(h) ELSE In(<<l[1], end>>)
  BY DEF Touched
<1>2. (l = from /\ h = to) \/ (l = to /\ h = from)
  OBVIOUS
<1>3. l[1] \in Nat /\ l[2] \in Nat /\ h[1] \in Nat /\ h[2] \in Nat /\ l[1] <= h[1] /\ p \in Nat
  BY RdAssumption DEF P
<1>4. end \in Nat /\ end >= l[2] /\ end >= h[2]
  BY <1>3
<1> HIDE DEF l, h, end
<1>5. CASE from = to
  BY <1>5
<1>6. CASE from # to /\ l[2] < h[1]
  BY <1>1, <1>2, <1>6
<1>7. CASE from # to /\ ~(l[2] < h[1])
  <2>1. p \notin In(<<l[1], end>>)
    BY <1>1, <1>7
  <2>2. ~(l[1] <= p /\ p < end)
    BY <2>1 DEF In
  <2>3. p \notin In(l) /\ p \notin In(h)
    BY <1>3, <1>4, <2>2 DEF In
  <2> QED BY <1>2, <2>3
<1> QED BY <1>5, <1>6, <1>7

\* posChanged, wherever the reader stood: what is asked and what is wanted stay one.
MovedTo(r, x) ==
  /\ x \in RdReader /\ Open(x)
  /\ \A p \in P : p \in In(x.win) <=> Open(rd[r]) /\ p \in In(rd[r].win)
  /\ x.pc = "check" => x.reading /\ x.pos \in P
  /\ x.pc \in {"idle", "check"}

LEMMA PosChangedStep ==
  ASSUME RdInv, NEW r \in Streams, NEW x, MovedTo(r, x), PosChanged(r, [rd EXCEPT ![r] = x]),
         UNCHANGED <<pst, bytes, queued, selected, stopped, check, closed, wedged>>
  PROVE  RdInv'
<1>. USE DEF RdInv
<1> DEFINE R == [rd EXCEPT ![r] = x]
           to == Window(x.pos, x.reading)
           new == [R EXCEPT ![r].win = to]
<1>1. rd \in [Streams -> RdReader] /\ R \in [Streams -> RdReader] /\ R[r] = x /\ x \in RdReader
  BY DEF RdShape, MovedTo
<1>2. to \in Nat \X Nat /\ x.win \in Nat \X Nat
  BY <1>1, WindowIs DEF RdReader
<1>3. /\ new \in [Streams -> RdReader] /\ new[r] = [x EXCEPT !.win = to]
      /\ \A s \in Streams : s # r => new[s] = rd[s]
      /\ new[r].pc = x.pc /\ new[r].pos = x.pos /\ new[r].reading = x.reading /\ new[r].win = to
  BY <1>1, <1>2 DEF RdReader
<1>4. /\ rd' = new /\ nowP' = NowOf(new) /\ aheadP' = AheadOf(new)
      /\ pend' = Updated(Touched(x.win, to), pst, queued, stopped, selected, NowOf(new), AheadOf(new))
  BY <1>1 DEF PosChanged
<1> HIDE DEF R, to, new
<1>5. \A s \in Streams : Open(new[s]) => new[s].win = Window(new[s].pos, new[s].reading)
  BY <1>3 DEF WindowsFollow, Open, to
<1>6. WindowsFollow'
  BY <1>4, <1>5 DEF WindowsFollow, Open
<1>7. ASSUME NEW p \in P, p \notin Touched(x.win, to)
      PROVE  p \in NowOf(new) \cup AheadOf(new) <=> p \in nowP \cup aheadP
  <2>1. p \in In(x.win) <=> p \in In(to)
    BY <1>2, <1>7, UntouchedSame
  <2>2. \A s \in Streams : Open(new[s]) /\ p \in In(new[s].win) <=> Open(rd[s]) /\ p \in In(rd[s].win)
    <3>1. CASE TRUE
      <4>1. Open(new[r]) /\ new[r].win = to
        BY <1>3 DEF Open, MovedTo
      <4> QED BY <1>3, <2>1, <4>1 DEF MovedTo
    <3> QED BY <3>1
  <2>3. p \in nowP \cup aheadP <=> \E s \in Streams : Open(rd[s]) /\ p \in In(rd[s].win)
    <3>1. \A s \in Streams : Open(rd[s]) => rd[s].win = Window(rd[s].pos, rd[s].reading)
      BY DEF WindowsFollow, Open
    <3> QED BY <1>1, <3>1, InWindows DEF WindowsFollow
  <2>4. p \in NowOf(new) \cup AheadOf(new) <=> \E s \in Streams : Open(new[s]) /\ p \in In(new[s].win)
    BY <1>3, <1>5, InWindows
  <2> QED BY <2>2, <2>3, <2>4
<1>8. pend' \subseteq P
  BY <1>4 DEF Updated, Touched, In, RdShape
<1>9. WantedIsAsked'
  <2> SUFFICES ASSUME ~closed, ~stopped
               PROVE  pend' = {p \in P : Wanted(p, pst, queued, stopped, selected, NowOf(new), AheadOf(new))}
    BY <1>4 DEF WantedIsAsked
  <2>1. pend = {p \in P : Wanted(p, pst, queued, stopped, selected, nowP, aheadP)}
    BY DEF WantedIsAsked
  <2>2. \A p \in P : p \notin Touched(x.win, to) =>
          (Wanted(p, pst, queued, stopped, selected, NowOf(new), AheadOf(new))
             <=> Wanted(p, pst, queued, stopped, selected, nowP, aheadP))
    BY <1>7 DEF Wanted
  <2>3. Touched(x.win, to) \subseteq P
    BY DEF Touched, In
  <2> QED BY <1>4, <2>1, <2>2, <2>3 DEF Updated
<1>10. RdShape'
  BY <1>3, <1>4, <1>8 DEF RdShape
<1>11. BusyReads'
  BY <1>3, <1>4 DEF BusyReads, MovedTo, RdBusy
<1>12. NoneSleepsOnData'
  BY <1>3, <1>4 DEF NoneSleepsOnData, Available, MovedTo
<1>. QED BY <1>6, <1>9, <1>10, <1>11, <1>12

\* Steps that leave every reader where it stands keep windows and wishes.
Stays(R) ==
  \A r \in Streams : /\ R[r].pos = rd[r].pos /\ R[r].reading = rd[r].reading /\ R[r].win = rd[r].win
                     /\ Open(R[r]) <=> Open(rd[r])

LEMMA StayingStep ==
  ASSUME RdInv, rd' \in [Streams -> RdReader], Stays(rd'), nowP' = nowP, aheadP' = aheadP
  PROVE  WindowsFollow'
<1>1. NowOf(rd') = NowOf(rd)
  BY DEF NowOf, Stays, Open
<1>2. AheadOf(rd') = AheadOf(rd)
  BY DEF AheadOf, Stays, Open
<1> QED BY <1>1, <1>2 DEF RdInv, WindowsFollow, Stays, Open

ReaderAt(y, c, n, w) == [y EXCEPT !.pc = c, !.tries = n, !.woke = w]

\* A reader with another place in its read, and no other place in the file.
LEMMA ReaderWith ==
  ASSUME NEW y \in RdReader, NEW c \in RdPcs, NEW n \in Nat, NEW w \in BOOLEAN
  PROVE  /\ ReaderAt(y, c, n, w) \in RdReader
         /\ [y EXCEPT !.pc = c, !.tries = n] = ReaderAt(y, c, n, y.woke)
         /\ [y EXCEPT !.pc = c, !.woke = w] = ReaderAt(y, c, y.tries, w)
         /\ [y EXCEPT !.pc = c] = ReaderAt(y, c, y.tries, y.woke)
         /\ y.tries \in Nat /\ y.woke \in BOOLEAN
  BY DEF RdReader, ReaderAt

\* One reader goes on with its read where it stands; the others do not notice.
LEMMA ReaderPlaced ==
  ASSUME NEW r \in Streams, rd \in [Streams -> RdReader], NEW c \in RdPcs, NEW n \in Nat, NEW w \in BOOLEAN,
         rd[r].pc \in RdBusy, c \notin {"none", "gone"}, NEW R,
         R = [rd EXCEPT ![r] = ReaderAt(rd[r], c, n, w)]
  PROVE  /\ R \in [Streams -> RdReader] /\ Stays(R)
         /\ \A s \in Streams : s # r => R[s] = rd[s]
         /\ R[r].pc = c
<1> DEFINE x == ReaderAt(rd[r], c, n, w)
<1>1. rd[r] \in RdReader /\ x \in RdReader
  BY ReaderWith
<1>2. x.pc = c /\ x.pos = rd[r].pos /\ x.reading = rd[r].reading /\ x.win = rd[r].win
  BY <1>1 DEF RdReader, ReaderAt
<1>3. Open(x) /\ Open(rd[r])
  BY <1>2 DEF Open, RdBusy
<1> HIDE DEF x
<1>4. R[r] = x /\ \A s \in Streams : s # r => R[s] = rd[s]
  BY DEF x
<1>5. R \in [Streams -> RdReader]
  BY <1>1 DEF x
<1> QED BY <1>2, <1>3, <1>4, <1>5 DEF Stays

\* readAt's ladder leaves the reader where it stands.
LEMMA FailedIs ==
  ASSUME RdInv, NEW r \in Streams, rd[r].pc \in RdBusy
  PROVE  /\ Failed(rd, r) \in [Streams -> RdReader] /\ Stays(Failed(rd, r))
         /\ \A s \in Streams : s # r => Failed(rd, r)[s] = rd[s]
         /\ Failed(rd, r)[r].pc \in {"check", "resync", "over"}
<1>1. rd \in [Streams -> RdReader] /\ rd[r] \in RdReader
  BY DEF RdInv, RdShape
<1>2. PICK c \in {"check", "resync", "over"}, n \in Nat :
        Failed(rd, r) = [rd EXCEPT ![r] = ReaderAt(rd[r], c, n, rd[r].woke)]
  <2>1. CASE rd[r].tries = 1
    <3>1. Failed(rd, r) = [rd EXCEPT ![r].pc = "check", ![r].tries = 2]
      BY <2>1 DEF Failed
    <3>2. [rd EXCEPT ![r].pc = "check", ![r].tries = 2] = [rd EXCEPT ![r] = ReaderAt(rd[r], "check", 2, rd[r].woke)]
      BY <1>1 DEF RdReader, ReaderAt
    <3> QED BY <3>1, <3>2
  <2>2. CASE rd[r].tries = 2
    <3>1. Failed(rd, r) = [rd EXCEPT ![r].pc = "resync", ![r].tries = 3]
      BY <2>2 DEF Failed
    <3>2. [rd EXCEPT ![r].pc = "resync", ![r].tries = 3] = [rd EXCEPT ![r] = ReaderAt(rd[r], "resync", 3, rd[r].woke)]
      BY <1>1 DEF RdReader, ReaderAt
    <3> QED BY <3>1, <3>2
  <2>3. CASE rd[r].tries # 1 /\ rd[r].tries # 2
    <3>1. Failed(rd, r) = [rd EXCEPT ![r] = [rd[r] EXCEPT !.pc = "over"]]
      BY <1>1, <2>3 DEF Failed
    <3>2. [rd[r] EXCEPT !.pc = "over"] = ReaderAt(rd[r], "over", rd[r].tries, rd[r].woke)
      BY <1>1 DEF RdReader, ReaderAt
    <3>3. rd[r].tries \in Nat
      BY <1>1 DEF RdReader
    <3> QED BY <3>1, <3>2, <3>3
  <2> QED BY <2>1, <2>2, <2>3
<1>3. rd[r].woke \in BOOLEAN /\ c \in RdPcs
  <2>1. rd[r].woke \in BOOLEAN
    BY <1>1 DEF RdReader
  <2>2. c \in RdPcs
    BY DEF RdPcs, RdBusy
  <2> QED BY <2>1, <2>2
<1>4. c \notin {"none", "gone"}
  OBVIOUS
<1> QED BY <1>1, <1>2, <1>3, <1>4, ReaderPlaced DEF Stays

\* A reader's own steps that do not move it.
LEMMA ReaderStep ==
  ASSUME RdInv, NEW r \in Streams, LookAvailable(r) \/ Unblock(r) \/ ReadStore(r)
  PROVE  RdInv'
<1>. USE DEF RdInv
<1>0. rd \in [Streams -> RdReader] /\ rd[r] \in RdReader /\ rd[r].tries \in Nat /\ rd[r].woke \in BOOLEAN
  BY DEF RdShape, RdReader
<1>1. /\ rd' \in [Streams -> RdReader] /\ Stays(rd')
      /\ \A s \in Streams : s # r => rd'[s] = rd[s]
      /\ rd[r].pc \in RdBusy
      /\ rd'[r].pc = "blocked" => ~Available(r)
  <2>1. CASE LookAvailable(r)
    <3>0. PICK c \in {"store", "blocked"} : c = IF Available(r) THEN "store" ELSE "blocked"
      OBVIOUS
    <3>1. rd[r].pc \in RdBusy /\ c \in RdPcs /\ c \notin {"none", "gone"} /\ FALSE \in BOOLEAN
      BY <2>1 DEF LookAvailable, RdBusy, RdPcs
    <3>2. rd' = [rd EXCEPT ![r] = ReaderAt(rd[r], c, rd[r].tries, FALSE)]
      <4>1. rd' = [rd EXCEPT ![r] = [rd[r] EXCEPT !.pc = c, !.woke = FALSE]]
        BY <1>0, <2>1, <3>0 DEF LookAvailable
      <4>2. [rd[r] EXCEPT !.pc = c, !.woke = FALSE] = ReaderAt(rd[r], c, rd[r].tries, FALSE)
        BY <1>0, <3>1, ReaderWith
      <4> QED BY <4>1, <4>2
    <3>3. c = "blocked" => ~Available(r)
      BY <3>0
    <3>4. PICK w \in BOOLEAN : w = FALSE
      OBVIOUS
    <3>5. rd' = [rd EXCEPT ![r] = ReaderAt(rd[r], c, rd[r].tries, w)]
      BY <3>2, <3>4
    <3> QED BY <1>0, <3>1, <3>3, <3>5, ReaderPlaced DEF Stays
  <2>2. ASSUME NEW c \in {"check", "over", "moved"}, rd' = [rd EXCEPT ![r].pc = c], rd[r].pc \in RdBusy
        PROVE  /\ rd' \in [Streams -> RdReader] /\ Stays(rd')
               /\ \A s \in Streams : s # r => rd'[s] = rd[s]
               /\ rd'[r].pc # "blocked"
    <3>1. c \in RdPcs /\ c \notin {"none", "gone"} /\ c # "blocked"
      BY DEF RdBusy, RdPcs
    <3>2. rd' = [rd EXCEPT ![r] = ReaderAt(rd[r], c, rd[r].tries, rd[r].woke)]
      <4>1. rd' = [rd EXCEPT ![r] = [rd[r] EXCEPT !.pc = c]]
        BY <1>0, <2>2
      <4>2. [rd[r] EXCEPT !.pc = c] = ReaderAt(rd[r], c, rd[r].tries, rd[r].woke)
        BY <1>0, <3>1, ReaderWith
      <4> QED BY <4>1, <4>2
    <3> QED BY <1>0, <2>2, <3>1, <3>2, ReaderPlaced DEF Stays
  <2>3. CASE Unblock(r)
    <3>1. rd[r].pc \in RdBusy
      BY <2>3 DEF Unblock, RdBusy
    <3>2. \/ rd' = [rd EXCEPT ![r].pc = "check"]
          \/ rd' = Failed(rd, r)
          \/ rd' = [rd EXCEPT ![r].pc = "over"]
      BY <2>3 DEF Unblock
    <3>3. CASE rd' = Failed(rd, r)
      BY <3>1, <3>3, FailedIs
    <3>4. CASE rd' = [rd EXCEPT ![r].pc = "check"]
      BY <2>2, <3>1, <3>4
    <3>5. CASE rd' = [rd EXCEPT ![r].pc = "over"]
      BY <2>2, <3>1, <3>5
    <3> QED BY <3>2, <3>3, <3>4, <3>5
  <2>4. CASE ReadStore(r)
    <3>1. rd[r].pc \in RdBusy
      BY <2>4 DEF ReadStore, RdBusy
    <3>2. rd' = Failed(rd, r) \/ rd' = [rd EXCEPT ![r].pc = "moved"]
      BY <2>4 DEF ReadStore
    <3>3. CASE rd' = Failed(rd, r)
      BY <3>1, <3>3, FailedIs
    <3>4. CASE rd' = [rd EXCEPT ![r].pc = "moved"]
      BY <2>2, <3>1, <3>4
    <3> QED BY <3>2, <3>3, <3>4
  <2> QED BY <2>1, <2>3, <2>4
<1>2. UNCHANGED <<pst, bytes, queued, selected, stopped, nowP, aheadP, pend, check, closed, wedged>>
  BY DEF LookAvailable, Unblock, ReadStore
<1>3. WindowsFollow'
  BY <1>1, <1>2, StayingStep
<1>4. RdShape' /\ WantedIsAsked'
  BY <1>1, <1>2 DEF RdShape, WantedIsAsked
<1>5. BusyReads'
  BY <1>1 DEF BusyReads, Stays
<1>6. NoneSleepsOnData'
  BY <1>1, <1>2 DEF NoneSleepsOnData, Available, Stays
<1>. QED BY <1>3, <1>4, <1>5, <1>6

\* The steps that move a reader.
LEMMA MovingStep ==
  ASSUME RdInv, NEW r \in Streams,
         OpenStream(r) \/ Read(r) \/ Move(r) \/ \E n \in 0 .. RdPieces : Seek(r, n)
  PROVE  RdInv'
<1>. USE DEF RdInv
<1>1. rd \in [Streams -> RdReader] /\ rd[r] \in RdReader
  BY DEF RdShape
<1>2. CASE OpenStream(r)
  <2> DEFINE x == [NoReader EXCEPT !.pc = "idle"]
  <2>1. x \in RdReader /\ x.pc = "idle" /\ x.win = <<0, 0>> /\ ~Open(rd[r])
    <3>1. 0 \in 0 .. RdPieces /\ <<0, 0>> \in Nat \X Nat /\ "idle" \in RdPcs /\ "none" \in RdPcs
      BY RdAssumption DEF RdPcs
    <3>2. NoReader \in RdReader /\ NoReader.win = <<0, 0>>
      BY <3>1 DEF NoReader, RdReader
    <3>3. ~Open(rd[r])
      BY <1>2 DEF OpenStream, Open
    <3> QED BY <3>1, <3>2, <3>3 DEF RdReader
  <2>2. \A p \in P : p \notin In(<<0, 0>>)
    BY RdAssumption DEF In, P
  <2>3. MovedTo(r, x)
    BY <2>1, <2>2 DEF MovedTo, Open
  <2> QED BY <1>2, <2>3, PosChangedStep DEF OpenStream
<1>3. CASE Read(r)
  <2> DEFINE x == [rd[r] EXCEPT !.reading = TRUE, !.pc = "check", !.tries = 1, !.woke = FALSE]
  <2>1. /\ x \in RdReader /\ x.pc = "check" /\ x.win = rd[r].win /\ Open(rd[r])
        /\ x.reading /\ x.pos = rd[r].pos /\ rd[r].pos \in P
    <3>1. rd[r].pc = "idle" /\ rd[r].pos \in 0 .. RdPieces /\ rd[r].pos < RdPieces
      BY <1>1, <1>3 DEF RdReader, Read
    <3>2. rd[r].pos \in P
      BY <3>1, RdAssumption DEF P
    <3>3. Open(rd[r]) /\ "check" \in RdPcs
      BY <3>1 DEF Open, RdPcs, RdBusy
    <3>4. x \in RdReader /\ x.pc = "check" /\ x.win = rd[r].win /\ x.reading /\ x.pos = rd[r].pos
      BY <1>1, <3>3 DEF RdReader
    <3> QED BY <3>2, <3>3, <3>4
  <2>2. [rd EXCEPT ![r].reading = TRUE, ![r].pc = "check", ![r].tries = 1, ![r].woke = FALSE] = [rd EXCEPT ![r] = x]
    BY <1>1
  <2>3. MovedTo(r, x)
    BY <2>1 DEF MovedTo, Open
  <2> QED BY <1>3, <2>2, <2>3, PosChangedStep DEF Read
<1>4. CASE Move(r)
  <2> DEFINE x == [rd[r] EXCEPT !.pos = rd[r].pos + 1, !.pc = "idle", !.tries = 0]
  <2>1. rd[r].pos \in P /\ Open(rd[r])
    BY <1>4 DEF Move, BusyReads, RdBusy, Open
  <2>2. x \in RdReader /\ x.pc = "idle" /\ x.win = rd[r].win
    <3>1. rd[r].pos + 1 \in 0 .. RdPieces
      BY <2>1, RdAssumption DEF P
    <3>2. "idle" \in RdPcs
      BY DEF RdPcs
    <3> QED BY <1>1, <3>1, <3>2 DEF RdReader
  <2>3. [rd EXCEPT ![r].pos = rd[r].pos + 1, ![r].pc = "idle", ![r].tries = 0] = [rd EXCEPT ![r] = x]
    BY <1>1
  <2>4. MovedTo(r, x)
    BY <2>1, <2>2 DEF MovedTo, Open
  <2> QED BY <1>4, <2>3, <2>4, PosChangedStep DEF Move
<1>5. ASSUME NEW n \in 0 .. RdPieces, Seek(r, n)
      PROVE  RdInv'
  <2> DEFINE x == [rd[r] EXCEPT !.pos = n, !.reading = FALSE]
  <2>1. x \in RdReader /\ x.pc = "idle" /\ x.win = rd[r].win /\ Open(rd[r])
    BY <1>1, <1>5 DEF RdReader, Seek, Open
  <2>2. [rd EXCEPT ![r].pos = n, ![r].reading = FALSE] = [rd EXCEPT ![r] = x]
    BY <1>1
  <2>3. MovedTo(r, x)
    BY <2>1 DEF MovedTo, Open
  <2> QED BY <1>5, <2>2, <2>3, PosChangedStep DEF Seek
<1> QED BY <1>2, <1>3, <1>4, <1>5

\* updatePieceCompletion after a read that failed: a complete piece without its bytes is missing again.
LEMMA ResyncStep ==
  ASSUME RdInv, NEW r \in Streams, Resync(r)
  PROVE  RdInv'
<1>. USE DEF RdInv
<1> DEFINE hollow == {p \in In(rd[r].win) : pst[p] = "complete" /\ bytes[p] = "none"}
           st == [p \in P |-> IF ~closed /\ p \in hollow THEN "missing" ELSE pst[p]]
<1>1. rd \in [Streams -> RdReader] /\ rd[r] \in RdReader /\ rd[r].tries \in Nat /\ rd[r].woke \in BOOLEAN
  BY DEF RdShape, RdReader
<1>2. /\ pst' = st /\ rd' = [rd EXCEPT ![r].pc = "check"] /\ rd[r].pc = "resync"
      /\ pend' = IF closed THEN pend ELSE Updated(hollow, st, queued, stopped, selected, nowP, aheadP)
      /\ UNCHANGED <<bytes, queued, selected, stopped, nowP, aheadP, check, closed, wedged>>
  BY DEF Resync
<1>3. rd[r].pc \in RdBusy /\ "check" \in RdPcs /\ "check" \notin {"none", "gone"}
  BY <1>2 DEF RdBusy, RdPcs
<1>4. rd' = [rd EXCEPT ![r] = ReaderAt(rd[r], "check", rd[r].tries, rd[r].woke)]
  <2>1. rd' = [rd EXCEPT ![r] = [rd[r] EXCEPT !.pc = "check"]]
    BY <1>1, <1>2
  <2>2. [rd[r] EXCEPT !.pc = "check"] = ReaderAt(rd[r], "check", rd[r].tries, rd[r].woke)
    BY <1>1, <1>3, ReaderWith
  <2> QED BY <2>1, <2>2
<1>5. /\ rd' \in [Streams -> RdReader] /\ Stays(rd') /\ rd'[r].pc = "check"
      /\ \A s \in Streams : s # r => rd'[s] = rd[s]
  BY <1>1, <1>3, <1>4, ReaderPlaced DEF Stays
<1>6. hollow \subseteq P
  BY DEF In
<1>7. pst' \in [P -> {"missing", "dirty", "complete"}] /\ pend' \subseteq P
  <2>1. st \in [P -> {"missing", "dirty", "complete"}]
    BY DEF RdShape
  <2> HIDE DEF hollow, st
  <2> QED BY <1>2, <1>6, <2>1 DEF Updated, RdShape
<1>8. \A p \in P : /\ pst'[p] # "missing" => pst[p] # "missing"
                   /\ p \notin hollow => pst'[p] = pst[p]
  BY <1>2
<1> HIDE DEF hollow, st
<1>9. WindowsFollow'
  BY <1>2, <1>5, StayingStep
<1>10. WantedIsAsked'
  <2> SUFFICES ASSUME ~closed, ~stopped
               PROVE  pend' = {p \in P : Wanted(p, pst', queued, stopped, selected, nowP, aheadP)}
    BY <1>2 DEF WantedIsAsked
  <2>1. pend = {p \in P : Wanted(p, pst, queued, stopped, selected, nowP, aheadP)}
    BY DEF WantedIsAsked
  <2>2. \A p \in P : p \notin hollow => (Wanted(p, pst', queued, stopped, selected, nowP, aheadP)
                                        <=> Wanted(p, pst, queued, stopped, selected, nowP, aheadP))
    BY <1>8 DEF Wanted, Ignored
  <2> QED BY <1>2, <1>6, <2>1, <2>2 DEF Updated
<1>11. RdShape'
  BY <1>2, <1>5, <1>7 DEF RdShape
<1>12. BusyReads'
  BY <1>3, <1>5 DEF BusyReads, Stays
<1>13. NoneSleepsOnData'
  <2> SUFFICES ASSUME NEW s \in Streams, rd'[s].pc = "blocked", pst'[rd'[s].pos] # "missing"
               PROVE  rd'[s].woke
    BY DEF NoneSleepsOnData, Available
  <2>1. s # r /\ rd'[s] = rd[s]
    BY <1>5
  <2>2. rd[s].pos \in P
    BY <2>1 DEF BusyReads, RdBusy
  <2> QED BY <1>8, <2>1, <2>2 DEF NoneSleepsOnData, Available
<1>. QED BY <1>9, <1>10, <1>11, <1>12, <1>13

\* deleteReader: the wishes are those of the readers left.
LEMMA CloseStep ==
  ASSUME RdInv, NEW r \in Streams, CloseStream(r)
  PROVE  RdInv'
<1>. USE DEF RdInv
<1> DEFINE x == [NoReader EXCEPT !.pc = "gone"]
<1>1. rd \in [Streams -> RdReader]
  BY DEF RdShape
<1>2. x \in RdReader /\ x.pc = "gone"
  <2>1. 0 \in 0 .. RdPieces /\ <<0, 0>> \in Nat \X Nat /\ "gone" \in RdPcs /\ "none" \in RdPcs
    BY RdAssumption DEF RdPcs
  <2>2. NoReader \in RdReader
    BY <2>1 DEF NoReader, RdReader
  <2> QED BY <2>1, <2>2 DEF RdReader
<1>3. /\ rd' = [rd EXCEPT ![r] = x] /\ nowP' = NowOf(rd') /\ aheadP' = AheadOf(rd')
      /\ pend' = Updated(P, pst, queued, stopped, selected, nowP', aheadP')
      /\ UNCHANGED <<pst, bytes, queued, selected, stopped, check, closed, wedged>>
  BY DEF CloseStream
<1> HIDE DEF x
<1>4. /\ rd' \in [Streams -> RdReader] /\ rd'[r].pc = "gone"
      /\ \A s \in Streams : s # r => rd'[s] = rd[s]
  BY <1>1, <1>2, <1>3
<1>5. WindowsFollow'
  <2>1. \A s \in Streams : rd'[s].pc \notin {"none", "gone"} => rd'[s].win = Window(rd'[s].pos, rd'[s].reading)
    BY <1>4 DEF WindowsFollow
  <2> QED BY <1>3, <2>1 DEF WindowsFollow
<1>6. pend' \subseteq P
  BY <1>3 DEF Updated, RdShape
<1>7. RdShape'
  BY <1>3, <1>4, <1>6 DEF RdShape
<1>8. WantedIsAsked'
  BY <1>3 DEF WantedIsAsked, Updated, RdShape
<1>9. BusyReads' /\ NoneSleepsOnData'
  BY <1>3, <1>4 DEF BusyReads, RdBusy, NoneSleepsOnData, Available
<1>. QED BY <1>5, <1>7, <1>8, <1>9

-----------------------------------------------------------------------------
\* The broadcast reaches every reader that sleeps on the piece and moves none.
LEMMA WokenIs ==
  ASSUME RdInv, NEW p \in P
  PROVE  /\ Woken(p) \in [Streams -> RdReader] /\ Stays(Woken(p))
         /\ \A s \in Streams : /\ Woken(p)[s].pc = rd[s].pc
                               /\ rd[s].woke => Woken(p)[s].woke
                               /\ rd[s].pc = "blocked" /\ rd[s].pos = p => Woken(p)[s].woke
<1>1. rd \in [Streams -> RdReader]
  BY DEF RdInv, RdShape
<1>2. ASSUME NEW s \in Streams
      PROVE  /\ Woken(p)[s] \in RdReader /\ Woken(p)[s].pc = rd[s].pc
             /\ Woken(p)[s].pos = rd[s].pos /\ Woken(p)[s].reading = rd[s].reading /\ Woken(p)[s].win = rd[s].win
             /\ rd[s].woke => Woken(p)[s].woke
             /\ rd[s].pc = "blocked" /\ rd[s].pos = p => Woken(p)[s].woke
  <2>1. rd[s] \in RdReader
    BY <1>1
  <2>2. CASE rd[s].pc = "blocked" /\ rd[s].pos = p
    <3>1. Woken(p)[s] = [rd[s] EXCEPT !.woke = TRUE]
      BY <2>2 DEF Woken
    <3> QED BY <2>1, <3>1 DEF RdReader
  <2>3. CASE ~(rd[s].pc = "blocked" /\ rd[s].pos = p)
    <3>1. Woken(p)[s] = rd[s]
      BY <2>3 DEF Woken
    <3> QED BY <2>1, <2>3, <3>1
  <2> QED BY <2>2, <2>3
<1>3. Woken(p) = [s \in Streams |-> Woken(p)[s]]
  BY DEF Woken
<1>4. Woken(p) \in [Streams -> RdReader]
  BY <1>2, <1>3
<1>5. Stays(Woken(p))
  BY <1>2 DEF Stays, Open
<1> QED BY <1>2, <1>4, <1>5

\* The readers at a step of the torrent: asleep or woken, none of them moves.
LEMMA Bystanders ==
  ASSUME RdInv, rd' = rd \/ (\E p \in P : rd' = Woken(p)), nowP' = nowP, aheadP' = aheadP
  PROVE  rd' \in [Streams -> RdReader] /\ WindowsFollow' /\ BusyReads'
<1>1. /\ rd' \in [Streams -> RdReader] /\ Stays(rd')
      /\ \A s \in Streams : rd'[s].pc = rd[s].pc
  <2>1. CASE rd' = rd
    BY <2>1 DEF RdInv, RdShape, Stays
  <2>2. ASSUME NEW p \in P, rd' = Woken(p)
        PROVE  /\ rd' \in [Streams -> RdReader] /\ Stays(rd')
               /\ \A s \in Streams : rd'[s].pc = rd[s].pc
    BY <2>2, WokenIs DEF Stays
  <2> QED BY <2>1, <2>2
<1>2. WindowsFollow'
  BY <1>1, StayingStep
<1>3. BusyReads'
  BY <1>1 DEF BusyReads, Stays, RdInv
<1> QED BY <1>1, <1>2, <1>3

\* A step of the torrent that looks at one piece: the others are wanted as before.
LEMMA OnePieceStep ==
  ASSUME RdInv, NEW p \in P, pst' \in [P -> {"missing", "dirty", "complete"}],
         queued' \in [wait : SUBSET P, hash : SUBSET P],
         \A o \in P \ {p} : /\ pst'[o] = pst[o]
                            /\ o \in queued'.wait \cup queued'.hash <=> o \in queued.wait \cup queued.hash,
         pend' = (pend \ {p}) \cup {o \in {p} : Wanted(o, pst', queued', stopped, selected, nowP, aheadP)},
         UNCHANGED <<selected, stopped, nowP, aheadP, closed>>
  PROVE  pend' \subseteq P /\ WantedIsAsked'
<1>1. pend' \subseteq P
  BY DEF RdInv, RdShape
<1>2. WantedIsAsked'
  <2> SUFFICES ASSUME ~closed, ~stopped
               PROVE  pend' = {o \in P : Wanted(o, pst', queued', stopped, selected, nowP, aheadP)}
    BY DEF WantedIsAsked
  <2>1. pend = {o \in P : Wanted(o, pst, queued, stopped, selected, nowP, aheadP)}
    BY DEF RdInv, WantedIsAsked
  <2>2. \A o \in P : o # p => (Wanted(o, pst', queued', stopped, selected, nowP, aheadP)
                                <=> Wanted(o, pst, queued, stopped, selected, nowP, aheadP))
    BY DEF Wanted, Ignored
  <2> QED BY <2>1, <2>2
<1> QED BY <1>1, <1>2

\* A chunk of a wanted piece: the piece is asked for no more, and whoever sleeps on it wakes.
LEMMA ChunkStep ==
  ASSUME RdInv, NEW p \in P, ChunkIn(p)
  PROVE  RdInv'
<1>. USE DEF RdInv
<1>1. /\ p \in pend /\ pst' = [pst EXCEPT ![p] = "dirty"]
      /\ queued' = [queued EXCEPT !.hash = queued.hash \cup {p}]
      /\ pend' = pend \ {p} /\ rd' = Woken(p)
      /\ UNCHANGED <<selected, stopped, nowP, aheadP, check, closed, wedged>>
      /\ bytes' = [bytes EXCEPT ![p] = "good"] \/ bytes' = [bytes EXCEPT ![p] = "bad"]
  BY DEF ChunkIn
<1>2. queued' \in [wait : SUBSET P, hash : SUBSET P] /\ queued'.wait = queued.wait /\ queued'.hash = queued.hash \cup {p}
  BY <1>1 DEF RdShape
<1>3. /\ pst' \in [P -> {"missing", "dirty", "complete"}] /\ pst'[p] = "dirty"
      /\ \A o \in P \ {p} : pst'[o] = pst[o]
  BY <1>1 DEF RdShape
<1>4. ~Wanted(p, pst', queued', stopped, selected, nowP, aheadP)
  BY <1>3 DEF Wanted, Ignored
<1>5. pend' \subseteq P /\ WantedIsAsked'
  <2>1. pend' = (pend \ {p}) \cup {o \in {p} : Wanted(o, pst', queued', stopped, selected, nowP, aheadP)}
    BY <1>1, <1>4
  <2> QED BY <1>1, <1>2, <1>3, <2>1, OnePieceStep
<1>6. rd' \in [Streams -> RdReader] /\ WindowsFollow' /\ BusyReads'
  BY <1>1, Bystanders
<1>7. bytes' \in [P -> {"none", "good", "bad"}]
  BY <1>1 DEF RdShape
<1>8. RdShape'
  BY <1>1, <1>2, <1>3, <1>5, <1>6, <1>7 DEF RdShape
<1>9. NoneSleepsOnData'
  <2> SUFFICES ASSUME NEW s \in Streams, rd'[s].pc = "blocked", pst'[rd'[s].pos] # "missing"
               PROVE  rd'[s].woke
    BY DEF NoneSleepsOnData, Available
  <2>1. rd[s].pc = "blocked" /\ rd'[s].pos = rd[s].pos /\ rd[s].pos \in P
    BY <1>1, WokenIs DEF Stays, BusyReads, RdBusy
  <2>2. CASE rd[s].pos = p
    BY <1>1, <2>1, <2>2, WokenIs
  <2>3. CASE rd[s].pos # p
    <3>1. rd[s].woke
      BY <1>3, <2>1, <2>3 DEF NoneSleepsOnData, Available
    <3> QED BY <1>1, <3>1, WokenIs
  <2> QED BY <2>2, <2>3
<1>. QED BY <1>5, <1>6, <1>8, <1>9

\* pieceHashed: a piece that failed is asked for again, one that passed wakes its readers.
LEMMA HashedStep ==
  ASSUME RdInv, NEW p \in P, Hashed(p)
  PROVE  RdInv'
<1>. USE DEF RdInv
<1>1. /\ pst' = [pst EXCEPT ![p] = IF bytes[p] = "good" THEN "complete" ELSE "missing"]
      /\ queued' = [queued EXCEPT !.hash = queued.hash \ {p}]
      /\ pend' = Updated({p}, pst', queued', stopped, selected, nowP, aheadP)
      /\ rd' = IF pst'[p] = "complete" THEN Woken(p) ELSE rd
      /\ check' = IF check.p = p /\ check.left > 0 THEN [check EXCEPT !.left = check.left - 1] ELSE check
      /\ UNCHANGED <<bytes, selected, stopped, nowP, aheadP, closed, wedged>>
  BY DEF Hashed
<1>2. queued' \in [wait : SUBSET P, hash : SUBSET P] /\ queued'.wait = queued.wait /\ queued'.hash = queued.hash \ {p}
  BY <1>1 DEF RdShape
<1>3. /\ pst' \in [P -> {"missing", "dirty", "complete"}] /\ pst'[p] \in {"complete", "missing"}
      /\ \A o \in P \ {p} : pst'[o] = pst[o]
  BY <1>1 DEF RdShape
<1>4. pend' \subseteq P /\ WantedIsAsked'
  <2>1. pend' = (pend \ {p}) \cup {o \in {p} : Wanted(o, pst', queued', stopped, selected, nowP, aheadP)}
    BY <1>1 DEF Updated
  <2> QED BY <1>1, <1>2, <1>3, <2>1, OnePieceStep
<1>5. rd' = rd \/ \E q \in P : rd' = Woken(q)
  BY <1>1
<1>6. rd' \in [Streams -> RdReader] /\ WindowsFollow' /\ BusyReads'
  BY <1>1, <1>5, Bystanders
<1>7. check' \in [at : {"off", "next", "wait", "failed", "done"}, p : P, left : Nat]
  <2>1. check \in [at : {"off", "next", "wait", "failed", "done"}, p : P, left : Nat]
    BY DEF RdShape
  <2>2. CASE check.p = p /\ check.left > 0
    <3>1. check.left - 1 \in Nat /\ check' = [check EXCEPT !.left = check.left - 1]
      BY <1>1, <2>1, <2>2
    <3> QED BY <2>1, <3>1
  <2>3. CASE ~(check.p = p /\ check.left > 0)
    BY <1>1, <2>1, <2>3
  <2> QED BY <2>2, <2>3
<1>8. RdShape'
  BY <1>1, <1>2, <1>3, <1>4, <1>6, <1>7 DEF RdShape
<1>9. NoneSleepsOnData'
  <2> SUFFICES ASSUME NEW s \in Streams, rd'[s].pc = "blocked", pst'[rd'[s].pos] # "missing"
               PROVE  rd'[s].woke
    BY DEF NoneSleepsOnData, Available
  <2>1. /\ rd[s].pc = "blocked" /\ rd'[s].pos = rd[s].pos /\ rd[s].pos \in P
        /\ rd[s].woke => rd'[s].woke
    BY <1>1, WokenIs DEF Stays, BusyReads, RdBusy
  <2>2. CASE rd[s].pos = p
    <3>1. pst'[p] = "complete" /\ rd' = Woken(p)
      BY <1>1, <1>3, <2>1, <2>2
    <3> QED BY <2>1, <2>2, <3>1, WokenIs
  <2>3. CASE rd[s].pos # p
    BY <1>3, <2>1, <2>3 DEF NoneSleepsOnData, Available
  <2> QED BY <2>2, <2>3
<1>. QED BY <1>4, <1>6, <1>8, <1>9

\* startHash of a piece a check asked for: it waits no more and is hashed.
LEMMA StartStep ==
  ASSUME RdInv, NEW p \in P, StartCheck(p)
  PROVE  RdInv'
<1>. USE DEF RdInv
<1>1. /\ p \in queued.wait /\ queued' = [wait |-> queued.wait \ {p}, hash |-> queued.hash \cup {p}]
      /\ UNCHANGED <<pst, bytes, selected, stopped, nowP, aheadP, pend, rd, check, closed, wedged>>
  BY DEF StartCheck
<1>2. /\ queued' \in [wait : SUBSET P, hash : SUBSET P]
      /\ queued'.wait \cup queued'.hash = queued.wait \cup queued.hash
  BY <1>1 DEF RdShape
<1>3. RdShape'
  BY <1>1, <1>2 DEF RdShape
<1>4. WantedIsAsked'
  BY <1>1, <1>2 DEF WantedIsAsked, Wanted, Ignored
<1>5. BusyReads' /\ WindowsFollow' /\ NoneSleepsOnData'
  BY <1>1, Bystanders DEF NoneSleepsOnData, Available
<1>. QED BY <1>3, <1>4, <1>5

\* VerifyDataContext: a piece that waits for its check is not asked for.
LEMMA VerifyStep ==
  ASSUME RdInv, VerifyPiece
  PROVE  RdInv'
<1>. USE DEF RdInv
<1>0. check \in [at : {"off", "next", "wait", "failed", "done"}, p : P, left : Nat] /\ check.p \in P
  BY DEF RdShape
<1>1. UNCHANGED <<pst, bytes, selected, stopped, nowP, aheadP, rd, closed>>
  BY DEF VerifyPiece
<1>2. BusyReads' /\ WindowsFollow' /\ NoneSleepsOnData'
  BY <1>1, Bystanders DEF NoneSleepsOnData, Available
<1>3. CASE closed
  <2>1. wedged' = TRUE /\ check' = [check EXCEPT !.at = "failed"] /\ UNCHANGED <<queued, pend>>
    BY <1>3 DEF VerifyPiece
  <2>2. check' \in [at : {"off", "next", "wait", "failed", "done"}, p : P, left : Nat]
    BY <1>0, <2>1
  <2>3. RdShape'
    BY <1>1, <2>1, <2>2 DEF RdShape
  <2>4. WantedIsAsked'
    BY <1>1, <1>3 DEF WantedIsAsked
  <2> QED BY <1>2, <2>3, <2>4
<1>4. CASE ~closed
  <2>1. /\ queued' = [queued EXCEPT !.wait = queued.wait \cup {check.p}] /\ pend' = pend \ {check.p} /\ wedged' = wedged
        /\ check' = [check EXCEPT !.at = "wait", !.left = IF check.p \in queued.hash THEN 2 ELSE 1]
    BY <1>4 DEF VerifyPiece
  <2>2. /\ queued' \in [wait : SUBSET P, hash : SUBSET P]
        /\ queued'.wait = queued.wait \cup {check.p} /\ queued'.hash = queued.hash
    BY <1>0, <2>1 DEF RdShape
  <2>3. check' \in [at : {"off", "next", "wait", "failed", "done"}, p : P, left : Nat]
    BY <1>0, <2>1
  <2>4. pend' = (pend \ {check.p}) \cup {o \in {check.p} : Wanted(o, pst', queued', stopped, selected, nowP, aheadP)}
    BY <2>1, <2>2 DEF Wanted, Ignored
  <2>5. pst' \in [P -> {"missing", "dirty", "complete"}]
    BY <1>1 DEF RdShape
  <2>6. pend' \subseteq P /\ WantedIsAsked'
    BY <1>0, <1>1, <2>2, <2>4, <2>5, OnePieceStep
  <2>7. RdShape'
    BY <1>1, <2>1, <2>2, <2>3, <2>6 DEF RdShape
  <2> QED BY <1>2, <2>6, <2>7
<1> QED BY <1>3, <1>4

\* The check goes on to the next piece, or gives up.
LEMMA VerifyWaitStep ==
  ASSUME RdInv, VerifyWaits
  PROVE  RdInv'
<1>. USE DEF RdInv
<1>1. UNCHANGED <<pst, bytes, queued, selected, stopped, nowP, aheadP, pend, rd, closed, wedged>>
  BY DEF VerifyWaits
<1>2. check' \in [at : {"off", "next", "wait", "failed", "done"}, p : P, left : Nat]
  <2>1. check \in [at : {"off", "next", "wait", "failed", "done"}, p : P, left : Nat] /\ check.p \in P
    BY DEF RdShape
  <2>2. \/ check' = [check EXCEPT !.at = "done"] \/ check' = [check EXCEPT !.at = "failed"]
        \/ check.p # RdPieces - 1 /\ check' = [check EXCEPT !.at = "next", !.p = check.p + 1]
    BY DEF VerifyWaits
  <2>3. check.p # RdPieces - 1 => check.p + 1 \in P
    BY <2>1, RdAssumption DEF P
  <2> QED BY <2>1, <2>2, <2>3
<1>3. RdShape' /\ WantedIsAsked'
  BY <1>1, <1>2 DEF RdShape, WantedIsAsked
<1>4. BusyReads' /\ WindowsFollow' /\ NoneSleepsOnData'
  BY <1>1, Bystanders DEF NoneSleepsOnData, Available
<1>. QED BY <1>3, <1>4

\* The user's selection and pause, the file deleted, the torrent dropped.
LEMMA UserStep ==
  ASSUME RdInv, (\E on \in BOOLEAN : SelectFile(on)) \/ DisallowDownload \/ AllowDownload \/ FileLost \/ DropTorrent
  PROVE  RdInv'
<1>. USE DEF RdInv
<1>1. UNCHANGED <<pst, queued, nowP, aheadP, rd, check, wedged>>
  BY DEF SelectFile, DisallowDownload, AllowDownload, FileLost, DropTorrent
<1>2. /\ selected' \in BOOLEAN /\ stopped' \in BOOLEAN /\ closed' \in BOOLEAN
      /\ bytes' \in [P -> {"none", "good", "bad"}]
  BY DEF SelectFile, DisallowDownload, AllowDownload, FileLost, DropTorrent, RdShape
<1>3. pend' \subseteq P /\ WantedIsAsked'
  <2>1. CASE (\E on \in BOOLEAN : SelectFile(on)) \/ AllowDownload
    <3>1. pend' = Updated(P, pst, queued, stopped', selected', nowP, aheadP)
      BY <2>1 DEF SelectFile, AllowDownload
    <3>2. pend' = {p \in P : Wanted(p, pst, queued, stopped', selected', nowP, aheadP)}
      BY <3>1 DEF Updated, RdShape
    <3> QED BY <1>1, <3>2 DEF WantedIsAsked
  <2>2. CASE DisallowDownload \/ DropTorrent
    BY <2>2 DEF DisallowDownload, DropTorrent, WantedIsAsked, RdShape
  <2>3. CASE FileLost
    BY <2>3 DEF FileLost, WantedIsAsked, RdShape
  <2> QED BY <2>1, <2>2, <2>3
<1>4. RdShape'
  BY <1>1, <1>2, <1>3 DEF RdShape
<1>5. BusyReads' /\ WindowsFollow' /\ NoneSleepsOnData'
  BY <1>1, Bystanders DEF NoneSleepsOnData, Available
<1>. QED BY <1>3, <1>4, <1>5

-----------------------------------------------------------------------------
\* A torrent just added has no readers.
LEMMA ReadersStart ==
  ASSUME RdInit
  PROVE  RdInv
<1>1. NoReader \in RdReader /\ NoReader.pc = "none"
  <2>1. 0 \in 0 .. RdPieces /\ <<0, 0>> \in Nat \X Nat /\ "none" \in RdPcs
    BY RdAssumption DEF RdPcs
  <2> QED BY <2>1 DEF NoReader, RdReader
<1>2. rd \in [Streams -> RdReader] /\ \A r \in Streams : rd[r].pc = "none"
  BY <1>1 DEF RdInit
<1>3. nowP = {} /\ aheadP = {} /\ NowOf(rd) = {} /\ AheadOf(rd) = {}
  BY <1>2 DEF RdInit, NowOf, AheadOf
<1>4. 0 \in P
  BY RdAssumption DEF P
<1>5. RdShape
  <2>1. /\ pst \in [P -> {"missing", "dirty", "complete"}] /\ selected \in BOOLEAN /\ stopped \in BOOLEAN
        /\ closed \in BOOLEAN /\ wedged \in BOOLEAN /\ pend \subseteq P
        /\ queued \in [wait : SUBSET P, hash : SUBSET P]
    BY DEF RdInit
  <2>2. bytes \in [P -> {"none", "good", "bad"}]
    BY DEF RdInit
  <2>3. check \in [at : {"off", "next", "wait", "failed", "done"}, p : P, left : Nat]
    BY <1>4 DEF RdInit
  <2> QED BY <1>2, <2>1, <2>2, <2>3 DEF RdShape
<1>6. BusyReads /\ NoneSleepsOnData
  BY <1>2 DEF BusyReads, RdBusy, NoneSleepsOnData
<1>7. WindowsFollow
  BY <1>2, <1>3 DEF WindowsFollow
<1>8. WantedIsAsked
  BY <1>3 DEF RdInit, WantedIsAsked, Wanted, Ignored
<1> QED BY <1>5, <1>6, <1>7, <1>8 DEF RdInv

\* Every step of streams, torrent and user keeps the invariant.
LEMMA ReadersStep ==
  ASSUME RdInv, [RdNext]_rdVars
  PROVE  RdInv'
<1>1. CASE RdNext
  BY <1>1, ReaderStep, MovingStep, ResyncStep, CloseStep, ChunkStep, HashedStep, StartStep, VerifyStep,
     VerifyWaitStep, UserStep DEF RdNext
<1>2. CASE UNCHANGED rdVars
  BY <1>2 DEF rdVars, RdInv, RdShape, BusyReads, WantedIsAsked, WindowsFollow, NoneSleepsOnData, Available
<1> QED BY <1>1, <1>2

\* A read that failed looks its completion up at the head of its window: it reads, so it has one.
LEMMA ReadersAreSafe ==
  ASSUME RdInv
  PROVE  RdSafe
<1>1. ResyncAtHead
  <2> SUFFICES ASSUME NEW r \in Streams, rd[r].pc = "resync"
               PROVE  rd[r].win[1] = rd[r].pos
    BY DEF ResyncAtHead
  <2>1. rd[r].reading /\ rd[r].pos \in P /\ rd[r].win = Window(rd[r].pos, rd[r].reading)
    BY DEF RdInv, BusyReads, RdBusy, WindowsFollow
  <2>2. rd[r].pos \in 0 .. RdPieces /\ rd[r].reading \in BOOLEAN
    BY DEF RdInv, RdShape, RdReader
  <2> QED BY <2>1, <2>2, WindowIs
<1> QED BY <1>1 DEF RdSafe, RdInv

\* reader.go, torrent.go: the invariant, for any number of pieces, streams and pieces of
\* readahead, however seeks, reads, chunks, hashes, pauses and checks overlap.
THEOREM ReadersInvariant == RdSpec => []RdInv
<1>1. RdInit => RdInv
  BY ReadersStart
<1>2. RdInv /\ [RdNext]_rdVars => RdInv'
  BY ReadersStep
<1> QED BY <1>1, <1>2, PTL DEF RdSpec

\* reader.go waitAvailable, torrent.go readerPosChanged: what is asked of the swarm is what the
\* selection and the streams want, the windows follow the read heads, no read sleeps on bytes
\* that are in, and a failed read looks at the head of its own window.
THEOREM ReadersStaySafe == RdSpec => []RdSafe
<1>1. RdInv => RdSafe
  BY ReadersAreSafe
<1> QED BY <1>1, ReadersInvariant, PTL

\* MCMedia's behaviours in which the readers run: the property its run checks on two pieces and
\* two streams, for any of them.
THEOREM StreamStaysSafe == MediaSpec => []StreamSafe
<1> DEFINE I == part = "readers" => RdInv
<1>1. MediaInit => I
  BY ReadersStart DEF MediaInit
<1>2. I /\ [MediaNext]_mediaVars => I'
  BY ReadersStep DEF MediaNext, mediaVars, rdVars, RdInv, RdShape, BusyReads, WantedIsAsked, WindowsFollow, NoneSleepsOnData, Available
<1>3. I => StreamSafe
  BY ReadersAreSafe DEF StreamSafe
<1> QED BY <1>1, <1>2, <1>3, PTL DEF MediaSpec

-----------------------------------------------------------------------------
(* The AniList client: who asks and who waits, and as whom.                *)

\* The stages of a request that goes out.
AlAsking == {"fetch", "post", "sent"}
AlPcs == AlAsking \cup {"idle", "enter", "wait", "woken"}
AlRequest == [pc : AlPcs, anon : BOOLEAN, key : AlKeys, saved : BOOLEAN, mine : BOOLEAN, try : Int,
              as : AlKeys, res : {"none", "live", "saved", "error"}, got : AlKeys \cup {None}]
AlShape ==
  /\ alToken \in AlKeys /\ alCache \in [AlKeys -> AlKeys \cup {None}]
  /\ alInflight \in [AlKeys -> AlCallers \cup {None}]
  /\ alArchive \in [BOOLEAN -> AlKeys \cup {None}] /\ alSaves \subseteq BOOLEAN \X AlKeys
  /\ alCall \in [AlCallers -> AlRequest] /\ alApplied \in [AlToggles -> Int] /\ alCrossed \in BOOLEAN
\* Whoever began a flight asks, and it is theirs until they end it.
OwnFlight ==
  \A c \in AlCallers : alCall[c].mine =>
    alCall[c].pc \in AlAsking /\ alInflight[alCall[c].key] = c /\ c \notin AlToggles
\* A request goes out as whom its key names, and its answer is saved as such, as long as nobody
\* logged in or out under it.
KeyedAt(c) ==
  alCall[c].pc # "idle" =>
    /\ alCall[c].key = BearerFor(c)
    /\ alCall[c].pc # "enter" => alCall[c].saved = (BearerFor(c) # 0)
    /\ alCall[c].pc = "sent" => alCall[c].as = BearerFor(c)
Keyed == ~alCrossed => \A c \in AlCallers \ AlToggles : KeyedAt(c)
SavesApart == ~alCrossed => \A s \in alSaves : s[1] = (s[2] # 0)
\* A toggle that was applied has ended, and one that ended is not begun again.
ToggleAt(c) ==
  /\ alCall[c].pc \in AlAsking \cup {"idle"} /\ alApplied[c] \in {0, 1}
  /\ alCall[c].pc # "idle" \/ alCall[c].res = "none" => alApplied[c] = 0
Toggles == \A c \in AlToggles : ToggleAt(c)
AlInv ==
  AlShape /\ FlightsEnd /\ OwnFlight /\ Keyed /\ AnswersStayApart /\ SavesApart /\ JobsAskLive /\ Toggles

\* Who asks nothing.
LEMMA Unasked ==
  /\ NoCall \in AlRequest /\ NoCall.pc = "idle" /\ NoCall.mine = FALSE /\ NoCall.res = "none"
  /\ 0 \in AlKeys /\ AlPcs = {"fetch", "post", "sent", "idle", "enter", "wait", "woken"}
<1>1. 0 \in AlKeys /\ AlPcs = {"fetch", "post", "sent", "idle", "enter", "wait", "woken"}
  BY DEF AlKeys, AlPcs, AlAsking
<1> QED BY <1>1 DEF NoCall, AlRequest

\* The callers but c go on as they were, or are woken.
OthersWoken(c) ==
  \A d \in AlCallers \ {c} :
    \/ alCall'[d] = alCall[d]
    \/ alCall[d].pc = "wait" /\ alCall'[d] = [alCall[d] EXCEPT !.pc = "woken"]

\* What a step of one caller leaves of the rest: requests as whom, live answers, toggles.
LEMMA CallerStep ==
  ASSUME AlInv, NEW c \in AlCallers, OthersWoken(c), alToken' = alToken, alCrossed' = alCrossed,
         \A d \in AlToggles \ {c} : alApplied'[d] = alApplied[d],
         ~alCrossed /\ c \notin AlToggles => KeyedAt(c)',
         c \in AlJobs => alCall'[c].res # "saved",
         c \in AlToggles => ToggleAt(c)'
  PROVE  Keyed' /\ JobsAskLive' /\ Toggles'
<1>. USE DEF AlInv
<1>0. \A d \in AlCallers : alCall[d] \in AlRequest
  BY DEF AlShape
<1>1. ASSUME NEW d \in AlCallers \ {c}
      PROVE  /\ alCall'[d].res = alCall[d].res /\ alCall'[d].anon = alCall[d].anon /\ alCall'[d].key = alCall[d].key
             /\ alCall'[d].saved = alCall[d].saved /\ alCall'[d].as = alCall[d].as
             /\ \/ alCall'[d].pc = alCall[d].pc
                \/ alCall[d].pc = "wait" /\ alCall'[d].pc = "woken"
  <2>1. CASE alCall'[d] = alCall[d]
    BY <2>1
  <2>2. CASE alCall[d].pc = "wait" /\ alCall'[d] = [alCall[d] EXCEPT !.pc = "woken"]
    BY <1>0, <2>2 DEF AlRequest
  <2> QED BY <2>1, <2>2 DEF OthersWoken
<1>2. Keyed'
  <2> SUFFICES ASSUME ~alCrossed, NEW d \in AlCallers \ AlToggles
               PROVE  KeyedAt(d)'
    BY DEF Keyed
  <2>1. CASE d = c
    BY <2>1
  <2>2. CASE d # c
    <3>1. KeyedAt(d) /\ BearerFor(d)' = BearerFor(d)
      BY <1>1, <2>2 DEF Keyed, BearerFor
    <3> QED BY <1>1, <2>2, <3>1 DEF KeyedAt
  <2> QED BY <2>1, <2>2
<1>3. JobsAskLive'
  BY <1>1 DEF JobsAskLive, AlCallers
<1>4. Toggles'
  <2> SUFFICES ASSUME NEW d \in AlToggles, d # c
               PROVE  ToggleAt(d)'
    BY DEF Toggles
  <2>1. ToggleAt(d) /\ d \in AlCallers
    BY DEF Toggles, AlCallers
  <2>2. alCall'[d].pc = alCall[d].pc
    BY <1>1, <2>1 DEF ToggleAt, AlAsking
  <2> QED BY <1>1, <2>1, <2>2 DEF ToggleAt
<1> QED BY <1>2, <1>3, <1>4

\* One caller goes on with its request and no flight ends.
LEMMA GoesOn ==
  ASSUME AlInv, NEW c \in AlCallers, NEW x \in AlRequest, alCall' = [alCall EXCEPT ![c] = x], alInflight' = alInflight,
         x.mine = alCall[c].mine, x.mine => x.pc \in AlAsking /\ x.key = alCall[c].key,
         x.pc = "wait" => alInflight[x.key] # None
  PROVE  /\ alCall' \in [AlCallers -> AlRequest] /\ alCall'[c] = x /\ OthersWoken(c)
         /\ FlightsEnd' /\ OwnFlight'
<1>. USE DEF AlInv
<1>1. alCall \in [AlCallers -> AlRequest] /\ alInflight \in [AlKeys -> AlCallers \cup {None}]
  BY DEF AlShape
<1>2. /\ alCall' \in [AlCallers -> AlRequest] /\ alCall'[c] = x
      /\ \A d \in AlCallers \ {c} : alCall'[d] = alCall[d]
  BY <1>1
<1>3. OwnFlight'
  BY <1>2 DEF OwnFlight
<1>4. FlightsEnd'
  <2>1. ASSUME NEW k \in AlKeys, alInflight[k] # None
        PROVE  LET o == alCall'[alInflight[k]] IN o.pc \in {"fetch", "post", "sent"} /\ o.mine /\ o.key = k
    <3>1. alInflight[k] \in AlCallers
      BY <1>1, <2>1
    <3>2. LET o == alCall[alInflight[k]] IN o.pc \in {"fetch", "post", "sent"} /\ o.mine /\ o.key = k
      BY <2>1 DEF FlightsEnd
    <3> QED BY <1>2, <3>1, <3>2 DEF AlAsking
  <2>2. ASSUME NEW d \in AlCallers, alCall'[d].pc = "wait"
        PROVE  alInflight[alCall'[d].key] # None
    BY <1>2, <2>2 DEF FlightsEnd
  <2> QED BY <2>1, <2>2 DEF FlightsEnd
<1> QED BY <1>2, <1>3, <1>4 DEF OthersWoken

\* done: whoever ends takes their flight with them and wakes who waited for it.
LEMMA RequestOver ==
  ASSUME AlInv, NEW c \in AlCallers, NEW res \in {"live", "saved", "error"}, NEW got \in AlKeys \cup {None},
         Done(c, Ends(c, res, got))
  PROVE  /\ alCall' \in [AlCallers -> AlRequest] /\ OthersWoken(c)
         /\ alCall'[c].pc = "idle" /\ alCall'[c].res = res
         /\ alInflight' \in [AlKeys -> AlCallers \cup {None}]
         /\ FlightsEnd' /\ OwnFlight'
<1>. USE DEF AlInv
<1> DEFINE x == [NoCall EXCEPT !.res = res, !.got = got]
           calls == [alCall EXCEPT ![c] = x]
<1>1. alCall \in [AlCallers -> AlRequest] /\ alInflight \in [AlKeys -> AlCallers \cup {None}]
  BY DEF AlShape
<1>2. x \in AlRequest /\ x.pc = "idle" /\ x.res = res /\ x.mine = FALSE
  BY Unasked DEF AlRequest
<1> HIDE DEF x
<1>3. /\ calls \in [AlCallers -> AlRequest] /\ calls[c] = x /\ \A d \in AlCallers \ {c} : calls[d] = alCall[d]
      /\ Ends(c, res, got) = calls
  BY <1>1, <1>2 DEF Ends, x
<1> HIDE DEF calls
<1>4. CASE ~alCall[c].mine
  <2>1. alInflight' = alInflight /\ alCall' = [alCall EXCEPT ![c] = x]
    BY <1>3, <1>4 DEF Done, calls
  <2>2. x.mine = alCall[c].mine
    <3>1. alCall[c].mine \in BOOLEAN
      BY <1>1 DEF AlRequest
    <3> QED BY <1>2, <1>4, <3>1
  <2> QED BY <1>1, <1>2, <2>1, <2>2, GoesOn
<1>5. CASE alCall[c].mine
  <2> DEFINE k == alCall[c].key
  <2>1. k \in AlKeys /\ alInflight[k] = c
    BY <1>1, <1>5 DEF OwnFlight, AlRequest
  <2>2. /\ alInflight' = [alInflight EXCEPT ![k] = None]
        /\ alCall' = [d \in AlCallers |-> IF calls[d].pc = "wait" /\ calls[d].key = k
                                          THEN [calls[d] EXCEPT !.pc = "woken"] ELSE calls[d]]
    BY <1>3, <1>5 DEF Done
  <2>3. alCall'[c] = x
    BY <1>2, <1>3, <2>2
  <2>4. ASSUME NEW d \in AlCallers \ {c}
        PROVE  /\ alCall'[d] \in AlRequest
               /\ \/ alCall'[d] = alCall[d] /\ ~(alCall[d].pc = "wait" /\ alCall[d].key = k)
                  \/ /\ alCall[d].pc = "wait" /\ alCall'[d] = [alCall[d] EXCEPT !.pc = "woken"]
                     /\ alCall'[d].pc = "woken" /\ alCall'[d].mine = alCall[d].mine
    <3>1. alCall[d] \in AlRequest /\ calls[d] = alCall[d]
      BY <1>1, <1>3
    <3>2. CASE alCall[d].pc = "wait" /\ alCall[d].key = k
      <4>1. alCall'[d] = [alCall[d] EXCEPT !.pc = "woken"]
        BY <2>2, <3>1, <3>2
      <4>2. "woken" \in AlPcs
        BY DEF AlPcs
      <4> QED BY <3>1, <3>2, <4>1, <4>2 DEF AlRequest
    <3>3. CASE ~(alCall[d].pc = "wait" /\ alCall[d].key = k)
      BY <2>2, <3>1, <3>3
    <3> QED BY <3>2, <3>3
  <2>5. alCall' \in [AlCallers -> AlRequest]
    <3>1. \A d \in AlCallers : alCall'[d] \in AlRequest
      BY <1>2, <2>3, <2>4
    <3> QED BY <2>2, <3>1
  <2>6. alInflight' \in [AlKeys -> AlCallers \cup {None}] /\ alInflight'[k] = None /\ \A j \in AlKeys \ {k} : alInflight'[j] = alInflight[j]
    BY <1>1, <2>1, <2>2
  <2>7. OthersWoken(c)
    BY <2>4 DEF OthersWoken
  <2>8. OwnFlight'
    <3> SUFFICES ASSUME NEW d \in AlCallers, alCall'[d].mine
                 PROVE  alCall'[d].pc \in AlAsking /\ alInflight'[alCall'[d].key] = d /\ d \notin AlToggles
      BY DEF OwnFlight
    <3>1. d # c
      BY <1>2, <2>3
    <3>2. alCall[d].mine /\ alCall[d].pc \in AlAsking /\ alInflight[alCall[d].key] = d /\ d \notin AlToggles
      BY <2>4, <3>1 DEF OwnFlight
    <3>3. alCall'[d] = alCall[d]
      BY <2>4, <3>1, <3>2 DEF AlAsking
    <3>4. alCall[d].key \in AlKeys /\ alCall[d].key # k
      BY <1>1, <2>1, <3>1, <3>2 DEF AlRequest
    <3> QED BY <2>6, <3>2, <3>3, <3>4
  <2>9. FlightsEnd'
    <3>1. ASSUME NEW j \in AlKeys, alInflight'[j] # None
          PROVE  LET o == alCall'[alInflight'[j]] IN o.pc \in {"fetch", "post", "sent"} /\ o.mine /\ o.key = j
      <4>1. j # k /\ alInflight'[j] = alInflight[j] /\ alInflight[j] \in AlCallers
        BY <1>1, <2>6, <3>1
      <4>2. LET o == alCall[alInflight[j]] IN o.pc \in {"fetch", "post", "sent"} /\ o.mine /\ o.key = j
        BY <3>1, <4>1 DEF FlightsEnd
      <4>3. alInflight[j] # c
        BY <4>1, <4>2
      <4>4. alCall'[alInflight[j]] = alCall[alInflight[j]]
        BY <2>4, <4>1, <4>2, <4>3
      <4> QED BY <4>1, <4>2, <4>4
    <3>2. ASSUME NEW d \in AlCallers, alCall'[d].pc = "wait"
          PROVE  alInflight'[alCall'[d].key] # None
      <4>1. d # c
        BY <1>2, <2>3, <3>2
      <4>2. alCall'[d] = alCall[d] /\ alCall[d].key # k /\ alCall[d].key \in AlKeys
        BY <1>1, <2>4, <3>2, <4>1 DEF AlRequest
      <4> QED BY <2>6, <3>2, <4>2 DEF FlightsEnd
    <3> QED BY <3>1, <3>2 DEF FlightsEnd
  <2> QED BY <1>2, <2>3, <2>5, <2>6, <2>7, <2>8, <2>9
<1> QED BY <1>4, <1>5

\* What caller c may become and be keyed, live and once: the conditions on the record alone.
Lawful(c, x) ==
  /\ ~alCrossed /\ c \notin AlToggles /\ x.pc # "idle" =>
       LET bearer == IF x.anon THEN 0 ELSE alToken IN
       /\ x.key = bearer
       /\ x.pc # "enter" => x.saved = (bearer # 0)
       /\ x.pc = "sent" => x.as = bearer
  /\ c \in AlJobs => x.res # "saved"
  /\ c \in AlToggles => /\ x.pc \in AlAsking \cup {"idle"}
                        /\ x.pc # "idle" \/ x.res = "none" => alApplied[c] = 0

\* Every caller's record is lawful, and has its type.
LEMMA LawfulNow ==
  ASSUME AlInv, NEW c \in AlCallers
  PROVE  alCall[c] \in AlRequest /\ Lawful(c, alCall[c]) /\ (c \in AlToggles => ~alCall[c].mine)
         /\ (alCall[c].pc \notin AlAsking => ~alCall[c].mine)
<1>. USE DEF AlInv
<1>1. alCall[c] \in AlRequest
  BY DEF AlShape
<1>2. ASSUME ~alCrossed, c \notin AlToggles
      PROVE  KeyedAt(c)
  BY <1>2 DEF Keyed
<1>3. c \in AlJobs => alCall[c].res # "saved"
  BY DEF JobsAskLive
<1>4. c \in AlToggles => ToggleAt(c)
  BY DEF Toggles
<1> QED BY <1>1, <1>2, <1>3, <1>4 DEF Lawful, KeyedAt, ToggleAt, BearerFor, OwnFlight

\* A caller takes a step within its request: no flight begins or ends, nothing else changes.
LEMMA Moves ==
  ASSUME AlInv, NEW c \in AlCallers, NEW x \in AlRequest, alCall' = [alCall EXCEPT ![c] = x],
         UNCHANGED <<alToken, alCache, alInflight, alArchive, alSaves, alApplied, alCrossed>>,
         x.mine = alCall[c].mine, x.mine => x.pc \in AlAsking /\ x.key = alCall[c].key,
         x.pc = "wait" => alInflight[x.key] # None, Lawful(c, x)
  PROVE  AlInv'
<1>1. /\ alCall' \in [AlCallers -> AlRequest] /\ alCall'[c] = x /\ OthersWoken(c)
      /\ FlightsEnd' /\ OwnFlight'
  BY GoesOn
<1>2. ~alCrossed /\ c \notin AlToggles => KeyedAt(c)'
  BY <1>1 DEF KeyedAt, Lawful, BearerFor
<1>3. c \in AlJobs => alCall'[c].res # "saved"
  BY <1>1 DEF Lawful
<1>4. c \in AlToggles => ToggleAt(c)'
  BY <1>1 DEF ToggleAt, Lawful, AlInv, Toggles
<1>5. Keyed' /\ JobsAskLive' /\ Toggles'
  BY <1>1, <1>2, <1>3, <1>4, CallerStep
<1>6. AlShape'
  BY <1>1 DEF AlInv, AlShape
<1>7. AnswersStayApart' /\ SavesApart'
  BY DEF AlInv, AnswersStayApart, SavesApart
<1> QED BY <1>1, <1>5, <1>6, <1>7 DEF AlInv

\* A request ends: its flight with it, and whoever waited for it is woken.
LEMMA AlOver ==
  ASSUME AlInv, NEW c \in AlCallers, NEW res \in {"live", "saved", "error"}, NEW got \in AlKeys \cup {None},
         Done(c, Ends(c, res, got)), alToken' = alToken, alCrossed' = alCrossed,
         c \in AlJobs => res # "saved",
         alApplied' \in [AlToggles -> Int], \A d \in AlToggles \ {c} : alApplied'[d] = alApplied[d],
         c \in AlToggles => alApplied'[c] \in {0, 1}
  PROVE  /\ alCall' \in [AlCallers -> AlRequest] /\ alInflight' \in [AlKeys -> AlCallers \cup {None}]
         /\ FlightsEnd' /\ OwnFlight' /\ Keyed' /\ JobsAskLive' /\ Toggles'
<1>1. /\ alCall' \in [AlCallers -> AlRequest] /\ OthersWoken(c)
      /\ alCall'[c].pc = "idle" /\ alCall'[c].res = res
      /\ alInflight' \in [AlKeys -> AlCallers \cup {None}]
      /\ FlightsEnd' /\ OwnFlight'
  BY RequestOver
<1>2. KeyedAt(c)' /\ (c \in AlJobs => alCall'[c].res # "saved")
  BY <1>1 DEF KeyedAt
<1>3. c \in AlToggles => ToggleAt(c)'
  BY <1>1 DEF ToggleAt
<1>4. Keyed' /\ JobsAskLive' /\ Toggles'
  BY <1>1, <1>2, <1>3, CallerStep
<1> QED BY <1>1, <1>4

\* A request that ends at once, without a flight, as a step within it.
LEMMA EndsAtOnce ==
  ASSUME AlInv, NEW c \in AlCallers, NEW res \in {"live", "saved", "error"}, NEW got \in AlKeys \cup {None},
         alCall' = Ends(c, res, got), ~alCall[c].mine, c \in AlJobs => res # "saved",
         UNCHANGED <<alToken, alCache, alInflight, alArchive, alSaves, alApplied, alCrossed>>
  PROVE  AlInv'
<1>1. Done(c, Ends(c, res, got))
  BY DEF Done
<1>2. /\ alApplied \in [AlToggles -> Int] /\ (c \in AlToggles => alApplied[c] \in {0, 1})
  BY DEF AlInv, AlShape, Toggles, ToggleAt
<1>3. /\ alCall' \in [AlCallers -> AlRequest] /\ alInflight' \in [AlKeys -> AlCallers \cup {None}]
      /\ FlightsEnd' /\ OwnFlight' /\ Keyed' /\ JobsAskLive' /\ Toggles'
  BY <1>1, <1>2, AlOver
<1>4. AlShape'
  BY <1>3 DEF AlInv, AlShape
<1>5. AnswersStayApart' /\ SavesApart'
  BY DEF AlInv, AnswersStayApart, SavesApart
<1> QED BY <1>3, <1>4, <1>5 DEF AlInv

LEMMA AskKeeps ==
  ASSUME AlInv, NEW c \in AlCallers, NEW anon \in BOOLEAN, AskAniList(c, anon)
  PROVE  AlInv'
<1> DEFINE k == IF anon THEN 0 ELSE alToken
           x == [NoCall EXCEPT !.pc = "enter", !.anon = anon, !.key = k]
<1>1. /\ c \notin AlToggles /\ ~alCall[c].mine /\ k \in AlKeys /\ alCall[c].mine \in BOOLEAN
      /\ UNCHANGED <<alToken, alCache, alInflight, alArchive, alSaves, alApplied, alCrossed>>
  BY LawfulNow DEF AskAniList, AlAsking, AlInv, AlShape, AlKeys, AlRequest
<1>2. CASE alCache[k] # None
  <2>1. alCall' = Ends(c, "live", alCache[k]) /\ alCache[k] \in AlKeys \cup {None}
    BY <1>1, <1>2 DEF AskAniList, AlInv, AlShape
  <2> QED BY <1>1, <2>1, EndsAtOnce
<1>3. CASE alCache[k] = None
  <2>1. x \in AlRequest /\ x.pc = "enter" /\ x.anon = anon /\ x.key = k /\ x.mine = FALSE /\ x.res = "none"
    BY <1>1, Unasked DEF AlRequest
  <2>2. alCall' = [alCall EXCEPT ![c] = x]
    BY <1>1, <1>3 DEF AskAniList
  <2> HIDE DEF x
  <2>3. Lawful(c, x)
    BY <1>1, <2>1 DEF Lawful
  <2> QED BY <1>1, <2>1, <2>2, <2>3, Moves
<1> QED BY <1>2, <1>3

\* A question already asked is waited for; one nobody asks is asked by whoever comes first.
LEMMA EnterKeeps ==
  ASSUME AlInv, NEW c \in AlCallers, Enter(c)
  PROVE  AlInv'
<1> DEFINE authed == BearerFor(c) # 0
           k == alCall[c].key
<1>1. /\ alCall[c] \in AlRequest /\ Lawful(c, alCall[c]) /\ ~alCall[c].mine /\ alCall[c].pc = "enter"
      /\ c \notin AlToggles
      /\ UNCHANGED <<alToken, alCache, alArchive, alSaves, alApplied, alCrossed>>
  BY LawfulNow DEF Enter, AlAsking, Lawful
<1>2. k \in AlKeys /\ alCall[c].anon \in BOOLEAN /\ alCall[c].mine = FALSE
  BY <1>1 DEF AlRequest
<1>3. CASE alDown /\ c \in AlPages /\ alArchive[authed] # None
  <2>1. alCall' = Ends(c, "saved", alArchive[authed]) /\ alInflight' = alInflight
    BY <1>3 DEF Enter
  <2>2. alArchive[authed] \in AlKeys \cup {None} /\ c \notin AlJobs
    BY <1>3, AlAssumption DEF AlInv, AlShape
  <2> QED BY <1>1, <2>1, <2>2, EndsAtOnce
<1>4. CASE ~(alDown /\ c \in AlPages /\ alArchive[authed] # None) /\ alInflight[k] # None
  <2> DEFINE x == [alCall[c] EXCEPT !.pc = "wait", !.mine = FALSE, !.saved = authed]
  <2>1. /\ x \in AlRequest /\ x.pc = "wait" /\ x.anon = alCall[c].anon /\ x.key = k /\ x.mine = FALSE
        /\ x.saved = authed /\ x.res = alCall[c].res
    BY <1>1 DEF AlRequest, AlPcs
  <2>2. alCall' = [alCall EXCEPT ![c] = x] /\ alInflight' = alInflight
    BY <1>4 DEF Enter
  <2>3. Lawful(c, x)
    <3> HIDE DEF x
    <3> QED BY <1>1, <2>1 DEF Lawful, BearerFor
  <2> HIDE DEF x
  <2> QED BY <1>1, <1>2, <1>4, <2>1, <2>2, <2>3, Moves
<1>5. CASE ~(alDown /\ c \in AlPages /\ alArchive[authed] # None) /\ alInflight[k] = None
  <2> DEFINE x == [alCall[c] EXCEPT !.pc = "fetch", !.mine = TRUE, !.saved = authed]
  <2>1. /\ x \in AlRequest /\ x.pc = "fetch" /\ x.anon = alCall[c].anon /\ x.key = k /\ x.mine = TRUE
        /\ x.saved = authed /\ x.res = alCall[c].res
    BY <1>1 DEF AlRequest, AlPcs, AlAsking
  <2>2. alCall' = [alCall EXCEPT ![c] = x] /\ alInflight' = [alInflight EXCEPT ![k] = c]
    BY <1>5 DEF Enter
  <2>3. Lawful(c, x)
    <3> HIDE DEF x
    <3> QED BY <1>1, <2>1 DEF Lawful, BearerFor
  <2> HIDE DEF x
  <2>4. alCall \in [AlCallers -> AlRequest] /\ alInflight \in [AlKeys -> AlCallers \cup {None}]
    BY DEF AlInv, AlShape
  <2>5. /\ alCall' \in [AlCallers -> AlRequest] /\ alCall'[c] = x
        /\ \A d \in AlCallers \ {c} : alCall'[d] = alCall[d]
    BY <2>1, <2>2, <2>4
  <2>6. /\ alInflight' \in [AlKeys -> AlCallers \cup {None}] /\ alInflight'[k] = c
        /\ \A j \in AlKeys \ {k} : alInflight'[j] = alInflight[j]
    BY <1>2, <2>2, <2>4
  <2>7. OwnFlight'
    <3> SUFFICES ASSUME NEW d \in AlCallers, alCall'[d].mine
                 PROVE  alCall'[d].pc \in AlAsking /\ alInflight'[alCall'[d].key] = d /\ d \notin AlToggles
      BY DEF OwnFlight
    <3>1. CASE d = c
      BY <1>1, <2>1, <2>5, <2>6, <3>1 DEF AlAsking
    <3>2. CASE d # c
      <4>1. alCall'[d] = alCall[d] /\ alCall[d].mine /\ alCall[d].key \in AlKeys
        BY <2>4, <2>5, <3>2 DEF AlRequest
      <4>2. alCall[d].pc \in AlAsking /\ alInflight[alCall[d].key] = d /\ d \notin AlToggles
        BY <4>1 DEF AlInv, OwnFlight
      <4>3. alCall[d].key # k
        <5>1. d # None
          BY AlAssumption DEF AlCallers, None
        <5> QED BY <1>5, <4>2, <5>1
      <4> QED BY <2>6, <4>1, <4>2, <4>3
    <3> QED BY <3>1, <3>2
  <2>8. FlightsEnd'
    <3>1. ASSUME NEW j \in AlKeys, alInflight'[j] # None
          PROVE  LET o == alCall'[alInflight'[j]] IN o.pc \in {"fetch", "post", "sent"} /\ o.mine /\ o.key = j
      <4>1. CASE j = k
        BY <2>1, <2>5, <2>6, <4>1
      <4>2. CASE j # k
        <5>1. alInflight'[j] = alInflight[j] /\ alInflight[j] \in AlCallers
          BY <2>4, <2>6, <3>1, <4>2
        <5>2. LET o == alCall[alInflight[j]] IN o.pc \in {"fetch", "post", "sent"} /\ o.mine /\ o.key = j
          BY <3>1, <5>1 DEF AlInv, FlightsEnd
        <5>3. alInflight[j] # c
          BY <1>1, <5>2
        <5>4. alCall'[alInflight[j]] = alCall[alInflight[j]]
          BY <2>5, <5>1, <5>3
        <5> QED BY <5>1, <5>2, <5>4
      <4> QED BY <4>1, <4>2
    <3>2. ASSUME NEW d \in AlCallers, alCall'[d].pc = "wait"
          PROVE  alInflight'[alCall'[d].key] # None
      <4>1. d # c
        BY <2>1, <2>5, <3>2
      <4>2. alCall'[d] = alCall[d] /\ alCall[d].key \in AlKeys /\ alInflight[alCall[d].key] # None
        BY <2>4, <2>5, <3>2, <4>1 DEF AlRequest, AlInv, FlightsEnd
      <4> QED BY <1>5, <2>6, <4>2
    <3> QED BY <3>1, <3>2 DEF FlightsEnd
  <2>9. Keyed' /\ JobsAskLive' /\ Toggles'
    <3>1. OthersWoken(c)
      BY <2>5 DEF OthersWoken
    <3>2. ~alCrossed /\ c \notin AlToggles => KeyedAt(c)'
      BY <1>1, <2>1, <2>3, <2>5 DEF KeyedAt, Lawful, BearerFor
    <3>3. c \in AlJobs => alCall'[c].res # "saved"
      BY <2>3, <2>5 DEF Lawful
    <3> QED BY <1>1, <3>1, <3>2, <3>3, CallerStep
  <2>10. AlShape'
    BY <1>1, <2>5, <2>6 DEF AlInv, AlShape
  <2>11. AnswersStayApart' /\ SavesApart'
    BY <1>1 DEF AlInv, AnswersStayApart, SavesApart
  <2> QED BY <2>7, <2>8, <2>9, <2>10, <2>11 DEF AlInv
<1> QED BY <1>3, <1>4, <1>5

\* The flight one waited for is over, and one goes on by oneself.
LEMMA FlightOverKeeps ==
  ASSUME AlInv, NEW c \in AlCallers, FlightOver(c)
  PROVE  AlInv'
<1> DEFINE k == alCall[c].key
<1>1. /\ alCall[c] \in AlRequest /\ Lawful(c, alCall[c]) /\ ~alCall[c].mine /\ alCall[c].pc = "woken"
      /\ k \in AlKeys /\ alCall[c].saved \in BOOLEAN
      /\ UNCHANGED <<alToken, alCache, alInflight, alArchive, alSaves, alApplied, alCrossed>>
  BY LawfulNow DEF FlightOver, AlAsking, AlRequest
<1>2. CASE alCache[k] # None
  <2>1. alCall' = Ends(c, "live", alCache[k]) /\ alCache[k] \in AlKeys \cup {None}
    BY <1>1, <1>2 DEF FlightOver, AlInv, AlShape
  <2> QED BY <1>1, <2>1, EndsAtOnce
<1>3. CASE alCache[k] = None /\ alDown /\ FromArchive(c)
  <2>1. /\ alCall' = Ends(c, "saved", alArchive[alCall[c].saved])
        /\ alArchive[alCall[c].saved] \in AlKeys \cup {None} /\ c \notin AlJobs
    BY <1>1, <1>3, AlAssumption DEF FlightOver, FromArchive, AlInv, AlShape
  <2> QED BY <1>1, <2>1, EndsAtOnce
<1>4. CASE alCache[k] = None /\ ~(alDown /\ FromArchive(c))
  <2> DEFINE x == [alCall[c] EXCEPT !.pc = "fetch"]
  <2>1. /\ x \in AlRequest /\ x.pc = "fetch" /\ x.anon = alCall[c].anon /\ x.key = k /\ x.mine = alCall[c].mine
        /\ x.saved = alCall[c].saved /\ x.res = alCall[c].res
    BY <1>1 DEF AlRequest, AlPcs, AlAsking
  <2>2. alCall' = [alCall EXCEPT ![c] = x]
    BY <1>4 DEF FlightOver
  <2> HIDE DEF x
  <2>3. Lawful(c, x)
    BY <1>1, <2>1 DEF Lawful, AlAsking
  <2> QED BY <1>1, <2>1, <2>2, <2>3, Moves
<1> QED BY <1>2, <1>3, <1>4

LEMMA AlToggleKeeps ==
  ASSUME AlInv, NEW c \in AlCallers, Toggle(c)
  PROVE  AlInv'
<1> DEFINE x == [NoCall EXCEPT !.pc = "fetch"]
<1>1. /\ alCall[c] \in AlRequest /\ Lawful(c, alCall[c]) /\ ~alCall[c].mine /\ c \in AlToggles
      /\ alCall[c].pc = "idle" /\ alCall[c].res = "none"
      /\ alCall' = [alCall EXCEPT ![c] = x]
      /\ UNCHANGED <<alToken, alCache, alInflight, alArchive, alSaves, alApplied, alCrossed>>
  BY LawfulNow DEF Toggle
<1>2. x \in AlRequest /\ x.pc = "fetch" /\ x.mine = FALSE /\ x.res = "none"
  BY Unasked DEF AlRequest
<1>3. alCall[c].mine = FALSE
  BY <1>1 DEF AlRequest
<1> HIDE DEF x
<1>4. Lawful(c, x)
  BY <1>1, <1>2, AlAssumption DEF Lawful, AlAsking
<1> QED BY <1>1, <1>2, <1>3, <1>4, Moves

LEMMA AwaitPauseKeeps ==
  ASSUME AlInv, NEW c \in AlCallers, AwaitPause(c)
  PROVE  AlInv'
<1> DEFINE x == [alCall[c] EXCEPT !.pc = "post"]
<1>1. /\ alCall[c] \in AlRequest /\ Lawful(c, alCall[c]) /\ alCall[c].pc = "fetch"
      /\ alCall' = [alCall EXCEPT ![c] = x]
      /\ UNCHANGED <<alToken, alCache, alInflight, alArchive, alSaves, alApplied, alCrossed>>
  BY LawfulNow DEF AwaitPause
<1>2. /\ x \in AlRequest /\ x.pc = "post" /\ x.anon = alCall[c].anon /\ x.key = alCall[c].key
      /\ x.mine = alCall[c].mine /\ x.saved = alCall[c].saved /\ x.res = alCall[c].res
  BY <1>1 DEF AlRequest, AlPcs, AlAsking
<1> HIDE DEF x
<1>3. Lawful(c, x) /\ x.pc \in AlAsking
  BY <1>1, <1>2 DEF Lawful, AlAsking
<1> QED BY <1>1, <1>2, <1>3, Moves

LEMMA PostQueryKeeps ==
  ASSUME AlInv, NEW c \in AlCallers, PostQuery(c)
  PROVE  AlInv'
<1> DEFINE x == [alCall[c] EXCEPT !.pc = "sent", !.as = BearerFor(c)]
<1>1. /\ alCall[c] \in AlRequest /\ Lawful(c, alCall[c]) /\ alCall[c].pc = "post"
      /\ UNCHANGED <<alToken, alCache, alInflight, alArchive, alSaves, alApplied, alCrossed>>
  BY LawfulNow DEF PostQuery
<1>2. alCall' = [alCall EXCEPT ![c] = x] /\ BearerFor(c) \in AlKeys
  BY DEF PostQuery, BearerFor, AlKeys, AlInv, AlShape
<1>3. /\ x \in AlRequest /\ x.pc = "sent" /\ x.anon = alCall[c].anon /\ x.key = alCall[c].key
      /\ x.mine = alCall[c].mine /\ x.saved = alCall[c].saved /\ x.res = alCall[c].res /\ x.as = BearerFor(c)
  BY <1>1, <1>2 DEF AlRequest, AlPcs, AlAsking
<1> HIDE DEF x
<1>4. Lawful(c, x) /\ x.pc \in AlAsking
  BY <1>1, <1>3 DEF Lawful, AlAsking, BearerFor
<1> QED BY <1>1, <1>2, <1>3, <1>4, Moves

\* The answer goes to the cache under its key and to the archive under its side.
LEMMA AnsweredKeeps ==
  ASSUME AlInv, NEW c \in AlCallers, NEW l \in BOOLEAN, Answered(c, l)
  PROVE  AlInv'
<1> DEFINE k == alCall[c].key
           as == alCall[c].as
<1>1. /\ alCall[c] \in AlRequest /\ Lawful(c, alCall[c]) /\ alCall[c].pc = "sent"
      /\ (c \in AlToggles => ~alCall[c].mine)
      /\ UNCHANGED <<alToken, alArchive, alCrossed>>
  BY LawfulNow DEF Answered
<1>2. k \in AlKeys /\ as \in AlKeys /\ alCall[c].saved \in BOOLEAN
  BY <1>1 DEF AlRequest
<1>3. /\ Done(c, Ends(c, "live", as)) /\ alApplied' \in [AlToggles -> Int]
      /\ \A d \in AlToggles \ {c} : alApplied'[d] = alApplied[d]
      /\ c \in AlToggles => alApplied'[c] \in {0, 1}
  <2>1. alApplied \in [AlToggles -> Int]
    BY DEF AlInv, AlShape
  <2>2. CASE c \in AlToggles
    <3>1. alApplied' = [alApplied EXCEPT ![c] = 1]
      <4>1. alApplied[c] = 0 /\ alApplied' = [alApplied EXCEPT ![c] = alApplied[c] + 1]
        BY <1>1, <2>2 DEF Lawful, Answered
      <4> QED BY <4>1
    <3>2. Done(c, Ends(c, "live", as))
      BY <1>1, <2>2 DEF Answered, Done
    <3>3. /\ alApplied' \in [AlToggles -> Int] /\ alApplied'[c] = 1
          /\ \A d \in AlToggles \ {c} : alApplied'[d] = alApplied[d]
      BY <2>1, <2>2, <3>1
    <3> QED BY <3>2, <3>3
  <2>3. CASE c \notin AlToggles
    BY <2>1, <2>3 DEF Answered
  <2> QED BY <2>2, <2>3
<1>4. /\ alCall' \in [AlCallers -> AlRequest] /\ alInflight' \in [AlKeys -> AlCallers \cup {None}]
      /\ FlightsEnd' /\ OwnFlight' /\ Keyed' /\ JobsAskLive' /\ Toggles'
  BY <1>1, <1>2, <1>3, AlOver
<1>5. \/ c \in AlToggles /\ UNCHANGED <<alCache, alSaves>>
      \/ /\ c \notin AlToggles /\ alCache' = [alCache EXCEPT ![k] = as]
         /\ alSaves' \in {alSaves, alSaves \cup {<<alCall[c].saved, as>>}}
  BY DEF Answered
<1>6. AlShape'
  BY <1>1, <1>2, <1>3, <1>4, <1>5 DEF AlInv, AlShape
<1>7. AnswersStayApart'
  <2>1. ~alCrossed /\ c \notin AlToggles => as = k
    BY <1>1 DEF Lawful
  <2>2. alCache \in [AlKeys -> AlKeys \cup {None}]
    BY DEF AlInv, AlShape
  <2> QED BY <1>1, <1>2, <1>5, <2>1, <2>2 DEF AlInv, AnswersStayApart
<1>8. SavesApart'
  <2>1. ~alCrossed /\ c \notin AlToggles => alCall[c].saved = (as # 0)
    BY <1>1 DEF Lawful
  <2> SUFFICES ASSUME ~alCrossed, NEW s \in alSaves' PROVE s[1] = (s[2] # 0)
    BY <1>1 DEF SavesApart
  <2>2. CASE s \in alSaves
    BY <2>2 DEF AlInv, SavesApart
  <2>3. CASE c \notin AlToggles /\ s = <<alCall[c].saved, as>>
    BY <2>1, <2>3
  <2> QED BY <1>5, <2>2, <2>3
<1> QED BY <1>4, <1>6, <1>7, <1>8 DEF AlInv

\* A rejection, and a page that is left.
LEMMA GivesUp ==
  ASSUME AlInv, NEW c \in AlCallers, Rejected(c) \/ Leave(c)
  PROVE  AlInv'
<1>1. /\ Done(c, Ends(c, "error", None))
      /\ UNCHANGED <<alToken, alCache, alArchive, alSaves, alApplied, alCrossed>>
  BY DEF Rejected, Leave
<1>2. alApplied \in [AlToggles -> Int] /\ (c \in AlToggles => alApplied[c] \in {0, 1})
  BY DEF AlInv, AlShape, Toggles, ToggleAt
<1>3. /\ alCall' \in [AlCallers -> AlRequest] /\ alInflight' \in [AlKeys -> AlCallers \cup {None}]
      /\ FlightsEnd' /\ OwnFlight' /\ Keyed' /\ JobsAskLive' /\ Toggles'
  BY <1>1, <1>2, AlOver
<1>4. AlShape'
  BY <1>1, <1>3 DEF AlInv, AlShape
<1>5. AnswersStayApart' /\ SavesApart'
  BY <1>1 DEF AlInv, AnswersStayApart, SavesApart
<1> QED BY <1>3, <1>4, <1>5 DEF AlInv

\* A failure: asked again, or the saved answer, or the error.  A toggle that may have been
\* applied is not asked again.
LEMMA FailsKeeps ==
  ASSUME AlInv, NEW c \in AlCallers, NEW how, NEW applied \in BOOLEAN, Fails(c, how, applied)
  PROVE  AlInv'
<1>1. /\ alCall[c] \in AlRequest /\ Lawful(c, alCall[c]) /\ alCall[c].pc = "sent"
      /\ (c \in AlToggles => ~alCall[c].mine)
      /\ UNCHANGED <<alToken, alCache, alArchive, alSaves, alCrossed>>
  BY LawfulNow DEF Fails
<1>2. alApplied \in [AlToggles -> Int] /\ (c \in AlToggles => alApplied[c] = 0)
  BY <1>1 DEF AlInv, AlShape, Lawful
<1>3. CASE MayRepeat(c, how)
  <2> DEFINE x == [alCall[c] EXCEPT !.pc = "fetch", !.try = alCall[c].try + 1]
  <2>1. ~applied
    BY <1>3 DEF Fails, MayRepeat
  <2>2. alApplied' = alApplied /\ alInflight' = alInflight /\ alCall' = [alCall EXCEPT ![c] = x]
    BY <1>3, <2>1 DEF Fails
  <2>3. /\ x \in AlRequest /\ x.pc = "fetch" /\ x.anon = alCall[c].anon /\ x.key = alCall[c].key
        /\ x.mine = alCall[c].mine /\ x.saved = alCall[c].saved /\ x.res = alCall[c].res
    <3>1. alCall[c].try + 1 \in Int
      BY <1>1 DEF AlRequest
    <3> QED BY <1>1, <3>1, Unasked DEF AlRequest
  <2> HIDE DEF x
  <2>4. Lawful(c, x) /\ x.pc \in AlAsking
    BY <1>1, <2>3 DEF Lawful, AlAsking
  <2> QED BY <1>1, <2>2, <2>3, <2>4, Moves
<1>4. CASE ~MayRepeat(c, how)
  <2>1. PICK res \in {"live", "saved", "error"}, got \in AlKeys \cup {None} :
               Done(c, Ends(c, res, got)) /\ (c \in AlJobs => res # "saved")
    <3>1. Unreachable(c)
      BY <1>4 DEF Fails
    <3>2. CASE c \in AlToggles
      BY <1>1, <3>1, <3>2, AlAssumption DEF Unreachable, Done
    <3>3. CASE c \notin AlToggles /\ FromArchive(c)
      <4>1. Done(c, Ends(c, "saved", alArchive[alCall[c].saved]))
        BY <3>1, <3>3 DEF Unreachable
      <4>2. alArchive[alCall[c].saved] \in AlKeys \cup {None} /\ c \notin AlJobs
        BY <1>1, <3>3, AlAssumption DEF FromArchive, AlInv, AlShape, AlRequest
      <4> QED BY <4>1, <4>2
    <3>4. CASE c \notin AlToggles /\ ~FromArchive(c)
      BY <3>1, <3>4 DEF Unreachable
    <3> QED BY <3>2, <3>3, <3>4
  <2>2. /\ alApplied' \in [AlToggles -> Int] /\ \A d \in AlToggles \ {c} : alApplied'[d] = alApplied[d]
        /\ c \in AlToggles => alApplied'[c] \in {0, 1}
    <3>1. CASE applied
      <4>1. c \in AlToggles /\ alApplied' = [alApplied EXCEPT ![c] = alApplied[c] + 1]
        BY <3>1 DEF Fails
      <4> QED BY <1>2, <4>1
    <3>2. CASE ~applied
      BY <1>2, <3>2 DEF Fails
    <3> QED BY <3>1, <3>2
  <2>3. /\ alCall' \in [AlCallers -> AlRequest] /\ alInflight' \in [AlKeys -> AlCallers \cup {None}]
        /\ FlightsEnd' /\ OwnFlight' /\ Keyed' /\ JobsAskLive' /\ Toggles'
    BY <1>1, <2>1, <2>2, AlOver
  <2>4. AlShape'
    BY <1>1, <2>2, <2>3 DEF AlInv, AlShape
  <2>5. AnswersStayApart' /\ SavesApart'
    BY <1>1 DEF AlInv, AnswersStayApart, SavesApart
  <2> QED BY <2>3, <2>4, <2>5 DEF AlInv
<1> QED BY <1>3, <1>4

\* A login or a logout: unless it crosses a request, every request out carries no token.
LEMMA SetTokenKeeps ==
  ASSUME AlInv, NEW t \in AlKeys, SetToken(t)
  PROVE  AlInv'
<1>1. /\ alToken' = t /\ alCrossed' \in BOOLEAN
      /\ UNCHANGED <<alCache, alInflight, alArchive, alSaves, alCall, alApplied>>
      /\ ~alCrossed' => /\ ~alCrossed
                        /\ \A c \in AlCallers \ AlToggles : alCall[c].pc = "idle" \/ alCall[c].anon
  BY DEF SetToken, AlInv, AlShape
<1>2. AlShape' /\ FlightsEnd' /\ OwnFlight' /\ JobsAskLive' /\ Toggles'
  BY <1>1 DEF AlInv, AlShape, FlightsEnd, OwnFlight, JobsAskLive, Toggles, ToggleAt
<1>3. AnswersStayApart' /\ SavesApart'
  BY <1>1 DEF AlInv, AnswersStayApart, SavesApart
<1>4. Keyed'
  <2> SUFFICES ASSUME ~alCrossed', NEW c \in AlCallers \ AlToggles, alCall[c].pc # "idle"
               PROVE  KeyedAt(c)'
    BY <1>1 DEF Keyed, KeyedAt
  <2>1. KeyedAt(c) /\ alCall[c].anon
    BY <1>1 DEF AlInv, Keyed
  <2> QED BY <1>1, <2>1 DEF KeyedAt, BearerFor
<1> QED BY <1>2, <1>3, <1>4 DEF AlInv

\* Time, the archive's goroutines and the cache's expiry.
LEMMA AlWorldKeeps ==
  ASSUME AlInv, \/ Recheck \/ PausePasses \/ UNCHANGED alVars
                \/ (\E s \in alSaves : SaveLands(s)) \/ \E k \in AlKeys : CacheDrops(k)
  PROVE  AlInv'
<1>1. UNCHANGED <<alToken, alInflight, alCall, alApplied, alCrossed>>
  BY DEF Recheck, PausePasses, SaveLands, CacheDrops, alVars
<1>2. FlightsEnd' /\ OwnFlight' /\ JobsAskLive' /\ Toggles' /\ Keyed'
  BY <1>1 DEF AlInv, FlightsEnd, OwnFlight, JobsAskLive, Toggles, ToggleAt, Keyed, KeyedAt, BearerFor
<1>3. CASE UNCHANGED <<alCache, alArchive, alSaves>>
  BY <1>1, <1>2, <1>3 DEF AlInv, AlShape, AnswersStayApart, SavesApart
<1>4. ASSUME NEW s \in alSaves, SaveLands(s) PROVE AlInv'
  <2>1. PICK b \in BOOLEAN, k \in AlKeys : s = <<b, k>>
    BY DEF AlInv, AlShape
  <2>2. alArchive' = [alArchive EXCEPT ![b] = k] /\ alSaves' = alSaves \ {s} /\ alCache' = alCache
    BY <1>4, <2>1 DEF SaveLands
  <2>3. ~alCrossed => b = (k # 0)
    BY <2>1 DEF AlInv, SavesApart
  <2>4. alArchive \in [BOOLEAN -> AlKeys \cup {None}]
    BY DEF AlInv, AlShape
  <2>5. AlShape'
    BY <1>1, <2>2 DEF AlInv, AlShape
  <2>6. AnswersStayApart'
    BY <1>1, <2>2, <2>3, <2>4 DEF AlInv, AnswersStayApart
  <2>7. SavesApart'
    BY <1>1, <2>2 DEF AlInv, SavesApart
  <2> QED BY <1>2, <2>5, <2>6, <2>7 DEF AlInv
<1>5. ASSUME NEW k \in AlKeys, CacheDrops(k) PROVE AlInv'
  <2>1. alCache' = [alCache EXCEPT ![k] = None] /\ UNCHANGED <<alArchive, alSaves>>
    BY <1>5 DEF CacheDrops
  <2>2. alCache \in [AlKeys -> AlKeys \cup {None}]
    BY DEF AlInv, AlShape
  <2>3. AlShape' /\ AnswersStayApart' /\ SavesApart'
    BY <1>1, <2>1, <2>2 DEF AlInv, AlShape, AnswersStayApart, SavesApart
  <2> QED BY <1>2, <2>3 DEF AlInv
<1>6. Recheck \/ PausePasses \/ UNCHANGED alVars => UNCHANGED <<alCache, alArchive, alSaves>>
  BY DEF Recheck, PausePasses, alVars
<1> QED BY <1>3, <1>4, <1>5, <1>6

LEMMA AlInitInv == AlInit => AlInv
<1> SUFFICES ASSUME AlInit PROVE AlInv
  OBVIOUS
<1>1. 0 \in AlKeys /\ None \notin AlCallers
  BY AlAssumption DEF AlKeys, None, AlCallers
<1>2. NoCall \in AlRequest /\ NoCall.pc = "idle" /\ NoCall.mine = FALSE /\ NoCall.res = "none"
  BY Unasked
<1>3. /\ alCall = [c \in AlCallers |-> NoCall] /\ alInflight = [k \in AlKeys |-> None]
      /\ alCache = [k \in AlKeys |-> None] /\ alArchive = [b \in BOOLEAN |-> None]
      /\ alSaves = {} /\ alApplied = [c \in AlToggles |-> 0] /\ alToken \in AlKeys /\ alCrossed = FALSE
  BY DEF AlInit
<1>4. AlShape
  <2>1. alCall \in [AlCallers -> AlRequest] /\ alInflight \in [AlKeys -> AlCallers \cup {None}]
    BY <1>2, <1>3
  <2>2. alCache \in [AlKeys -> AlKeys \cup {None}] /\ alArchive \in [BOOLEAN -> AlKeys \cup {None}]
    BY <1>3
  <2>3. alApplied \in [AlToggles -> Int]
    BY DEF AlInit
  <2>5. alCrossed \in BOOLEAN
    BY DEF AlInit
  <2>4. alSaves \subseteq BOOLEAN \X AlKeys
    BY <1>3
  <2> QED BY <1>3, <2>1, <2>2, <2>3, <2>4, <2>5 DEF AlShape
<1>5. FlightsEnd /\ OwnFlight /\ Keyed /\ SavesApart
  BY <1>2, <1>3 DEF FlightsEnd, OwnFlight, Keyed, KeyedAt, SavesApart
<1>6. AnswersStayApart /\ JobsAskLive
  BY <1>2, <1>3 DEF AnswersStayApart, JobsAskLive, AlCallers
<1>7. Toggles
  BY <1>2, <1>3 DEF Toggles, ToggleAt, AlCallers, AlAsking
<1> QED BY <1>4, <1>5, <1>6, <1>7 DEF AlInv

(* client.go, cache.go: a flight always has somebody who asks and will end it; answers stay with
   the account they were given to, unless somebody logs in or out under a request; and a toggle
   counts its applications.  Inductive. *)
THEOREM AlInvariant == AlSpec => []AlInv
<1>1. ASSUME AlInv, [AlNext]_alVars PROVE AlInv'
  <2>1. ASSUME NEW c \in AlCallers,
               \/ Enter(c) \/ FlightOver(c) \/ Toggle(c) \/ AwaitPause(c) \/ PostQuery(c) \/ Rejected(c) \/ Leave(c)
               \/ \E b \in BOOLEAN : AskAniList(c, b) \/ Answered(c, b)
               \/ \E how \in {"limited", "disabled", "broken", "lost"}, applied \in BOOLEAN : Fails(c, how, applied)
        PROVE  AlInv'
    BY <1>1, <2>1, EnterKeeps, FlightOverKeeps, AlToggleKeeps, AwaitPauseKeeps, PostQueryKeeps, GivesUp, AskKeeps,
       AnsweredKeeps, FailsKeeps
  <2>2. ASSUME NEW t \in AlKeys, SetToken(t) PROVE AlInv'
    BY <1>1, <2>2, SetTokenKeeps
  <2>3. CASE \/ Recheck \/ PausePasses \/ UNCHANGED alVars
             \/ (\E s \in alSaves : SaveLands(s)) \/ \E k \in AlKeys : CacheDrops(k)
    BY <1>1, <2>3, AlWorldKeeps
  <2> QED BY <1>1, <2>1, <2>2, <2>3 DEF AlNext
<1> QED BY <1>1, AlInitInv, PTL DEF AlSpec

(* client.go, cache.go, archive.go: however requests, failures, departures and logins interleave,
   no flight is left that nobody ends, no account is given another's answer, background work
   never takes a saved answer and no toggle is applied twice. *)
THEOREM AniListStaysSafe == AlSpec => []AniListSafe
<1>1. AlInv => AniListSafe
  BY DEF AlInv, AniListSafe, Toggles, ToggleAt, ToggledOnce
<1> QED BY <1>1, AlInvariant, PTL

-----------------------------------------------------------------------------
(* The corpus: what was read is covered, and what is new gets indexed.     *)

CgAll == CgShows \cup CgSeed
CgJobRecord == [pc : {"idle", "seed", "list", "ask", "write", "after", "build"}, hand : BOOLEAN, err : BOOLEAN,
                disc : BOOLEAN, live : SUBSET CgAll, left : SUBSET CgAll, chunk : SUBSET CgAll, got : SUBSET CgAll,
                part : BOOLEAN, hidden : SUBSET CgAll, new : BOOLEAN]
CgShape ==
  /\ cgSite \subseteq CgShows /\ cgCorpus \subseteq CgAll /\ cgJob \in CgJobRecord
  /\ cgPage \in [pc : {"idle", "revive"}, show : CgShows \cup {0}, added : BOOLEAN]
  /\ cgAsk \in [pc : {"idle", "write"}, show : CgShows \cup {0}, part : BOOLEAN]
  /\ cgBuild \in [Builders -> [on : BOOLEAN, ix : SUBSET CgAll]]
  /\ cgTook \in BOOLEAN /\ cgLost \in BOOLEAN /\ cgPending \in BOOLEAN
\* A discovery accounts for every id of its list: known, given up, hidden, or still to ask.
Covering ==
  cgJob.pc \in {"ask", "write"} =>
    /\ cgJob.left \subseteq CgShows
    /\ cgJob.live \ cgJob.hidden \subseteq
         cgCorpus \cup cgDead \cup cgJob.left \cup (IF cgJob.pc = "write" THEN cgJob.chunk ELSE {})
PageSaved == cgPage.pc = "revive" => cgPage.show \in cgCorpus
\* Somebody will have the index built again.
CgDue == cgPending \/ (cgPage.pc = "revive" /\ cgPage.added) \/ cgJob.new
\* The index that is newest once the builds under way are done lacks nothing, or one is due.
NewestIndex ==
  ~cgLost =>
    /\ \A b, c \in Builders : cgBuild[b].on /\ cgBuild[c].on => b = c
    /\ \A b \in Builders : cgBuild[b].on => cgBuild[b].ix = cgCorpus \/ CgDue
    /\ (\A b \in Builders : ~cgBuild[b].on) => cgIndex = cgCorpus \/ CgDue
JobPlace ==
  /\ cgJob.pc \in {"idle", "build"} => ~cgJob.new
  /\ cgJob.pc = "build" <=> cgBuild["job"].on
\* While the site took nothing away, no question that was answered whole lacked a show.
CgServed ==
  ~cgTook => /\ cgDead = {} /\ cgSite = CgShows /\ (cgAsk.pc = "write" => cgAsk.part)
             /\ cgJob.pc = "write" => cgJob.part \/ cgJob.chunk \subseteq cgJob.got
CgInv == CgShape /\ Covering /\ MarkedIsCovered /\ PageSaved /\ NewestIndex /\ JobPlace /\ CgServed

\* The index's part of a step that builds nothing: what is due stays so, and what is new is due.
LEMMA DueStays ==
  ASSUME NewestIndex, UNCHANGED <<cgBuild, cgIndex>>, cgLost' = cgLost,
         CgDue' \/ (cgCorpus' = cgCorpus /\ ~CgDue)
  PROVE  NewestIndex'
  BY DEF NewestIndex

\* The job's record of a step that only moves it between the questions.
LEMMA RunMoves ==
  ASSUME CgInv, \/ (\E force \in BOOLEAN : RunStarts(force)) \/ SeedFails \/ FetchFails
  PROVE  /\ cgJob' \in CgJobRecord /\ (cgJob.new => cgJob'.new)
         /\ cgJob'.pc \in {"seed", "list", "after"} /\ cgJob.pc # "build"
<1>. USE DEF CgInv
<1>1. ASSUME NEW force \in BOOLEAN, RunStarts(force)
      PROVE  /\ cgJob' \in CgJobRecord /\ (cgJob.new => cgJob'.new)
             /\ cgJob'.pc \in {"seed", "list", "after"} /\ cgJob.pc # "build"
  <2>1. /\ cgJob.pc = "idle" /\ ~cgJob.new
        /\ cgJob' = [NoJob EXCEPT !.pc = IF force \/ "manami" \notin cgFresh THEN "seed" ELSE "list",
                                  !.hand = force, !.disc = force \/ "animeapi" \notin cgFresh, !.left = CgSeed]
    BY <1>1 DEF RunStarts, JobPlace
  <2> QED BY <2>1 DEF NoJob, CgJobRecord, CgAll
<1>2. CASE SeedFails
  <2>1. PICK read \in BOOLEAN : cgJob' = [cgJob EXCEPT !.pc = "list", !.err = TRUE, !.new = cgJob.new \/ read]
    BY <1>2 DEF SeedFails
  <2>2. cgJob.pc = "seed" /\ cgJob \in CgJobRecord
    BY <1>2 DEF SeedFails, CgShape
  <2> QED BY <2>1, <2>2 DEF CgJobRecord
<1>3. CASE FetchFails
  <2>1. cgJob.pc # "build" /\ cgJob \in CgJobRecord /\ cgJob' = [cgJob EXCEPT !.pc = "after", !.err = TRUE]
    BY <1>3 DEF FetchFails, CgShape
  <2> QED BY <2>1 DEF CgJobRecord
<1> QED BY <1>1, <1>2, <1>3

\* RunStarts, SeedFails, FetchFails: nothing is read or written.
LEMMA RunKeeps ==
  ASSUME CgInv, \/ (\E force \in BOOLEAN : RunStarts(force)) \/ SeedFails \/ FetchFails
  PROVE  CgInv'
<1>. USE DEF CgInv
<1>1. UNCHANGED <<cgSite, cgCorpus, cgDead, cgIndex, cgPage, cgAsk, cgBuild, cgPending, cgCovered, cgTook, cgLost>>
  BY DEF RunStarts, SeedFails, FetchFails
<1>2. /\ cgJob' \in CgJobRecord /\ (cgJob.new => cgJob'.new)
      /\ cgJob'.pc \in {"seed", "list", "after"} /\ cgJob.pc # "build"
  BY RunMoves
<1>3. NewestIndex'
  BY <1>1, <1>2, DueStays DEF CgDue
<1>4. CgShape'
  BY <1>1, <1>2 DEF CgShape
<1>5. Covering' /\ MarkedIsCovered' /\ PageSaved'
  BY <1>1, <1>2 DEF Covering, MarkedIsCovered, PageSaved
<1>6. JobPlace' /\ CgServed'
  BY <1>1, <1>2 DEF JobPlace, CgServed
<1> QED BY <1>3, <1>4, <1>5, <1>6

LEMMA SeedBatchKeeps ==
  ASSUME CgInv, SeedBatch
  PROVE  CgInv'
<1>. USE DEF CgInv
<1>1. PICK S \in SUBSET cgJob.left :
        /\ cgCorpus' = cgCorpus \cup S
        /\ cgJob' = [cgJob EXCEPT !.left = cgJob.left \ S, !.new = cgJob.new \/ S # {},
                                  !.pc = IF S = {} THEN "list" ELSE "seed"]
  BY DEF SeedBatch
<1>2. /\ cgJob.pc = "seed" /\ cgJob \in CgJobRecord /\ S \subseteq CgAll
      /\ UNCHANGED <<cgSite, cgDead, cgIndex, cgPage, cgAsk, cgBuild, cgPending, cgCovered, cgTook, cgLost>>
  BY DEF SeedBatch, CgShape, CgJobRecord
<1>3. /\ cgJob' \in CgJobRecord /\ cgJob'.pc \in {"list", "seed"}
      /\ cgJob'.new <=> cgJob.new \/ S # {}
  BY <1>1, <1>2 DEF CgJobRecord
<1>4. NewestIndex'
  <2>1. CgDue' \/ (cgCorpus' = cgCorpus /\ ~CgDue)
    BY <1>1, <1>2, <1>3 DEF CgDue
  <2> QED BY <1>2, <2>1, DueStays
<1>5. CgShape'
  BY <1>1, <1>2, <1>3 DEF CgShape
<1>6. Covering' /\ MarkedIsCovered' /\ PageSaved'
  BY <1>1, <1>2, <1>3 DEF Covering, MarkedIsCovered, PageSaved
<1>7. JobPlace' /\ CgServed'
  BY <1>2, <1>3 DEF JobPlace, CgServed
<1> QED BY <1>4, <1>5, <1>6, <1>7

LEMMA DiscoverKeeps ==
  ASSUME CgInv, Discover
  PROVE  CgInv'
<1>. USE DEF CgInv
<1>1. /\ cgJob.pc = "list" /\ cgJob \in CgJobRecord /\ cgSite \subseteq CgShows
      /\ UNCHANGED <<cgSite, cgCorpus, cgDead, cgIndex, cgPage, cgAsk, cgBuild, cgPending, cgCovered, cgTook, cgLost>>
  BY DEF Discover, CgShape
<1>2. \/ cgJob' = [cgJob EXCEPT !.pc = "after"]
      \/ cgJob' = [cgJob EXCEPT !.pc = "ask", !.live = cgSite, !.hidden = {}, !.left = cgSite \ (cgCorpus \cup cgDead)]
  BY DEF Discover
<1>3. /\ cgJob' \in CgJobRecord /\ cgJob'.new = cgJob.new /\ cgJob'.pc \in {"after", "ask"}
      /\ cgJob'.pc = "ask" => cgJob'.live = cgSite /\ cgJob'.left = cgSite \ (cgCorpus \cup cgDead)
  <2>1. CASE cgJob' = [cgJob EXCEPT !.pc = "after"]
    BY <1>1, <2>1 DEF CgJobRecord
  <2>2. CASE cgJob' = [cgJob EXCEPT !.pc = "ask", !.live = cgSite, !.hidden = {}, !.left = cgSite \ (cgCorpus \cup cgDead)]
    BY <1>1, <2>2 DEF CgJobRecord, CgAll
  <2> QED BY <1>2, <2>1, <2>2
<1>4. NewestIndex'
  BY <1>1, <1>3, DueStays DEF CgDue
<1>5. CgShape'
  BY <1>1, <1>3 DEF CgShape
<1>6. Covering' /\ MarkedIsCovered' /\ PageSaved'
  BY <1>1, <1>3 DEF Covering, MarkedIsCovered, PageSaved
<1>7. JobPlace' /\ CgServed'
  BY <1>1, <1>3 DEF JobPlace, CgServed
<1> QED BY <1>4, <1>5, <1>6, <1>7

\* The answer to a chunk holds all of it the site has, or is known to be incomplete.
LEMMA AskTitlesKeeps ==
  ASSUME CgInv, AskTitles
  PROVE  CgInv'
<1>. USE DEF CgInv
<1>1. PICK S \in SUBSET cgJob.left, pt \in BOOLEAN, got \in SUBSET cgSite :
        /\ got \subseteq S /\ (pt \/ got = S \cap cgSite)
        /\ cgJob' = [cgJob EXCEPT !.pc = "write", !.chunk = S, !.got = got, !.part = pt, !.left = cgJob.left \ S]
  BY DEF AskTitles
<1>2. /\ cgJob.pc = "ask" /\ cgJob \in CgJobRecord /\ S \subseteq CgAll /\ got \subseteq CgAll
      /\ UNCHANGED <<cgSite, cgCorpus, cgDead, cgIndex, cgPage, cgAsk, cgBuild, cgPending, cgCovered, cgTook, cgLost>>
  BY DEF AskTitles, CgShape, CgJobRecord, CgAll
<1>3. /\ cgJob' \in CgJobRecord /\ cgJob'.pc = "write" /\ cgJob'.new = cgJob.new /\ cgJob'.live = cgJob.live
      /\ cgJob'.hidden = cgJob.hidden /\ cgJob'.chunk = S /\ cgJob'.got = got /\ cgJob'.left = cgJob.left \ S
      /\ cgJob'.part = pt
  BY <1>1, <1>2 DEF CgJobRecord
<1>4. NewestIndex'
  BY <1>2, <1>3, DueStays DEF CgDue
<1>5. CgShape'
  BY <1>2, <1>3 DEF CgShape
<1>6. Covering' /\ MarkedIsCovered' /\ PageSaved'
  BY <1>2, <1>3 DEF Covering, MarkedIsCovered, PageSaved
<1>7. JobPlace'
  BY <1>2, <1>3 DEF JobPlace
<1>8. CgServed'
  BY <1>1, <1>2, <1>3 DEF CgServed, Covering
<1> QED BY <1>4, <1>5, <1>6, <1>7, <1>8

LEMMA SaveTitlesKeeps ==
  ASSUME CgInv, SaveTitles
  PROVE  CgInv'
<1>. USE DEF CgInv
<1> DEFINE hides == IF cgJob.part THEN cgJob.hidden \cup (cgJob.chunk \ cgJob.got) ELSE cgJob.hidden
<1>1. /\ cgJob.pc = "write" /\ cgJob \in CgJobRecord /\ cgCorpus' = cgCorpus \cup cgJob.got
      /\ cgDead' = IF cgJob.part THEN cgDead ELSE cgDead \cup (cgJob.chunk \ cgJob.got)
      /\ cgJob' = [cgJob EXCEPT !.pc = "ask", !.new = cgJob.new \/ cgJob.got # {}, !.hidden = hides]
      /\ UNCHANGED <<cgSite, cgIndex, cgPage, cgAsk, cgBuild, cgPending, cgCovered, cgTook, cgLost>>
  BY DEF SaveTitles, CgShape
<1>2. hides \in SUBSET CgAll
  BY <1>1 DEF CgJobRecord
<1>3. /\ cgJob' \in CgJobRecord /\ cgJob'.pc = "ask" /\ cgJob'.live = cgJob.live /\ cgJob'.left = cgJob.left
      /\ cgJob'.hidden = hides /\ (cgJob'.new <=> cgJob.new \/ cgJob.got # {})
  <2> HIDE DEF hides
  <2> QED BY <1>1, <1>2 DEF CgJobRecord
<1>4. NewestIndex'
  <2>1. CgDue' \/ (cgCorpus' = cgCorpus /\ ~CgDue)
    BY <1>1, <1>3 DEF CgDue
  <2> QED BY <1>1, <2>1, DueStays
<1>5. CgShape'
  <2>1. cgCorpus' \subseteq CgAll
    BY <1>1 DEF CgShape, CgJobRecord
  <2> QED BY <1>1, <1>3, <2>1 DEF CgShape
<1>6. Covering' /\ MarkedIsCovered' /\ PageSaved'
  BY <1>1, <1>3 DEF Covering, MarkedIsCovered, PageSaved
<1>7. JobPlace'
  BY <1>1, <1>3 DEF JobPlace
<1>8. CgServed'
  BY <1>1, <1>3 DEF CgServed
<1> QED BY <1>4, <1>5, <1>6, <1>7, <1>8

LEMMA MarkSourceKeeps ==
  ASSUME CgInv, MarkSource
  PROVE  CgInv'
<1>. USE DEF CgInv
<1>1. /\ cgJob.pc = "ask" /\ cgJob.left = {} /\ cgJob \in CgJobRecord /\ cgJob' = [cgJob EXCEPT !.pc = "after"]
      /\ cgCovered' = cgJob.live \ cgJob.hidden
      /\ UNCHANGED <<cgSite, cgCorpus, cgDead, cgIndex, cgPage, cgAsk, cgBuild, cgPending, cgTook, cgLost>>
  BY DEF MarkSource, CgShape
<1>2. cgJob' \in CgJobRecord /\ cgJob'.pc = "after" /\ cgJob'.new = cgJob.new
  BY <1>1 DEF CgJobRecord
<1>3. NewestIndex'
  BY <1>1, <1>2, DueStays DEF CgDue
<1>4. CgShape'
  BY <1>1, <1>2 DEF CgShape
<1>5. Covering' /\ MarkedIsCovered' /\ PageSaved'
  BY <1>1, <1>2 DEF Covering, MarkedIsCovered, PageSaved
<1>6. JobPlace' /\ CgServed'
  BY <1>1, <1>2 DEF JobPlace, CgServed
<1> QED BY <1>3, <1>4, <1>5, <1>6

\* A build that reads the corpus while no other is under way is the newest there is.
LEMMA BuildsFresh ==
  ASSUME CgInv, NEW b \in Builders, ~cgBuild[b].on, BuildReads(b), cgLost' = (cgLost \/ Beside(b)), cgCorpus' = cgCorpus
  PROVE  /\ cgBuild' \in [Builders -> [on : BOOLEAN, ix : SUBSET CgAll]] /\ cgLost' \in BOOLEAN /\ NewestIndex'
         /\ cgBuild'[b].on /\ \A c \in Builders \ {b} : cgBuild'[c] = cgBuild[c]
<1>1. /\ cgBuild \in [Builders -> [on : BOOLEAN, ix : SUBSET CgAll]] /\ cgCorpus \subseteq CgAll /\ cgLost \in BOOLEAN
  BY DEF CgInv, CgShape
<1> DEFINE x == [on |-> TRUE, ix |-> cgCorpus]
<1>2. x \in [on : BOOLEAN, ix : SUBSET CgAll] /\ x.on = TRUE /\ x.ix = cgCorpus
  BY <1>1
<1> HIDE DEF x
<1>3. cgBuild' = [cgBuild EXCEPT ![b] = x]
  BY DEF BuildReads, x
<1>4. /\ cgBuild' \in [Builders -> [on : BOOLEAN, ix : SUBSET CgAll]] /\ cgBuild'[b] = x
      /\ \A c \in Builders \ {b} : cgBuild'[c] = cgBuild[c]
  BY <1>1, <1>2, <1>3
<1>5. NewestIndex'
  <2> SUFFICES ASSUME ~cgLost'
               PROVE  /\ \A d, c \in Builders : cgBuild'[d].on /\ cgBuild'[c].on => d = c
                      /\ \A d \in Builders : cgBuild'[d].on => cgBuild'[d].ix = cgCorpus' \/ CgDue'
                      /\ (\A d \in Builders : ~cgBuild'[d].on) => cgIndex' = cgCorpus' \/ CgDue'
    BY DEF NewestIndex
  <2>1. \A c \in Builders \ {b} : ~cgBuild'[c].on
    BY <1>4 DEF Beside
  <2> QED BY <1>2, <1>4, <2>1
<1>6. cgLost' \in BOOLEAN
  BY <1>1
<1> QED BY <1>2, <1>4, <1>5, <1>6

LEMMA JobBuildsKeeps ==
  ASSUME CgInv, JobBuilds
  PROVE  CgInv'
<1>. USE DEF CgInv
<1>1. /\ cgJob.pc = "after" /\ cgLost' = (cgLost \/ Beside("job")) /\ ~cgBuild["job"].on
      /\ UNCHANGED <<cgSite, cgCorpus, cgDead, cgIndex, cgPage, cgAsk, cgPending, cgCovered, cgTook>>
  BY DEF JobBuilds, JobPlace
<1>2. NoJob \in CgJobRecord /\ NoJob.pc = "idle" /\ NoJob.new = FALSE
  BY DEF NoJob, CgJobRecord
<1>3. CASE cgJob.new \/ (cgJob.hand /\ ~cgJob.err)
  <2>1. cgJob' = [NoJob EXCEPT !.pc = "build"] /\ BuildReads("job") /\ "job" \in Builders
    BY <1>3 DEF JobBuilds, Builders
  <2>2. cgJob' \in CgJobRecord /\ cgJob'.pc = "build" /\ cgJob'.new = FALSE
    BY <1>2, <2>1 DEF CgJobRecord
  <2>3. /\ cgBuild' \in [Builders -> [on : BOOLEAN, ix : SUBSET CgAll]] /\ cgLost' \in BOOLEAN /\ NewestIndex'
        /\ cgBuild'["job"].on
    BY <1>1, <2>1, BuildsFresh
  <2>4. CgShape'
    BY <1>1, <2>2, <2>3 DEF CgShape
  <2> QED BY <1>1, <2>2, <2>3, <2>4 DEF Covering, MarkedIsCovered, PageSaved, JobPlace, CgServed
<1>4. CASE ~(cgJob.new \/ (cgJob.hand /\ ~cgJob.err))
  <2>1. cgJob' = NoJob /\ cgBuild' = cgBuild
    BY <1>4 DEF JobBuilds
  <2>2. NewestIndex'
    <3>1. CgDue <=> CgDue'
      BY <1>1, <1>2, <1>4, <2>1 DEF CgDue
    <3>2. ~cgLost' => ~cgLost
      BY <1>1
    <3> QED BY <1>1, <2>1, <3>1, <3>2 DEF NewestIndex
  <2>3. cgLost' \in BOOLEAN
    BY <1>1 DEF CgShape
  <2>4. CgShape'
    BY <1>1, <1>2, <2>1, <2>3 DEF CgShape
  <2> QED BY <1>1, <1>2, <2>1, <2>2, <2>4 DEF Covering, MarkedIsCovered, PageSaved, JobPlace, CgServed
<1> QED BY <1>3, <1>4

LEMMA BurstBuildsKeeps ==
  ASSUME CgInv, BurstBuilds
  PROVE  CgInv'
<1>. USE DEF CgInv
<1>1. /\ ~cgBuild["burst"].on /\ BuildReads("burst") /\ cgLost' = (cgLost \/ Beside("burst")) /\ cgPending' = FALSE
      /\ "burst" \in Builders /\ "job" \in Builders \ {"burst"}
      /\ UNCHANGED <<cgSite, cgCorpus, cgDead, cgIndex, cgJob, cgPage, cgAsk, cgCovered, cgTook>>
  BY DEF BurstBuilds, Builders
<1>2. /\ cgBuild' \in [Builders -> [on : BOOLEAN, ix : SUBSET CgAll]] /\ cgLost' \in BOOLEAN /\ NewestIndex'
      /\ \A c \in Builders \ {"burst"} : cgBuild'[c] = cgBuild[c]
  BY <1>1, BuildsFresh
<1>3. CgShape'
  BY <1>1, <1>2 DEF CgShape
<1>4. JobPlace'
  BY <1>1, <1>2 DEF JobPlace
<1> QED BY <1>1, <1>2, <1>3, <1>4 DEF Covering, MarkedIsCovered, PageSaved, CgServed

\* A build ends: swapped in, or failed.
LEMMA BuildEndsKeeps ==
  ASSUME CgInv, NEW b \in Builders, SetIndex(b) \/ BuildFails(b)
  PROVE  CgInv'
<1>. USE DEF CgInv
<1>1. /\ cgBuild[b].on /\ cgBuild' = [cgBuild EXCEPT ![b] = NoBuild] /\ cgJob' = IF b = "job" THEN NoJob ELSE cgJob
      /\ UNCHANGED <<cgSite, cgCorpus, cgDead, cgPage, cgAsk, cgPending, cgCovered, cgTook>>
      /\ (cgIndex' = cgBuild[b].ix /\ cgLost' = cgLost) \/ cgLost' = TRUE
  BY DEF SetIndex, BuildFails
<1>2. NoJob \in CgJobRecord /\ NoJob.pc = "idle" /\ NoJob.new = FALSE
  BY DEF NoJob, CgJobRecord
<1>3. NoBuild \in [on : BOOLEAN, ix : SUBSET CgAll] /\ NoBuild.on = FALSE
  BY DEF NoBuild
<1>4. cgBuild \in [Builders -> [on : BOOLEAN, ix : SUBSET CgAll]]
  BY DEF CgShape
<1>5. /\ cgBuild' \in [Builders -> [on : BOOLEAN, ix : SUBSET CgAll]] /\ cgBuild'[b] = NoBuild
      /\ \A c \in Builders \ {b} : cgBuild'[c] = cgBuild[c]
  BY <1>1, <1>3, <1>4
<1>6. "job" \in Builders /\ (b = "job" => cgJob.pc = "build" /\ ~cgJob.new)
  BY <1>1 DEF Builders, JobPlace
<1>7. cgJob' \in CgJobRecord /\ (cgJob'.new <=> cgJob.new)
  BY <1>1, <1>2, <1>6 DEF CgShape
<1>8. CgShape'
  BY <1>1, <1>5, <1>7 DEF CgShape
<1>9. NewestIndex'
  <2> SUFFICES ASSUME ~cgLost' PROVE NewestIndex'
    BY DEF NewestIndex
  <2>1. ~cgLost /\ cgIndex' = cgBuild[b].ix
    BY <1>1
  <2>2. CgDue <=> CgDue'
    BY <1>1, <1>7 DEF CgDue
  <2>3. \A c \in Builders : ~cgBuild'[c].on
    BY <1>1, <1>3, <1>5, <2>1 DEF NewestIndex
  <2> QED BY <1>1, <2>1, <2>2, <2>3 DEF NewestIndex
<1>10. JobPlace'
  BY <1>1, <1>2, <1>3, <1>5, <1>6 DEF JobPlace
<1>11. Covering' /\ MarkedIsCovered' /\ PageSaved' /\ CgServed'
  BY <1>1, <1>2 DEF Covering, MarkedIsCovered, PageSaved, CgServed
<1> QED BY <1>8, <1>9, <1>10, <1>11

\* Remember: the titles first, then the mark is lifted and a build asked for.
LEMMA RememberKeeps ==
  ASSUME CgInv, \/ (\E a \in CgShows : RememberSaves(a)) \/ RememberRevives \/ RememberFails
  PROVE  CgInv'
<1>. USE DEF CgInv
<1> DEFINE pages == [pc : {"idle", "revive"}, show : CgShows \cup {0}, added : BOOLEAN]
<1>0. cgPage \in pages
  BY DEF CgShape
<1>1. ASSUME NEW a \in CgShows, RememberSaves(a) PROVE CgInv'
  <2>1. /\ cgPage' = [pc |-> "revive", show |-> a, added |-> a \notin cgCorpus] /\ cgCorpus' = cgCorpus \cup {a}
        /\ cgPage.pc = "idle"
        /\ UNCHANGED <<cgSite, cgDead, cgIndex, cgJob, cgAsk, cgBuild, cgPending, cgCovered, cgTook, cgLost>>
    BY <1>1 DEF RememberSaves
  <2>2. cgPage' \in pages /\ cgPage'.show = a /\ (cgPage'.added <=> a \notin cgCorpus) /\ cgPage'.pc = "revive"
    BY <2>1
  <2>3. NewestIndex'
    <3>1. CgDue' \/ (cgCorpus' = cgCorpus /\ ~CgDue)
      BY <2>1, <2>2 DEF CgDue
    <3> QED BY <2>1, <3>1, DueStays
  <2>4. CgShape'
    BY <2>1, <2>2 DEF CgShape, CgAll
  <2> QED BY <2>1, <2>2, <2>3, <2>4 DEF Covering, MarkedIsCovered, PageSaved, JobPlace, CgServed
<1>2. CASE RememberRevives
  <2>1. /\ cgPage.pc = "revive" /\ cgDead' = cgDead \ {cgPage.show} /\ cgPending' = (cgPending \/ cgPage.added)
        /\ cgPage' = [cgPage EXCEPT !.pc = "idle", !.show = 0, !.added = FALSE]
        /\ UNCHANGED <<cgSite, cgCorpus, cgIndex, cgJob, cgAsk, cgBuild, cgCovered, cgTook, cgLost>>
    BY <1>2 DEF RememberRevives
  <2>2. cgPage' \in pages /\ cgPage'.pc = "idle" /\ cgPage'.added = FALSE
    BY <1>0, <2>1
  <2>3. cgPending' \in BOOLEAN /\ (CgDue <=> CgDue')
    BY <1>0, <2>1, <2>2 DEF CgDue, CgShape
  <2>4. NewestIndex'
    BY <2>1, <2>3, DueStays
  <2>5. CgShape'
    BY <2>1, <2>2, <2>3 DEF CgShape
  <2>6. cgPage.show \in cgCorpus
    BY <2>1 DEF PageSaved
  <2> QED BY <2>1, <2>2, <2>4, <2>5, <2>6 DEF Covering, MarkedIsCovered, PageSaved, JobPlace, CgServed
<1>3. CASE RememberFails
  <2>1. /\ cgPage' = [cgPage EXCEPT !.pc = "idle", !.show = 0, !.added = FALSE] /\ cgLost' = TRUE
        /\ UNCHANGED <<cgSite, cgCorpus, cgDead, cgIndex, cgJob, cgAsk, cgBuild, cgPending, cgCovered, cgTook>>
    BY <1>3 DEF RememberFails
  <2>2. cgPage' \in pages /\ cgPage'.pc = "idle"
    BY <1>0, <2>1
  <2>3. CgShape'
    BY <2>1, <2>2 DEF CgShape
  <2> QED BY <2>1, <2>2, <2>3 DEF Covering, MarkedIsCovered, PageSaved, NewestIndex, JobPlace, CgServed
<1> QED BY <1>1, <1>2, <1>3

\* Hydrate, the site and the day.
LEMMA CgWorldKeeps ==
  ASSUME CgInv,
         \/ HydrateWrites \/ DayPasses \/ UNCHANGED cgVars
         \/ \E a \in CgShows : SiteDrops(a) \/ SiteServes(a) \/ \E p \in BOOLEAN : HydrateAsks(a, p)
  PROVE  CgInv'
<1>. USE DEF CgInv
<1>1. UNCHANGED <<cgCorpus, cgIndex, cgJob, cgPage, cgBuild, cgPending, cgCovered, cgLost>>
  BY DEF HydrateWrites, DayPasses, cgVars, SiteDrops, SiteServes, HydrateAsks
<1>2. NewestIndex' /\ PageSaved' /\ JobPlace'
  BY <1>1 DEF NewestIndex, PageSaved, JobPlace, CgDue
<1>3. CASE UNCHANGED <<cgSite, cgDead, cgAsk, cgTook>>
  BY <1>1, <1>2, <1>3 DEF CgShape, Covering, MarkedIsCovered, CgServed
<1>4. CASE HydrateWrites
  <2>1. /\ cgDead' = IF cgAsk.part THEN cgDead ELSE cgDead \cup {cgAsk.show}
        /\ cgAsk' = NoAsk
    BY <1>4 DEF HydrateWrites
  <2>2. cgAsk.pc = "write" /\ UNCHANGED <<cgSite, cgTook>>
    BY <1>4 DEF HydrateWrites
  <2>3. cgAsk' \in [pc : {"idle", "write"}, show : CgShows \cup {0}, part : BOOLEAN] /\ cgAsk'.pc = "idle"
    BY <2>1 DEF NoAsk
  <2>4. CgShape'
    BY <1>1, <2>2, <2>3 DEF CgShape
  <2>5. Covering' /\ MarkedIsCovered'
    BY <1>1, <2>1 DEF Covering, MarkedIsCovered
  <2>6. CgServed'
    BY <1>1, <2>1, <2>2, <2>3 DEF CgServed
  <2> QED BY <1>2, <2>4, <2>5, <2>6
<1>5. ASSUME NEW a \in CgShows, SiteDrops(a) PROVE CgInv'
  <2>1. cgSite' = cgSite \ {a} /\ cgTook' = TRUE /\ UNCHANGED <<cgDead, cgAsk>>
    BY <1>5 DEF SiteDrops
  <2> QED BY <1>1, <1>2, <2>1 DEF CgShape, Covering, MarkedIsCovered, CgServed
<1>6. ASSUME NEW a \in CgShows, SiteServes(a) PROVE CgInv'
  <2>1. cgSite' = cgSite \cup {a} /\ UNCHANGED <<cgDead, cgAsk, cgTook>>
    BY <1>6 DEF SiteServes
  <2> QED BY <1>1, <1>2, <2>1 DEF CgShape, Covering, MarkedIsCovered, CgServed
<1>7. ASSUME NEW a \in CgShows, NEW p \in BOOLEAN, HydrateAsks(a, p) PROVE CgInv'
  <2>1. /\ cgAsk' = [pc |-> "write", show |-> a, part |-> p] /\ (p \/ a \notin cgSite)
        /\ UNCHANGED <<cgSite, cgDead, cgTook>>
    BY <1>7 DEF HydrateAsks
  <2>2. cgAsk' \in [pc : {"idle", "write"}, show : CgShows \cup {0}, part : BOOLEAN] /\ cgAsk'.part = p
    BY <2>1
  <2>3. CgShape' /\ Covering' /\ MarkedIsCovered'
    BY <1>1, <2>1, <2>2 DEF CgShape, Covering, MarkedIsCovered
  <2>4. CgServed'
    BY <1>1, <2>1, <2>2 DEF CgServed
  <2> QED BY <1>2, <2>3, <2>4
<1>8. DayPasses \/ UNCHANGED cgVars => UNCHANGED <<cgSite, cgDead, cgAsk, cgTook>>
  BY DEF DayPasses, cgVars
<1> QED BY <1>3, <1>4, <1>5, <1>6, <1>7, <1>8

LEMMA CgInitInv == CgInit => CgInv
<1> SUFFICES ASSUME CgInit PROVE CgInv
  OBVIOUS
<1>1. NoJob \in CgJobRecord /\ NoJob.pc = "idle" /\ NoJob.new = FALSE
  BY DEF NoJob, CgJobRecord
<1>2. /\ cgSite = CgShows /\ cgCorpus = {} /\ cgDead = {} /\ cgIndex = {} /\ cgJob = NoJob
      /\ cgPage = [pc |-> "idle", show |-> 0, added |-> FALSE] /\ cgAsk = NoAsk
      /\ cgBuild = [b \in Builders |-> [on |-> b = "start", ix |-> {}]] /\ cgPending = FALSE /\ cgCovered = {}
      /\ cgTook = FALSE /\ cgLost = FALSE
  BY DEF CgInit
<1>3. CgShape
  BY <1>1, <1>2 DEF CgShape, NoAsk
<1>4. Covering /\ MarkedIsCovered /\ PageSaved /\ CgServed
  BY <1>1, <1>2 DEF Covering, MarkedIsCovered, PageSaved, CgServed, NoAsk
<1>5. NewestIndex /\ JobPlace
  BY <1>1, <1>2 DEF NewestIndex, JobPlace, Builders
<1> QED BY <1>3, <1>4, <1>5 DEF CgInv

(* corpus.go, remember.go: a discovery accounts for every id of its list, and whatever was added
   since the newest index was read has somebody who builds it again.  Inductive. *)
THEOREM CorpusInvariant == CgSpec => []CgInv
<1>1. ASSUME CgInv, [CgNext]_cgVars PROVE CgInv'
  BY <1>1, RunKeeps, SeedBatchKeeps, DiscoverKeeps, AskTitlesKeeps, SaveTitlesKeeps, MarkSourceKeeps, JobBuildsKeeps,
     BurstBuildsKeeps, BuildEndsKeeps, RememberKeeps, CgWorldKeeps DEF CgNext
<1> QED BY <1>1, CgInitInv, PTL DEF CgSpec

(* library/corpus.go, server/corpus.go: a source marked as read is in the corpus or given up; at
   rest the index holds the corpus, runs that failed half way included; and a show AniList never
   took away is never given up.  For any shows, any seed and any size of batch. *)
THEOREM CorpusStaysSafe == CgSpec => []CorpusSafe
<1>1. CgInv => CorpusSafe
  <2> SUFFICES ASSUME CgInv PROVE CorpusSafe
    OBVIOUS
  <2>1. IndexAgrees
    BY DEF CgInv, IndexAgrees, AtWork, NewestIndex, CgDue, JobPlace
  <2> QED BY <2>1 DEF CgInv, CorpusSafe, ServedIsKept, CgServed
<1> QED BY <1>1, CorpusInvariant, PTL

-----------------------------------------------------------------------------
(* Local files: what a scan may flag.                                      *)

LfRowRecord == [on : BOOLEAN, show : Int, hand : BOOLEAN, missing : BOOLEAN]
LfScanRecord == [pc : {"idle", "walk", "sweep", "outside"}, roots : SUBSET LfRoots, todo : SUBSET LfRoots,
                 found : SUBSET LfFiles, walked : SUBSET LfRoots, lost : SUBSET LfRoots]
LfShape ==
  /\ lfRoots \subseteq LfRoots /\ lfRow \in [LfFiles -> LfRowRecord] /\ lfHand \in [LfFiles -> Int]
  /\ lfDrive \in [LfRoots -> {"in", "gone", "empty"}] /\ lfScan \in LfScanRecord /\ lfCrossed \in BOOLEAN
\* A scan stays within the folders it began with, and only a link leads nowhere.
ScanWithin ==
  /\ lfScan.todo \cup lfScan.walked \subseteq lfScan.roots /\ lfScan.lost \subseteq LfLinked
  /\ \A f \in lfScan.found : LfHome[f] \in lfScan.roots
\* A file that is not there was seen to go.
AbsentIsGone == \A f \in LfFiles : f \notin lfDisk \/ lfDrive[LfHome[f]] = "empty" => f \in lfGone
GoneOrOut(f) == f \in lfGone \/ LfHome[f] \notin lfRoots
\* What a scan has not found under a root it read to the end, or under none of its roots, may be
\* flagged.
WalkedIsWhole ==
  \A f \in LfFiles \ lfScan.found : LfHome[f] \in lfScan.walked \ lfScan.lost => GoneOrOut(f)
OutsideIsOut ==
  lfScan.pc # "idle" => \A f \in LfFiles : LfHome[f] \notin lfScan.roots => GoneOrOut(f)
Retired == ~lfCrossed => \A f \in LfFiles : lfRow[f].on /\ LfHome[f] \notin lfRoots => lfRow[f].missing
Uncrossed == ~lfCrossed /\ lfScan.pc # "idle" => lfScan.roots = lfRoots
LfInv ==
  /\ LfShape /\ ScanWithin /\ AbsentIsGone /\ WalkedIsWhole /\ OutsideIsOut /\ MissingWasGone
  /\ HandOutlives /\ Retired /\ Uncrossed

\* Flagging changes nothing else of a row.
LEMMA FlaggedIs ==
  ASSUME lfRow \in [LfFiles -> LfRowRecord], NEW F
  PROVE  /\ Flagged(F) \in [LfFiles -> LfRowRecord]
         /\ \A f \in LfFiles : /\ Flagged(F)[f].on = lfRow[f].on /\ Flagged(F)[f].show = lfRow[f].show
                               /\ Flagged(F)[f].hand = lfRow[f].hand
                               /\ Flagged(F)[f].missing <=> lfRow[f].missing \/ (f \in F /\ lfRow[f].on)
<1>1. ASSUME NEW f \in LfFiles
      PROVE  /\ Flagged(F)[f] \in LfRowRecord
             /\ Flagged(F)[f].on = lfRow[f].on /\ Flagged(F)[f].show = lfRow[f].show
             /\ Flagged(F)[f].hand = lfRow[f].hand
             /\ Flagged(F)[f].missing <=> lfRow[f].missing \/ (f \in F /\ lfRow[f].on)
  <2>0. lfRow[f] \in LfRowRecord
    OBVIOUS
  <2>1. CASE f \in F /\ lfRow[f].on
    <3>1. Flagged(F)[f] = [lfRow[f] EXCEPT !.missing = TRUE]
      BY <2>1 DEF Flagged
    <3> QED BY <2>0, <2>1, <3>1 DEF LfRowRecord
  <2>2. CASE ~(f \in F /\ lfRow[f].on)
    <3>1. Flagged(F)[f] = lfRow[f]
      BY <2>2 DEF Flagged
    <3> QED BY <2>0, <2>2, <3>1
  <2> QED BY <2>1, <2>2
<1>2. Flagged(F) = [f \in LfFiles |-> Flagged(F)[f]]
  BY DEF Flagged
<1> QED BY <1>1, <1>2

\* A step that flags the files of F, all away, out or behind a link, and leaves the folders.
LEMMA FlagsKeep ==
  ASSUME LfInv, NEW F, lfRow' = Flagged(F), lfRoots' = lfRoots, lfHand' = lfHand, lfGone \subseteq lfGone',
         \A f \in LfFiles : f \in F => GoneOrOut(f)' \/ LfHome[f] \in LfLinked,
         lfCrossed \/ ~lfCrossed'
  PROVE  lfRow' \in [LfFiles -> LfRowRecord] /\ MissingWasGone' /\ HandOutlives' /\ (lfCrossed \/ Retired')
<1>1. /\ lfRow' \in [LfFiles -> LfRowRecord]
      /\ \A f \in LfFiles : /\ lfRow'[f].on = lfRow[f].on /\ lfRow'[f].show = lfRow[f].show
                            /\ lfRow'[f].hand = lfRow[f].hand
                            /\ lfRow'[f].missing <=> lfRow[f].missing \/ (f \in F /\ lfRow[f].on)
  BY FlaggedIs DEF LfInv, LfShape
<1>2. MissingWasGone'
  BY <1>1 DEF LfInv, MissingWasGone, GoneOrOut
<1>3. HandOutlives'
  BY <1>1 DEF LfInv, HandOutlives
<1>4. lfCrossed \/ Retired'
  BY <1>1 DEF LfInv, Retired
<1> QED BY <1>1, <1>2, <1>3, <1>4

LEMMA ScanStartsKeeps ==
  ASSUME LfInv, ScanStarts
  PROVE  LfInv'
<1>. USE DEF LfInv
<1>1. /\ lfScan' = [NoScan EXCEPT !.pc = "walk", !.roots = lfRoots, !.todo = lfRoots]
      /\ UNCHANGED <<lfRoots, lfDisk, lfDrive, lfRow, lfHand, lfGone, lfCrossed>>
  BY DEF ScanStarts
<1>2. /\ lfScan' \in LfScanRecord /\ lfScan'.pc = "walk" /\ lfScan'.roots = lfRoots /\ lfScan'.todo = lfRoots
      /\ lfScan'.found = {} /\ lfScan'.walked = {} /\ lfScan'.lost = {}
  BY <1>1 DEF NoScan, LfScanRecord, LfShape
<1>3. LfShape' /\ ScanWithin' /\ AbsentIsGone'
  BY <1>1, <1>2 DEF LfShape, ScanWithin, AbsentIsGone
<1>4. WalkedIsWhole' /\ OutsideIsOut' /\ Uncrossed'
  BY <1>1, <1>2 DEF WalkedIsWhole, OutsideIsOut, Uncrossed, GoneOrOut
<1>5. MissingWasGone' /\ HandOutlives' /\ Retired'
  BY <1>1 DEF MissingWasGone, HandOutlives, Retired
<1> QED BY <1>3, <1>4, <1>5

\* A root read to the end: what it did not show is away.
LEMMA WalkRootKeeps ==
  ASSUME LfInv, NEW r \in LfRoots, WalkRoot(r)
  PROVE  LfInv'
<1>. USE DEF LfInv
<1> DEFINE seen == IF lfDrive[r] = "in" THEN Under({r}) \cap lfDisk ELSE {}
           dangling == r \in LfLinked /\ lfDrive[r] = "gone"
           clean == dangling \/ (lfDrive[r] # "gone" /\ seen \cap lfLocked = {})
           newly == lfScan.found \cup (seen \ lfLocked)
           walks == IF clean THEN lfScan.walked \cup {r} ELSE lfScan.walked
           loses == IF dangling THEN lfScan.lost \cup {r} ELSE lfScan.lost
<1>1. /\ lfScan.pc = "walk" /\ r \in lfScan.todo /\ lfScan \in LfScanRecord
      /\ lfScan' = [lfScan EXCEPT !.todo = lfScan.todo \ {r}, !.found = newly, !.walked = walks, !.lost = loses]
      /\ UNCHANGED <<lfRoots, lfDisk, lfDrive, lfLocked, lfRow, lfHand, lfGone, lfCrossed>>
  BY DEF WalkRoot, LfShape
<1>2. newly \in SUBSET LfFiles /\ walks \in SUBSET LfRoots /\ loses \in SUBSET LfRoots
  BY <1>1 DEF LfScanRecord, Under
<1>3. /\ lfScan' \in LfScanRecord /\ lfScan'.pc = "walk" /\ lfScan'.roots = lfScan.roots
      /\ lfScan'.todo = lfScan.todo \ {r} /\ lfScan'.found = newly /\ lfScan'.walked = walks /\ lfScan'.lost = loses
  <2> HIDE DEF newly, walks, loses
  <2> QED BY <1>1, <1>2 DEF LfScanRecord
<1>4. LfShape' /\ AbsentIsGone' /\ MissingWasGone' /\ HandOutlives' /\ Retired'
  BY <1>1, <1>3 DEF LfShape, AbsentIsGone, MissingWasGone, HandOutlives, Retired
<1>5. ScanWithin'
  BY <1>1, <1>3 DEF ScanWithin, Under
<1>6. OutsideIsOut' /\ Uncrossed'
  BY <1>1, <1>3 DEF OutsideIsOut, Uncrossed, GoneOrOut
<1>7. WalkedIsWhole'
  <2> SUFFICES ASSUME NEW f \in LfFiles, f \notin newly, LfHome[f] \in walks \ loses
               PROVE  GoneOrOut(f)
    BY <1>1, <1>3 DEF WalkedIsWhole, GoneOrOut
  <2>1. CASE LfHome[f] \in lfScan.walked
    BY <2>1 DEF WalkedIsWhole
  <2>2. CASE LfHome[f] = r /\ clean
    <3>1. ~dangling /\ lfDrive[r] \in {"in", "gone", "empty"}
      BY <2>2 DEF LfShape
    <3>2. CASE lfDrive[r] = "empty"
      BY <2>2, <3>2 DEF AbsentIsGone, GoneOrOut
    <3>3. CASE lfDrive[r] = "in"
      <4>1. f \notin lfDisk
        BY <2>2, <3>1, <3>3 DEF Under
      <4> QED BY <4>1 DEF AbsentIsGone, GoneOrOut
    <3> QED BY <2>2, <3>1, <3>2, <3>3
  <2> QED BY <2>1, <2>2
<1> QED BY <1>4, <1>5, <1>6, <1>7

\* A hand assignment outlives the scan's guess, and what is recorded is not missing.
LEMMA SaveLocalFilesKeeps ==
  ASSUME LfInv, SaveLocalFiles
  PROVE  LfInv'
<1>. USE DEF LfInv
<1>1. PICK guess \in [LfFiles -> Guesses] :
        lfRow' = [f \in LfFiles |-> IF f \in lfScan.found THEN Saved(f, guess[f]) ELSE lfRow[f]]
  BY DEF SaveLocalFiles
<1>2. /\ lfScan' = [lfScan EXCEPT !.pc = "sweep"] /\ lfGone' = lfGone \ {f \in lfScan.found : ~Away(f)}
      /\ lfScan.pc = "walk" /\ lfScan \in LfScanRecord /\ lfRow \in [LfFiles -> LfRowRecord]
      /\ UNCHANGED <<lfRoots, lfDisk, lfDrive, lfHand, lfCrossed>>
  BY DEF SaveLocalFiles, LfShape
<1>3. /\ lfScan' \in LfScanRecord /\ lfScan'.pc = "sweep" /\ lfScan'.roots = lfScan.roots
      /\ lfScan'.todo = lfScan.todo /\ lfScan'.found = lfScan.found /\ lfScan'.walked = lfScan.walked
      /\ lfScan'.lost = lfScan.lost
  BY <1>2 DEF LfScanRecord
<1>4. ASSUME NEW f \in LfFiles
      PROVE  /\ lfRow'[f] \in LfRowRecord
             /\ f \notin lfScan.found => lfRow'[f] = lfRow[f]
             /\ f \in lfScan.found => ~lfRow'[f].missing
             /\ lfRow[f].hand => lfRow'[f].hand /\ lfRow'[f].show = lfRow[f].show
  <2>0. lfRow[f] \in LfRowRecord /\ guess[f] \in Int
    BY <1>2 DEF Guesses
  <2>1. CASE f \notin lfScan.found
    BY <1>1, <2>0, <2>1
  <2>2. CASE f \in lfScan.found /\ lfRow[f].hand
    <3>1. lfRow'[f] = [lfRow[f] EXCEPT !.missing = FALSE]
      BY <1>1, <2>2 DEF Saved
    <3> QED BY <2>0, <2>2, <3>1 DEF LfRowRecord
  <2>3. CASE f \in lfScan.found /\ ~lfRow[f].hand
    <3>1. lfRow'[f] = [on |-> TRUE, show |-> guess[f], hand |-> FALSE, missing |-> FALSE]
      BY <1>1, <2>3 DEF Saved
    <3> QED BY <2>0, <2>3, <3>1 DEF LfRowRecord
  <2> QED BY <2>1, <2>2, <2>3
<1>5. LfShape'
  <2>1. lfRow' \in [LfFiles -> LfRowRecord]
    BY <1>1, <1>4
  <2> QED BY <1>2, <1>3, <2>1 DEF LfShape
<1>6. ASSUME NEW f \in LfFiles, f \notin lfScan.found, GoneOrOut(f)
      PROVE  GoneOrOut(f)'
  BY <1>2, <1>6 DEF GoneOrOut
<1>7. ScanWithin' /\ WalkedIsWhole'
  BY <1>3, <1>6 DEF ScanWithin, WalkedIsWhole
<1>8. OutsideIsOut' /\ Uncrossed'
  BY <1>2, <1>3, <1>6 DEF ScanWithin, OutsideIsOut, Uncrossed
<1>9. AbsentIsGone'
  BY <1>2 DEF AbsentIsGone, Away
<1>10. MissingWasGone'
  BY <1>2, <1>4, <1>6 DEF MissingWasGone, GoneOrOut
<1>11. HandOutlives'
  BY <1>2, <1>4 DEF HandOutlives
<1>12. Retired'
  <2> SUFFICES ASSUME ~lfCrossed, NEW f \in LfFiles, lfRow'[f].on, LfHome[f] \notin lfRoots
               PROVE  lfRow'[f].missing
    BY <1>2 DEF Retired
  <2>1. f \notin lfScan.found
    BY <1>2 DEF Uncrossed, ScanWithin
  <2> QED BY <1>4, <2>1 DEF Retired
<1> QED BY <1>5, <1>7, <1>8, <1>9, <1>10, <1>11, <1>12

LEMMA SweepLocalKeeps ==
  ASSUME LfInv, SweepLocal
  PROVE  LfInv'
<1>. USE DEF LfInv
<1> DEFINE F == Under(lfScan.walked \ lfScan.lost) \ lfScan.found
<1>1. /\ lfRow' = Flagged(F) /\ lfScan' = [lfScan EXCEPT !.pc = "outside"] /\ lfScan \in LfScanRecord
      /\ lfScan.pc = "sweep"
      /\ UNCHANGED <<lfRoots, lfDisk, lfDrive, lfHand, lfGone, lfCrossed>>
  BY DEF SweepLocal, LfShape
<1>2. /\ lfScan' \in LfScanRecord /\ lfScan'.pc = "outside" /\ lfScan'.roots = lfScan.roots
      /\ lfScan'.todo = lfScan.todo /\ lfScan'.found = lfScan.found /\ lfScan'.walked = lfScan.walked
      /\ lfScan'.lost = lfScan.lost
  BY <1>1 DEF LfScanRecord
<1>3. \A f \in LfFiles : f \in F => GoneOrOut(f)'
  BY <1>1 DEF WalkedIsWhole, GoneOrOut, Under
<1> HIDE DEF F
<1>4. lfRow' \in [LfFiles -> LfRowRecord] /\ MissingWasGone' /\ HandOutlives' /\ (lfCrossed \/ Retired')
  BY <1>1, <1>3, FlagsKeep
<1>5. Retired'
  BY <1>1, <1>4 DEF Retired
<1>6. LfShape' /\ ScanWithin' /\ AbsentIsGone'
  BY <1>1, <1>2, <1>4 DEF LfShape, ScanWithin, AbsentIsGone
<1>7. WalkedIsWhole' /\ OutsideIsOut' /\ Uncrossed'
  BY <1>1, <1>2 DEF WalkedIsWhole, OutsideIsOut, Uncrossed, GoneOrOut
<1> QED BY <1>4, <1>5, <1>6, <1>7

\* The scan is over: nothing is left of it.
LEMMA ScanOver ==
  ASSUME LfInv, lfScan' = NoScan
  PROVE  lfScan' \in LfScanRecord /\ ScanWithin' /\ WalkedIsWhole' /\ OutsideIsOut' /\ Uncrossed'
<1>1. /\ lfScan' \in LfScanRecord /\ lfScan'.pc = "idle" /\ lfScan'.todo = {} /\ lfScan'.walked = {}
      /\ lfScan'.found = {} /\ lfScan'.lost = {} /\ lfScan'.roots = {}
  BY DEF NoScan, LfScanRecord
<1> QED BY <1>1 DEF ScanWithin, WalkedIsWhole, OutsideIsOut, Uncrossed

LEMMA SweepOutsideKeeps ==
  ASSUME LfInv, SweepOutside
  PROVE  LfInv'
<1>. USE DEF LfInv
<1> DEFINE F == Under(LfRoots \ (lfScan.roots \ lfScan.lost))
<1>1. /\ lfRow' = Flagged(F) /\ lfScan' = NoScan /\ lfCrossed' = (lfScan.roots # lfRoots) /\ lfScan.pc = "outside"
      /\ UNCHANGED <<lfRoots, lfDisk, lfDrive, lfHand, lfGone>>
  BY DEF SweepOutside
<1>2. lfScan' \in LfScanRecord /\ ScanWithin' /\ WalkedIsWhole' /\ OutsideIsOut' /\ Uncrossed'
  BY <1>1, ScanOver
<1>3. \A f \in LfFiles : f \in F => GoneOrOut(f)' \/ LfHome[f] \in LfLinked
  BY <1>1 DEF OutsideIsOut, ScanWithin, GoneOrOut, Under
<1>4. /\ lfRow' \in [LfFiles -> LfRowRecord]
      /\ \A f \in LfFiles : /\ lfRow'[f].on = lfRow[f].on /\ lfRow'[f].show = lfRow[f].show
                            /\ lfRow'[f].hand = lfRow[f].hand
                            /\ lfRow'[f].missing <=> lfRow[f].missing \/ (f \in F /\ lfRow[f].on)
  <2> HIDE DEF F
  <2> QED BY <1>1, FlaggedIs DEF LfShape
<1>5. Retired'
  <2> SUFFICES ASSUME ~lfCrossed', NEW f \in LfFiles, lfRow'[f].on, LfHome[f] \notin lfRoots
               PROVE  lfRow'[f].missing
    BY <1>1 DEF Retired
  <2>1. f \in F
    BY <1>1, LfAssumption DEF Under
  <2> HIDE DEF F
  <2> QED BY <1>4, <2>1
<1> HIDE DEF F
<1>6. MissingWasGone'
  BY <1>1, <1>3, <1>4 DEF MissingWasGone, GoneOrOut
<1>7. HandOutlives'
  BY <1>1, <1>4 DEF HandOutlives
<1>8. LfShape' /\ AbsentIsGone'
  BY <1>1, <1>2, <1>4 DEF LfShape, AbsentIsGone
<1> QED BY <1>2, <1>5, <1>6, <1>7, <1>8

LEMMA ScanFailsKeeps ==
  ASSUME LfInv, ScanFails
  PROVE  LfInv'
<1>. USE DEF LfInv
<1>1. lfScan' = NoScan /\ UNCHANGED <<lfRoots, lfDisk, lfDrive, lfRow, lfHand, lfGone, lfCrossed>>
  BY DEF ScanFails
<1>2. lfScan' \in LfScanRecord /\ ScanWithin' /\ WalkedIsWhole' /\ OutsideIsOut' /\ Uncrossed'
  BY <1>1, ScanOver
<1>3. LfShape' /\ AbsentIsGone' /\ MissingWasGone' /\ HandOutlives' /\ Retired'
  BY <1>1, <1>2 DEF LfShape, AbsentIsGone, MissingWasGone, HandOutlives, Retired
<1> QED BY <1>2, <1>3

\* What lies under a folder that is new, or no longer there, counts as gone.
LEMMA SetLibraryPathsKeeps ==
  ASSUME LfInv, NEW R \in SUBSET LfRoots, SetLibraryPaths(R)
  PROVE  LfInv'
<1>. USE DEF LfInv
<1> DEFINE F == Under(LfRoots \ (R \ LfLinked))
<1>1. /\ lfRow' = Flagged(F) /\ lfRoots' = R /\ lfGone' = lfGone \cup Under(LfRoots \ (R \cap lfRoots))
      /\ lfCrossed' = (lfCrossed \/ lfScan.pc # "idle")
      /\ UNCHANGED <<lfDisk, lfDrive, lfScan, lfHand>>
  BY DEF SetLibraryPaths
<1>2. ASSUME NEW f \in LfFiles, GoneOrOut(f) PROVE GoneOrOut(f)'
  BY <1>1, <1>2, LfAssumption DEF GoneOrOut, Under
<1>3. \A f \in LfFiles : f \in F => LfHome[f] \notin R \/ LfHome[f] \in LfLinked
  BY DEF Under
<1>4. \A f \in LfFiles : LfHome[f] \notin R => f \in F
  BY LfAssumption DEF Under
<1>5. /\ lfRow' \in [LfFiles -> LfRowRecord]
      /\ \A f \in LfFiles : /\ lfRow'[f].on = lfRow[f].on /\ lfRow'[f].show = lfRow[f].show
                            /\ lfRow'[f].hand = lfRow[f].hand
                            /\ lfRow'[f].missing <=> lfRow[f].missing \/ (f \in F /\ lfRow[f].on)
  <2> HIDE DEF F
  <2> QED BY <1>1, FlaggedIs DEF LfShape
<1> HIDE DEF F
<1>6. MissingWasGone'
  <2> SUFFICES ASSUME NEW f \in LfFiles, lfRow'[f].on, lfRow'[f].missing, LfHome[f] \notin LfLinked
               PROVE  GoneOrOut(f)'
    BY DEF MissingWasGone, GoneOrOut
  <2>1. CASE f \in F
    BY <1>1, <1>3, <2>1 DEF GoneOrOut
  <2>2. CASE f \notin F
    BY <1>2, <1>5, <2>2 DEF MissingWasGone, GoneOrOut
  <2> QED BY <2>1, <2>2
<1>7. HandOutlives'
  BY <1>1, <1>5 DEF HandOutlives
<1>8. Retired'
  BY <1>1, <1>4, <1>5 DEF Retired
<1>9. WalkedIsWhole' /\ OutsideIsOut' /\ Uncrossed' /\ ScanWithin'
  BY <1>1, <1>2 DEF WalkedIsWhole, OutsideIsOut, Uncrossed, ScanWithin
<1>10. LfShape'
  <2>1. lfCrossed' \in BOOLEAN
    BY <1>1 DEF LfShape
  <2> QED BY <1>1, <1>5, <2>1 DEF LfShape
<1>11. AbsentIsGone'
  BY <1>1 DEF AbsentIsGone
<1> QED BY <1>6, <1>7, <1>8, <1>9, <1>10, <1>11

LEMMA ForgetMissingKeeps ==
  ASSUME LfInv, ForgetMissing
  PROVE  LfInv'
<1>. USE DEF LfInv
<1>1. /\ lfRow' = [f \in LfFiles |-> IF lfRow[f].missing THEN NoFile ELSE lfRow[f]]
      /\ lfHand' = [f \in LfFiles |-> IF lfRow[f].missing THEN Nothing ELSE lfHand[f]]
      /\ UNCHANGED <<lfRoots, lfDisk, lfDrive, lfScan, lfGone, lfCrossed>>
  BY DEF ForgetMissing
<1>2. NoFile \in LfRowRecord /\ NoFile.on = FALSE /\ NoFile.missing = FALSE
  BY DEF NoFile, LfRowRecord
<1>3. lfRow' \in [LfFiles -> LfRowRecord] /\ lfHand' \in [LfFiles -> Int]
  BY <1>1, <1>2 DEF LfShape, Nothing
<1>4. LfShape' /\ ScanWithin' /\ AbsentIsGone' /\ WalkedIsWhole' /\ OutsideIsOut' /\ Uncrossed'
  BY <1>1, <1>3 DEF LfShape, ScanWithin, AbsentIsGone, WalkedIsWhole, OutsideIsOut, Uncrossed, GoneOrOut
<1>5. MissingWasGone' /\ Retired'
  BY <1>1, <1>2 DEF MissingWasGone, Retired
<1>6. HandOutlives'
  BY <1>1 DEF HandOutlives
<1> QED BY <1>4, <1>5, <1>6

LEMMA AssignKeeps ==
  ASSUME LfInv, NEW f \in LfFiles, NEW s \in ByHand, AssignLocalFile(f, s)
  PROVE  LfInv'
<1>. USE DEF LfInv
<1> DEFINE x == [lfRow[f] EXCEPT !.show = s, !.hand = TRUE]
<1>1. lfRow[f] \in LfRowRecord /\ lfRow \in [LfFiles -> LfRowRecord] /\ lfHand \in [LfFiles -> Int] /\ s \in Int
  BY DEF LfShape, ByHand
<1>2. /\ x \in LfRowRecord /\ x.on = lfRow[f].on /\ x.missing = lfRow[f].missing /\ x.hand = TRUE /\ x.show = s
  BY <1>1 DEF LfRowRecord
<1>3. /\ lfRow' = [lfRow EXCEPT ![f] = x] /\ lfHand' = [lfHand EXCEPT ![f] = s]
      /\ UNCHANGED <<lfRoots, lfDisk, lfDrive, lfScan, lfGone, lfCrossed>>
  BY DEF AssignLocalFile
<1> HIDE DEF x
<1>4. /\ lfRow' \in [LfFiles -> LfRowRecord] /\ lfHand' \in [LfFiles -> Int] /\ lfRow'[f] = x /\ lfHand'[f] = s
      /\ \A g \in LfFiles \ {f} : lfRow'[g] = lfRow[g] /\ lfHand'[g] = lfHand[g]
  BY <1>1, <1>2, <1>3
<1>5. LfShape' /\ ScanWithin' /\ AbsentIsGone' /\ WalkedIsWhole' /\ OutsideIsOut' /\ Uncrossed'
  BY <1>3, <1>4 DEF LfShape, ScanWithin, AbsentIsGone, WalkedIsWhole, OutsideIsOut, Uncrossed, GoneOrOut
<1>6. MissingWasGone' /\ Retired'
  BY <1>2, <1>3, <1>4 DEF MissingWasGone, Retired
<1>7. HandOutlives'
  BY <1>2, <1>4 DEF HandOutlives
<1> QED BY <1>5, <1>6, <1>7

LEMMA LocalCopyKeeps ==
  ASSUME LfInv, NEW f \in LfFiles, LocalCopy(f)
  PROVE  LfInv'
<1>. USE DEF LfInv
<1>1. /\ lfRow' = Flagged({f}) /\ lfGone' = lfGone \cup {f}
      /\ UNCHANGED <<lfRoots, lfDisk, lfDrive, lfScan, lfHand, lfCrossed>>
  BY DEF LocalCopy
<1>2. lfRow' \in [LfFiles -> LfRowRecord] /\ MissingWasGone' /\ HandOutlives' /\ (lfCrossed \/ Retired')
  <2>1. \A g \in LfFiles : g \in {f} => GoneOrOut(g)' \/ LfHome[g] \in LfLinked
    BY <1>1 DEF GoneOrOut
  <2> QED BY <1>1, <2>1, FlagsKeep
<1>3. Retired'
  BY <1>1, <1>2 DEF Retired
<1>4. LfShape' /\ ScanWithin' /\ AbsentIsGone' /\ WalkedIsWhole' /\ OutsideIsOut' /\ Uncrossed'
  BY <1>1, <1>2 DEF LfShape, ScanWithin, AbsentIsGone, WalkedIsWhole, OutsideIsOut, Uncrossed, GoneOrOut
<1> QED BY <1>2, <1>3, <1>4

\* The disk: what goes, or comes back as another, counts as gone until a scan records it.
LEMMA DiskKeeps ==
  ASSUME LfInv,
         \/ \E f \in LfFiles : FileChanges(f) \/ FolderLocks(f)
         \/ \E r \in LfRoots, how \in {"in", "gone", "empty"} : DriveChanges(r, how)
         \/ UNCHANGED lfVars
  PROVE  LfInv'
<1>. USE DEF LfInv
<1>1. UNCHANGED <<lfRoots, lfRow, lfScan, lfHand, lfCrossed>> /\ lfGone \subseteq lfGone'
  BY DEF FileChanges, FolderLocks, DriveChanges, lfVars
<1>2. /\ ScanWithin' /\ WalkedIsWhole' /\ OutsideIsOut' /\ Uncrossed' /\ MissingWasGone' /\ HandOutlives' /\ Retired'
  BY <1>1 DEF ScanWithin, WalkedIsWhole, OutsideIsOut, Uncrossed, MissingWasGone, HandOutlives, Retired, GoneOrOut
<1>3. CASE UNCHANGED <<lfDisk, lfDrive>>
  BY <1>1, <1>2, <1>3 DEF LfShape, AbsentIsGone
<1>4. ASSUME NEW f \in LfFiles, FileChanges(f) PROVE LfInv'
  <2>1. lfDrive' = lfDrive /\ lfGone' = lfGone \cup {f} /\ \A g \in LfFiles \ {f} : g \in lfDisk' <=> g \in lfDisk
    BY <1>4 DEF FileChanges
  <2> QED BY <1>1, <1>2, <2>1 DEF LfShape, AbsentIsGone
<1>5. ASSUME NEW r \in LfRoots, NEW how \in {"in", "gone", "empty"}, DriveChanges(r, how) PROVE LfInv'
  <2>1. /\ lfDisk' = lfDisk /\ lfDrive' = [lfDrive EXCEPT ![r] = how] /\ lfDrive \in [LfRoots -> {"in", "gone", "empty"}]
        /\ how = "empty" => Under({r}) \subseteq lfGone'
    BY <1>5 DEF DriveChanges, LfShape
  <2>2. LfShape'
    BY <1>1, <2>1 DEF LfShape
  <2>3. AbsentIsGone'
    <3> SUFFICES ASSUME NEW f \in LfFiles, f \notin lfDisk \/ lfDrive'[LfHome[f]] = "empty"
                 PROVE  f \in lfGone'
      BY <2>1 DEF AbsentIsGone
    <3>1. LfHome[f] \in LfRoots
      BY LfAssumption
    <3>2. CASE LfHome[f] = r /\ how = "empty"
      BY <2>1, <3>2 DEF Under
    <3>3. CASE ~(LfHome[f] = r /\ how = "empty")
      BY <1>1, <2>1, <3>1, <3>3 DEF AbsentIsGone
    <3> QED BY <3>2, <3>3
  <2> QED BY <1>2, <2>2, <2>3
<1>6. (\E f \in LfFiles : FolderLocks(f)) \/ UNCHANGED lfVars => UNCHANGED <<lfDisk, lfDrive>>
  BY DEF FolderLocks, lfVars
<1> QED BY <1>3, <1>4, <1>5, <1>6

LEMMA LfInitInv == LfInit => LfInv
<1> SUFFICES ASSUME LfInit PROVE LfInv
  OBVIOUS
<1>1. /\ NoScan \in LfScanRecord /\ NoScan.pc = "idle" /\ NoScan.todo = {} /\ NoScan.walked = {}
      /\ NoScan.found = {} /\ NoScan.lost = {} /\ NoScan.roots = {}
  BY DEF NoScan, LfScanRecord
<1>2. NoFile \in LfRowRecord /\ NoFile.on = FALSE /\ NoFile.missing = FALSE
  BY DEF NoFile, LfRowRecord
<1>3. /\ lfRoots = LfRoots /\ lfDisk = LfFiles /\ lfDrive = [r \in LfRoots |-> "in"] /\ lfRow = [f \in LfFiles |-> NoFile]
      /\ lfScan = NoScan /\ lfHand = [f \in LfFiles |-> Nothing] /\ lfCrossed = FALSE
  BY DEF LfInit
<1>4. LfShape
  <2>1. lfRow \in [LfFiles -> LfRowRecord] /\ lfDrive \in [LfRoots -> {"in", "gone", "empty"}]
    BY <1>2, <1>3
  <2>2. lfHand \in [LfFiles -> Int]
    BY <1>3 DEF Nothing
  <2>3. lfCrossed \in BOOLEAN /\ lfRoots \subseteq LfRoots /\ lfScan \in LfScanRecord
    BY <1>1, <1>3
  <2> QED BY <2>1, <2>2, <2>3 DEF LfShape
<1>5. ScanWithin /\ WalkedIsWhole /\ OutsideIsOut /\ Uncrossed
  BY <1>1, <1>3 DEF ScanWithin, WalkedIsWhole, OutsideIsOut, Uncrossed
<1>6. AbsentIsGone /\ MissingWasGone /\ HandOutlives /\ Retired
  BY <1>2, <1>3, LfAssumption DEF AbsentIsGone, MissingWasGone, HandOutlives, Retired
<1> QED BY <1>4, <1>5, <1>6 DEF LfInv

(* scan.go, local.go: what a scan has read to the end without finding is away, whatever happened
   to disk and folders since; rows, hand assignments and folders agree.  Inductive. *)
THEOREM LocalInvariant == LfSpec => []LfInv
<1>1. ASSUME LfInv, [LfNext]_lfVars PROVE LfInv'
  BY <1>1, ScanStartsKeeps, WalkRootKeeps, SaveLocalFilesKeeps, SweepLocalKeeps, SweepOutsideKeeps, ScanFailsKeeps,
     SetLibraryPathsKeeps, ForgetMissingKeeps, AssignKeeps, LocalCopyKeeps, DiskKeeps DEF LfNext
<1> QED BY <1>1, LfInitInv, PTL DEF LfSpec

(* scan.go, store/local.go, server/local.go: for any files and folders, only a file that was away
   is flagged missing (links aside), what a person assigned stays assigned until it is forgotten,
   and a folder taken out takes its files with it. *)
THEOREM LocalStaysSafe == LfSpec => []LocalSafe
<1>1. LfInv => LocalSafe
  BY DEF LfInv, LocalSafe, TakenOutIsRetired, Retired
<1> QED BY <1>1, LocalInvariant, PTL

-----------------------------------------------------------------------------
(* News of releases: told once, and what was found is queued.              *)

RwPollRecord == [pc : {"idle", "find", "tell", "record", "queue"}, ep : RwEpisodes \cup {0}, notify : BOOLEAN,
                 auto : BOOLEAN, any : BOOLEAN, announce : RwReleases \cup {0}, fetch : RwReleases \cup {0}]
RwShape ==
  /\ rwNext \in [ep : RwEpisodes, aired : BOOLEAN] /\ rwProgress \in Nat /\ rwOut \subseteq RwReleases
  /\ rwPref \in [notify : BOOLEAN, auto : BOOLEAN, any : BOOLEAN]
  /\ rwRecord \in [RwReleases -> RwEpisodes \cup {0}] /\ rwTold \in [RwEpisodes -> Nat]
  /\ rwPoll \in [Pollers -> RwPollRecord] /\ rwCrossed \in BOOLEAN /\ rwLost \in BOOLEAN
\* A poll under way is at an episode, and knows the release it tells of.
RwBusy(x) ==
  /\ x.pc # "idle" => x.ep \in RwEpisodes
  /\ x.pc = "tell" => x.fetch \in RwReleases
  /\ x.pc = "record" => x.announce \in RwReleases
RwBusyAll == \A p \in Pollers : RwBusy(rwPoll[p])
RwAlone == ~rwCrossed => \A p, q \in Pollers : rwPoll[p].pc # "idle" /\ rwPoll[q].pc # "idle" => p = q
\* What is owed is queued, or the poll that owes it is still at it.
RwOwes(x, e) == x.pc \in {"tell", "record", "queue"} /\ x.auto /\ x.ep = e
RwOwedKept == ~rwLost => \A e \in rwOwed : e \in rwQueue \/ \E p \in Pollers : RwOwes(rwPoll[p], e)
\* A poll by itself: nothing of its episode is told or recorded before it does so.
RwFresh(x, said, record) ==
  /\ x.pc \in {"find", "tell"} => said[x.ep] = 0 /\ \A t \in RwReleases : record[t] # x.ep
  /\ x.pc = "tell" => record[x.fetch] = 0 /\ (x.announce # 0 => record[x.announce] = 0)
  /\ x.pc = "record" => record[x.announce] = 0
RwNews ==
  ~rwCrossed /\ ~rwLost =>
    /\ \A e \in RwEpisodes : rwTold[e] <= 1
    /\ \A e \in RwEpisodes : rwTold[e] > 0 =>
         \/ \E t \in RwReleases : rwRecord[t] = e
         \/ \E p \in Pollers : rwPoll[p].pc = "record" /\ rwPoll[p].ep = e
    /\ \A p \in Pollers : RwFresh(rwPoll[p], rwTold, rwRecord)
RwInv == RwShape /\ RwBusyAll /\ RwAlone /\ RwOwedKept /\ RwNews

\* Nobody polls.
LEMMA RwIdles ==
  /\ RwIdle \in RwPollRecord /\ RwIdle.pc = "idle"
  BY DEF RwIdle, RwPollRecord

\* Episodes are numbered from one.
LEMMA RwNumbers ==
  /\ RwEpisodes \subseteq Nat \ {0}
  /\ \A e \in RwEpisodes : e - 1 \in RwEpisodes \cup {0}
  /\ 1 \in RwEpisodes /\ 0 \notin RwEpisodes
<1>1. PICK n \in Nat \ {0} : RwEpisodes = 1 .. n
  BY RwAssumption
<1> QED BY <1>1

\* One poller becomes x; the rest stay.
LEMMA RwBecomes ==
  ASSUME RwInv, NEW p \in Pollers, NEW x \in RwPollRecord, rwPoll' = [rwPoll EXCEPT ![p] = x]
  PROVE  /\ rwPoll' \in [Pollers -> RwPollRecord] /\ rwPoll'[p] = x
         /\ \A q \in Pollers \ {p} : rwPoll'[q] = rwPoll[q]
  BY DEF RwInv, RwShape

\* A step of a poll that is under way: of the rest of the pollers nothing changes, so what one
\* has to show is about the poll itself.
LEMMA RwPollSteps ==
  ASSUME RwInv, NEW p \in Pollers, NEW x \in RwPollRecord, rwPoll' = [rwPoll EXCEPT ![p] = x],
         rwPoll[p].pc # "idle", RwBusy(x), rwCrossed' = rwCrossed, rwLost' = rwLost,
         rwQueue \subseteq rwQueue',
         \A e \in rwOwed' : e \in rwOwed \/ RwOwes(x, e),
         \A e : RwOwes(rwPoll[p], e) => RwOwes(x, e) \/ e \in rwQueue'
  PROVE  /\ rwPoll' \in [Pollers -> RwPollRecord] /\ RwBusyAll' /\ RwAlone' /\ RwOwedKept'
<1>1. /\ rwPoll' \in [Pollers -> RwPollRecord] /\ rwPoll'[p] = x
      /\ \A q \in Pollers \ {p} : rwPoll'[q] = rwPoll[q]
  BY RwBecomes
<1>2. RwBusyAll'
  BY <1>1 DEF RwInv, RwBusyAll, RwBusy
<1>3. RwAlone'
  BY <1>1 DEF RwInv, RwAlone
<1>4. RwOwedKept'
  <2> SUFFICES ASSUME ~rwLost, NEW e \in rwOwed' PROVE e \in rwQueue' \/ \E q \in Pollers : RwOwes(rwPoll'[q], e)
    BY DEF RwOwedKept, RwOwes
  <2>1. CASE RwOwes(x, e)
    BY <1>1, <2>1
  <2>2. CASE e \in rwOwed /\ e \in rwQueue
    BY <2>2
  <2>3. ASSUME NEW q \in Pollers, RwOwes(rwPoll[q], e)
        PROVE  e \in rwQueue' \/ \E r \in Pollers : RwOwes(rwPoll'[r], e)
    <3>1. CASE q = p
      BY <1>1, <2>3, <3>1
    <3>2. CASE q # p
      BY <1>1, <2>3, <3>2
    <3> QED BY <3>1, <3>2
  <2>4. e \in rwOwed \/ RwOwes(x, e)
    OBVIOUS
  <2> QED BY <2>1, <2>2, <2>3, <2>4 DEF RwInv, RwOwedKept
<1> QED BY <1>1, <1>2, <1>3, <1>4

\* ... and while it is alone, the news it may change are its own.
LEMMA RwNewsSteps ==
  ASSUME RwInv, NEW p \in Pollers, NEW x \in RwPollRecord, rwPoll' = [rwPoll EXCEPT ![p] = x],
         rwPoll[p].pc # "idle", rwCrossed' = rwCrossed, rwLost' = rwLost,
         ~rwCrossed /\ ~rwLost =>
           /\ \A e \in RwEpisodes : rwTold'[e] <= 1
           /\ \A e \in RwEpisodes : rwTold'[e] > 0 =>
                (\E t \in RwReleases : rwRecord'[t] = e) \/ (x.pc = "record" /\ x.ep = e)
           /\ RwFresh(x, rwTold', rwRecord')
  PROVE  RwNews'
<1>1. /\ rwPoll' \in [Pollers -> RwPollRecord] /\ rwPoll'[p] = x
      /\ \A q \in Pollers \ {p} : rwPoll'[q] = rwPoll[q]
  BY RwBecomes
<1> SUFFICES ASSUME ~rwCrossed, ~rwLost
             PROVE  /\ \A e \in RwEpisodes : rwTold'[e] <= 1
                    /\ \A e \in RwEpisodes : rwTold'[e] > 0 =>
                         \/ \E t \in RwReleases : rwRecord'[t] = e
                         \/ \E q \in Pollers : rwPoll'[q].pc = "record" /\ rwPoll'[q].ep = e
                    /\ \A q \in Pollers : RwFresh(rwPoll'[q], rwTold', rwRecord')
  BY DEF RwNews
<1>2. \A q \in Pollers \ {p} : rwPoll'[q].pc = "idle"
  BY <1>1 DEF RwInv, RwAlone
<1>3. \A q \in Pollers : RwFresh(rwPoll'[q], rwTold', rwRecord')
  <2> SUFFICES ASSUME NEW q \in Pollers PROVE RwFresh(rwPoll'[q], rwTold', rwRecord')
    OBVIOUS
  <2>1. CASE q = p
    BY <1>1, <2>1 DEF RwFresh
  <2>2. CASE q # p
    BY <1>2, <2>2 DEF RwFresh
  <2> QED BY <2>1, <2>2
<1> QED BY <1>1, <1>3

LEMMA PollStartsKeeps ==
  ASSUME RwInv, NEW p \in Pollers, PollStarts(p)
  PROVE  RwInv'
<1>. USE DEF RwInv
<1> DEFINE x == [RwIdle EXCEPT !.pc = "find", !.ep = Latest, !.notify = rwPref.notify, !.auto = rwPref.auto,
                               !.any = rwPref.any]
<1>1. /\ rwPoll[p].pc = "idle" /\ Latest > rwProgress /\ \A u \in RwReleases : rwRecord[u] # Latest
      /\ rwCrossed' = (rwCrossed \/ \E q \in Pollers \ {p} : rwPoll[q].pc # "idle")
      /\ UNCHANGED <<rwNext, rwProgress, rwOut, rwPref, rwRecord, rwTold, rwQueue, rwOwed, rwLost>>
  BY DEF PollStarts
<1>2. Latest \in RwEpisodes
  <2>1. rwNext.ep \in RwEpisodes /\ rwProgress \in Nat
    BY DEF RwShape
  <2> DEFINE n == rwNext.ep
  <2>2. Latest = n \/ Latest = n - 1
    BY DEF Latest
  <2>3. Latest \in RwEpisodes \cup {0}
    BY <2>1, <2>2, RwNumbers
  <2>4. Latest # 0
    <3> HIDE DEF Latest
    <3> QED BY <1>1, <2>1, <2>3
  <2> QED BY <2>3, <2>4
<1>3. x \in RwPollRecord /\ x.pc = "find" /\ x.ep = Latest
  <2> HIDE DEF Latest
  <2>1. rwPref.notify \in BOOLEAN /\ rwPref.auto \in BOOLEAN /\ rwPref.any \in BOOLEAN
    BY DEF RwShape
  <2> QED BY <1>2, <2>1, RwIdles DEF RwPollRecord
<1>4. rwPoll' = [rwPoll EXCEPT ![p] = x]
  BY DEF PollStarts
<1> HIDE DEF x
<1>5. /\ rwPoll' \in [Pollers -> RwPollRecord] /\ rwPoll'[p] = x
      /\ \A q \in Pollers \ {p} : rwPoll'[q] = rwPoll[q]
  BY <1>3, <1>4, RwBecomes
<1>6. RwShape'
  <2>1. rwCrossed' \in BOOLEAN
    BY <1>1 DEF RwShape
  <2> QED BY <1>1, <1>5, <2>1 DEF RwShape
<1>7. RwBusyAll'
  BY <1>2, <1>3, <1>5 DEF RwBusyAll, RwBusy
<1>8. RwAlone'
  <2> SUFFICES ASSUME ~rwCrossed', NEW q \in Pollers, NEW r \in Pollers,
                      rwPoll'[q].pc # "idle", rwPoll'[r].pc # "idle"
               PROVE  q = r
    BY DEF RwAlone
  <2>1. \A s \in Pollers \ {p} : rwPoll[s].pc = "idle"
    BY <1>1
  <2>2. q = p /\ r = p
    BY <1>5, <2>1
  <2> QED BY <2>2
<1>9. RwOwedKept'
  <2> SUFFICES ASSUME ~rwLost, NEW e \in rwOwed, e \notin rwQueue
               PROVE  \E q \in Pollers : RwOwes(rwPoll'[q], e)
    BY <1>1 DEF RwOwedKept, RwOwes
  <2>1. PICK q \in Pollers : RwOwes(rwPoll[q], e)
    BY DEF RwOwedKept
  <2>2. q # p
    BY <1>1, <2>1 DEF RwOwes
  <2> QED BY <1>5, <2>1, <2>2
<1>10. RwNews'
  <2> SUFFICES ASSUME ~rwCrossed', ~rwLost
               PROVE  /\ \A e \in RwEpisodes : rwTold[e] <= 1
                      /\ \A e \in RwEpisodes : rwTold[e] > 0 =>
                           \/ \E t \in RwReleases : rwRecord[t] = e
                           \/ \E q \in Pollers : rwPoll'[q].pc = "record" /\ rwPoll'[q].ep = e
                      /\ \A q \in Pollers : RwFresh(rwPoll'[q], rwTold, rwRecord)
    BY <1>1 DEF RwNews, RwFresh
  <2>1. ~rwCrossed /\ \A q \in Pollers : rwPoll[q].pc = "idle"
    BY <1>1
  <2>2. rwTold[Latest] = 0
    <3>1. rwTold[Latest] \in Nat /\ ~(rwTold[Latest] > 0)
      <4> HIDE DEF Latest
      <4> QED BY <1>1, <1>2, <2>1 DEF RwNews, RwShape
    <3> QED BY <3>1
  <2>3. \A q \in Pollers : RwFresh(rwPoll'[q], rwTold, rwRecord)
    <3> HIDE DEF Latest
    <3> SUFFICES ASSUME NEW q \in Pollers PROVE RwFresh(rwPoll'[q], rwTold, rwRecord)
      OBVIOUS
    <3>1. CASE q = p
      BY <1>1, <1>3, <1>5, <2>2, <3>1 DEF RwFresh
    <3>2. CASE q # p
      BY <1>5, <2>1, <3>2 DEF RwFresh
    <3> QED BY <3>1, <3>2
  <2> QED BY <2>1, <2>3 DEF RwNews
<1> QED BY <1>6, <1>7, <1>8, <1>9, <1>10

LEMMA FindKeeps ==
  ASSUME RwInv, NEW p \in Pollers, Find(p)
  PROVE  RwInv'
<1>. USE DEF RwInv
<1> DEFINE e == rwPoll[p].ep
           found == {t \in rwOut : e \in RwCovers[t] /\ ~AlreadyNotified(t, e)}
           wanted == {t \in found : rwPoll[p].any \/ t \notin RwDubbed}
<1>1. /\ rwPoll[p].pc = "find" /\ rwPoll[p] \in RwPollRecord /\ e \in RwEpisodes
      /\ UNCHANGED <<rwNext, rwProgress, rwOut, rwPref, rwRecord, rwTold, rwQueue, rwCrossed, rwLost>>
  BY DEF Find, RwShape, RwBusyAll, RwBusy
<1>2. \A t \in found : t \in RwReleases /\ rwRecord[t] = 0
  BY DEF RwShape, AlreadyNotified
<1>3. ~rwCrossed /\ ~rwLost => RwFresh(rwPoll[p], rwTold, rwRecord)
  BY DEF RwNews
<1>4. CASE found = {}
  <2>1. rwPoll' = [rwPoll EXCEPT ![p] = RwIdle] /\ rwOwed' = rwOwed
    BY <1>4 DEF Find
  <2>2. RwBusy(RwIdle) /\ (\A d : ~RwOwes(rwPoll[p], d)) /\ RwFresh(RwIdle, rwTold', rwRecord')
    BY <1>1, RwIdles DEF RwBusy, RwOwes, RwFresh
  <2>3. rwPoll' \in [Pollers -> RwPollRecord] /\ RwBusyAll' /\ RwAlone' /\ RwOwedKept'
    BY <1>1, <2>1, <2>2, RwIdles, RwPollSteps
  <2>4. RwNews'
    <3>1. ~rwCrossed /\ ~rwLost =>
            /\ \A d \in RwEpisodes : rwTold'[d] <= 1
            /\ \A d \in RwEpisodes : rwTold'[d] > 0 => \E t \in RwReleases : rwRecord'[t] = d
      BY <1>1 DEF RwNews, RwAlone
    <3> QED BY <1>1, <2>1, <2>2, <3>1, RwIdles, RwNewsSteps
  <2>5. RwShape'
    BY <1>1, <2>3 DEF RwShape
  <2> QED BY <2>3, <2>4, <2>5
<1>5. CASE found # {}
  <2>1. PICK fetch \in found, announce \in found \cup {0} :
          rwPoll' = [rwPoll EXCEPT ![p].pc = "tell", ![p].fetch = fetch,
                                   ![p].announce = IF rwPoll[p].notify THEN announce ELSE 0]
    BY <1>5 DEF Find
  <2>2. rwOwed' = IF rwPoll[p].auto THEN rwOwed \cup {e} ELSE rwOwed
    BY <1>5 DEF Find
  <2> DEFINE ann == IF rwPoll[p].notify THEN announce ELSE 0
             x == [rwPoll[p] EXCEPT !.pc = "tell", !.fetch = fetch, !.announce = ann]
  <2>3. ann \in RwReleases \cup {0} /\ fetch \in RwReleases /\ rwRecord[fetch] = 0 /\ (ann # 0 => rwRecord[ann] = 0)
    BY <1>2
  <2>4. rwPoll' = [rwPoll EXCEPT ![p] = x]
    BY <2>1 DEF RwShape
  <2> HIDE DEF found, wanted, ann
  <2>5. /\ x \in RwPollRecord /\ x.pc = "tell" /\ x.ep = e /\ x.fetch = fetch /\ x.announce = ann /\ x.auto = rwPoll[p].auto
    BY <1>1, <2>3 DEF RwPollRecord
  <2> HIDE DEF x
  <2>6. RwBusy(x) /\ (\A d : ~RwOwes(rwPoll[p], d)) /\ (rwPoll[p].auto => RwOwes(x, e))
    BY <1>1, <2>3, <2>5 DEF RwBusy, RwOwes
  <2>7. rwPoll' \in [Pollers -> RwPollRecord] /\ RwBusyAll' /\ RwAlone' /\ RwOwedKept'
    BY <1>1, <2>2, <2>4, <2>5, <2>6, RwPollSteps
  <2>8. RwNews'
    <3>1. ~rwCrossed /\ ~rwLost =>
            /\ \A d \in RwEpisodes : rwTold'[d] <= 1
            /\ \A d \in RwEpisodes : rwTold'[d] > 0 => \E t \in RwReleases : rwRecord'[t] = d
      BY <1>1 DEF RwNews, RwAlone
    <3>2. ~rwCrossed /\ ~rwLost => RwFresh(x, rwTold', rwRecord')
      BY <1>1, <1>3, <2>3, <2>5 DEF RwFresh
    <3> QED BY <1>1, <2>4, <2>5, <3>1, <3>2, RwNewsSteps
  <2>9. RwShape'
    BY <1>1, <2>7 DEF RwShape
  <2> QED BY <2>7, <2>8, <2>9
<1> QED BY <1>4, <1>5

\* A release is put on record under the episode, when it is on none.
LEMMA RecordedIs ==
  ASSUME RwInv, NEW t \in RwReleases, NEW e \in RwEpisodes
  PROVE  /\ Recorded(t, e) \in [RwReleases -> RwEpisodes \cup {0}]
         /\ rwRecord[t] = 0 => /\ Recorded(t, e)[t] = e
                               /\ \A u \in RwReleases \ {t} : Recorded(t, e)[u] = rwRecord[u]
  BY DEF RwInv, RwShape, Recorded

LEMMA TellKeeps ==
  ASSUME RwInv, NEW p \in Pollers, Tell(p)
  PROVE  RwInv'
<1>. USE DEF RwInv
<1> DEFINE e == rwPoll[p].ep
           y == rwPoll[p]
<1>1. /\ y.pc = "tell" /\ y \in RwPollRecord /\ e \in RwEpisodes /\ y.fetch \in RwReleases
      /\ UNCHANGED <<rwNext, rwProgress, rwOut, rwPref, rwQueue, rwOwed, rwCrossed, rwLost>>
      /\ rwTold \in [RwEpisodes -> Nat]
  BY DEF Tell, RwShape, RwBusyAll, RwBusy
<1>2. ~rwCrossed /\ ~rwLost => RwFresh(y, rwTold, rwRecord)
  BY DEF RwNews
<1>3. ~rwCrossed /\ ~rwLost =>
        /\ \A d \in RwEpisodes : rwTold[d] <= 1
        /\ \A d \in RwEpisodes : rwTold[d] > 0 => \E t \in RwReleases : rwRecord[t] = d
  BY <1>1 DEF RwNews, RwAlone
<1>4. CASE y.announce = 0
  <2> DEFINE x == [y EXCEPT !.pc = "queue"]
  <2>1. rwPoll' = [rwPoll EXCEPT ![p] = x] /\ rwTold' = rwTold /\ rwRecord' = Recorded(y.fetch, e)
    BY <1>4 DEF Tell
  <2>2. x \in RwPollRecord /\ x.pc = "queue" /\ x.ep = e /\ x.auto = y.auto
    BY <1>1 DEF RwPollRecord
  <2> HIDE DEF x
  <2>3. RwBusy(x) /\ (\A d : RwOwes(y, d) => RwOwes(x, d)) /\ RwFresh(x, rwTold', rwRecord')
    BY <1>1, <2>2 DEF RwBusy, RwOwes, RwFresh
  <2>4. rwPoll' \in [Pollers -> RwPollRecord] /\ RwBusyAll' /\ RwAlone' /\ RwOwedKept'
    BY <1>1, <2>1, <2>2, <2>3, RwPollSteps
  <2>5. rwRecord' \in [RwReleases -> RwEpisodes \cup {0}]
    BY <1>1, <2>1, RecordedIs
  <2>6. ~rwCrossed /\ ~rwLost => \A d \in RwEpisodes : rwTold'[d] > 0 => \E t \in RwReleases : rwRecord'[t] = d
    <3> SUFFICES ASSUME ~rwCrossed, ~rwLost, NEW d \in RwEpisodes, rwTold[d] > 0
                 PROVE  \E t \in RwReleases : rwRecord'[t] = d
      BY <2>1
    <3>1. PICK t \in RwReleases : rwRecord[t] = d
      BY <1>3
    <3>2. rwRecord[y.fetch] = 0 /\ t # y.fetch
      BY <1>1, <1>2, <3>1, RwNumbers DEF RwFresh
    <3>3. rwRecord'[t] = d
      BY <1>1, <2>1, <3>1, <3>2, RecordedIs
    <3> QED BY <3>3
  <2>7. RwNews'
    BY <1>1, <1>3, <2>1, <2>2, <2>3, <2>6, RwNewsSteps
  <2>8. RwShape'
    BY <1>1, <2>1, <2>4, <2>5 DEF RwShape
  <2> QED BY <2>4, <2>7, <2>8
<1>5. CASE y.announce # 0
  <2> DEFINE x == [y EXCEPT !.pc = "record"]
  <2>1. rwPoll' = [rwPoll EXCEPT ![p] = x] /\ rwTold' = [rwTold EXCEPT ![e] = rwTold[e] + 1] /\ rwRecord' = rwRecord
    BY <1>5 DEF Tell
  <2>2. x \in RwPollRecord /\ x.pc = "record" /\ x.ep = e /\ x.auto = y.auto /\ x.announce = y.announce
    BY <1>1 DEF RwPollRecord
  <2>3. y.announce \in RwReleases
    BY <1>1, <1>5 DEF RwPollRecord
  <2> HIDE DEF x
  <2>4. RwBusy(x) /\ (\A d : RwOwes(y, d) => RwOwes(x, d))
    BY <1>1, <2>2, <2>3 DEF RwBusy, RwOwes
  <2>5. rwPoll' \in [Pollers -> RwPollRecord] /\ RwBusyAll' /\ RwAlone' /\ RwOwedKept'
    BY <1>1, <2>1, <2>2, <2>4, RwPollSteps
  <2>6. /\ rwTold' \in [RwEpisodes -> Nat] /\ rwTold'[e] = rwTold[e] + 1
        /\ \A d \in RwEpisodes \ {e} : rwTold'[d] = rwTold[d]
    BY <1>1, <2>1
  <2>7. RwNews'
    <3>1. ~rwCrossed /\ ~rwLost => RwFresh(x, rwTold', rwRecord')
      BY <1>2, <1>5, <1>1, <2>1, <2>2 DEF RwFresh
    <3>2. ~rwCrossed /\ ~rwLost =>
            /\ \A d \in RwEpisodes : rwTold'[d] <= 1
            /\ \A d \in RwEpisodes : rwTold'[d] > 0 => (\E t \in RwReleases : rwRecord'[t] = d) \/ (x.pc = "record" /\ x.ep = d)
      <4> SUFFICES ASSUME ~rwCrossed, ~rwLost, NEW d \in RwEpisodes
                   PROVE  /\ rwTold'[d] <= 1
                          /\ rwTold'[d] > 0 => (\E t \in RwReleases : rwRecord'[t] = d) \/ (x.pc = "record" /\ x.ep = d)
        OBVIOUS
      <4>1. CASE d = e
        <5>1. rwTold[e] = 0
          BY <1>1, <1>2 DEF RwFresh
        <5> QED BY <2>2, <2>6, <4>1, <5>1
      <4>2. CASE d # e
        BY <1>3, <2>1, <2>6, <4>2
      <4> QED BY <4>1, <4>2
    <3> QED BY <1>1, <2>1, <2>2, <3>1, <3>2, RwNewsSteps
  <2>8. RwShape'
    BY <1>1, <2>1, <2>5, <2>6 DEF RwShape
  <2> QED BY <2>5, <2>7, <2>8
<1> QED BY <1>4, <1>5

LEMMA RecordNotifiedKeeps ==
  ASSUME RwInv, NEW p \in Pollers, RecordNotified(p)
  PROVE  RwInv'
<1>. USE DEF RwInv
<1> DEFINE e == rwPoll[p].ep
           y == rwPoll[p]
           x == [y EXCEPT !.pc = "queue"]
<1>1. /\ y.pc = "record" /\ y \in RwPollRecord /\ e \in RwEpisodes /\ y.announce \in RwReleases
      /\ UNCHANGED <<rwNext, rwProgress, rwOut, rwPref, rwTold, rwQueue, rwOwed, rwCrossed, rwLost>>
      /\ rwPoll' = [rwPoll EXCEPT ![p] = x] /\ rwRecord' = Recorded(y.announce, e)
  BY DEF RecordNotified, RwShape, RwBusyAll, RwBusy
<1>2. ~rwCrossed /\ ~rwLost => RwFresh(y, rwTold, rwRecord)
  BY DEF RwNews
<1>3. ~rwCrossed /\ ~rwLost =>
        /\ \A d \in RwEpisodes : rwTold[d] <= 1
        /\ \A d \in RwEpisodes : rwTold[d] > 0 => d = e \/ \E t \in RwReleases : rwRecord[t] = d
  BY <1>1 DEF RwNews, RwAlone
<1>4. x \in RwPollRecord /\ x.pc = "queue" /\ x.ep = e /\ x.auto = y.auto
  BY <1>1 DEF RwPollRecord
<1> HIDE DEF x
<1>5. RwBusy(x) /\ (\A d : RwOwes(y, d) => RwOwes(x, d)) /\ RwFresh(x, rwTold', rwRecord')
  BY <1>1, <1>4 DEF RwBusy, RwOwes, RwFresh
<1>6. rwPoll' \in [Pollers -> RwPollRecord] /\ RwBusyAll' /\ RwAlone' /\ RwOwedKept'
  BY <1>1, <1>4, <1>5, RwPollSteps
<1>7. rwRecord' \in [RwReleases -> RwEpisodes \cup {0}]
  BY <1>1, RecordedIs
<1>8. ~rwCrossed /\ ~rwLost => \A d \in RwEpisodes : rwTold'[d] > 0 => \E t \in RwReleases : rwRecord'[t] = d
  <2> SUFFICES ASSUME ~rwCrossed, ~rwLost, NEW d \in RwEpisodes, rwTold[d] > 0
               PROVE  \E t \in RwReleases : rwRecord'[t] = d
    BY <1>1
  <2>1. rwRecord[y.announce] = 0 /\ rwRecord'[y.announce] = e
    BY <1>1, <1>2, RecordedIs DEF RwFresh
  <2>2. CASE d = e
    BY <1>1, <2>1, <2>2
  <2>3. CASE d # e
    <3>1. PICK t \in RwReleases : rwRecord[t] = d
      BY <1>3, <2>3
    <3>2. t # y.announce
      BY <2>1, <3>1, RwNumbers
    <3>3. rwRecord'[t] = d
      BY <1>1, <2>1, <3>1, <3>2, RecordedIs
    <3> QED BY <3>3
  <2> QED BY <2>2, <2>3
<1>9. RwNews'
  BY <1>1, <1>3, <1>4, <1>5, <1>8, RwNewsSteps
<1>10. RwShape'
  BY <1>1, <1>6, <1>7 DEF RwShape
<1> QED BY <1>6, <1>9, <1>10

LEMMA DownloadKeeps ==
  ASSUME RwInv, NEW p \in Pollers, Download(p)
  PROVE  RwInv'
<1>. USE DEF RwInv
<1> DEFINE y == rwPoll[p]
<1>1. /\ y.pc = "queue" /\ rwPoll' = [rwPoll EXCEPT ![p] = RwIdle]
      /\ rwQueue' = IF y.auto THEN rwQueue \cup {y.ep} ELSE rwQueue
  BY DEF Download
<1>2. UNCHANGED <<rwNext, rwProgress, rwOut, rwPref, rwRecord, rwTold, rwOwed, rwCrossed, rwLost>>
  BY DEF Download
<1>3. RwBusy(RwIdle) /\ RwFresh(RwIdle, rwTold', rwRecord') /\ (\A d : RwOwes(y, d) => d \in rwQueue')
  BY <1>1, RwIdles DEF RwBusy, RwOwes, RwFresh
<1>4. rwPoll' \in [Pollers -> RwPollRecord] /\ RwBusyAll' /\ RwAlone' /\ RwOwedKept'
  BY <1>1, <1>2, <1>3, RwIdles, RwPollSteps
<1>5. ~rwCrossed /\ ~rwLost =>
        /\ \A d \in RwEpisodes : rwTold'[d] <= 1
        /\ \A d \in RwEpisodes : rwTold'[d] > 0 => \E t \in RwReleases : rwRecord'[t] = d
  BY <1>1, <1>2 DEF RwNews, RwAlone
<1>6. RwNews'
  BY <1>1, <1>2, <1>3, <1>5, RwIdles, RwNewsSteps
<1>7. RwShape'
  BY <1>2, <1>4 DEF RwShape
<1> QED BY <1>4, <1>6, <1>7

\* Writes that fail and a program that stops: of what follows nothing is promised but the shape.
LEMMA RwLosesKeeps ==
  ASSUME RwInv, (\E p \in Pollers : WriteFails(p)) \/ Stops
  PROVE  RwInv'
<1>. USE DEF RwInv
<1>1. /\ rwLost' = TRUE /\ UNCHANGED <<rwNext, rwProgress, rwOut, rwPref, rwRecord, rwTold, rwCrossed>>
  BY DEF WriteFails, Stops
<1>2. rwPoll' \in [Pollers -> RwPollRecord] /\ RwBusyAll' /\ RwAlone'
  <2>1. ASSUME NEW p \in Pollers, WriteFails(p) PROVE rwPoll' \in [Pollers -> RwPollRecord] /\ RwBusyAll' /\ RwAlone'
    <3> DEFINE x == IF rwPoll[p].pc = "queue" THEN RwIdle ELSE [rwPoll[p] EXCEPT !.pc = "queue"]
    <3>1. rwPoll[p] \in RwPollRecord /\ rwPoll[p].ep \in RwEpisodes /\ rwPoll[p].pc # "idle"
      BY <2>1 DEF WriteFails, RwShape, RwBusyAll, RwBusy
    <3>2. x \in RwPollRecord /\ (x.pc = "idle" \/ (x.pc = "queue" /\ x.ep \in RwEpisodes))
      BY <3>1, RwIdles DEF RwPollRecord
    <3>3. rwPoll' = [rwPoll EXCEPT ![p] = x]
      BY <2>1 DEF WriteFails
    <3> HIDE DEF x
    <3>4. /\ rwPoll' \in [Pollers -> RwPollRecord] /\ rwPoll'[p] = x
          /\ \A q \in Pollers \ {p} : rwPoll'[q] = rwPoll[q]
      BY <3>2, <3>3, RwBecomes
    <3>5. RwBusyAll'
      BY <3>2, <3>4 DEF RwBusyAll, RwBusy
    <3>6. RwAlone'
      BY <1>1, <3>1, <3>4 DEF RwAlone
    <3> QED BY <3>4, <3>5, <3>6
  <2>2. CASE Stops
    <3>1. rwPoll' = [p \in Pollers |-> RwIdle]
      BY <2>2 DEF Stops
    <3> QED BY <3>1, RwIdles DEF RwBusyAll, RwBusy, RwAlone
  <2> QED BY <2>1, <2>2
<1>3. RwShape'
  BY <1>1, <1>2 DEF RwShape
<1> QED BY <1>1, <1>2, <1>3 DEF RwOwedKept, RwNews

\* Time, the catalogue, the uploaders, the viewer and the settings.
LEMMA RwWorldKeeps ==
  ASSUME RwInv,
         \/ Airs \/ CatalogueMoves \/ Watched \/ UNCHANGED rwVars
         \/ (\E t \in RwReleases : Uploaded(t)) \/ \E k \in {"notify", "auto", "any"} : SetPref(k)
  PROVE  RwInv'
<1>. USE DEF RwInv
<1>1. UNCHANGED <<rwRecord, rwTold, rwQueue, rwPoll, rwOwed, rwCrossed, rwLost>>
  BY DEF Airs, CatalogueMoves, Watched, rwVars, Uploaded, SetPref
<1>2. RwBusyAll' /\ RwAlone' /\ RwOwedKept' /\ RwNews'
  BY <1>1 DEF RwBusyAll, RwAlone, RwOwedKept, RwNews, RwBusy, RwOwes, RwFresh
<1>3. rwNext' \in [ep : RwEpisodes, aired : BOOLEAN]
  <2>1. rwNext \in [ep : RwEpisodes, aired : BOOLEAN]
    BY DEF RwShape
  <2>2. CASE Airs
    BY <2>1, <2>2 DEF Airs
  <2>3. CASE CatalogueMoves
    BY <2>3 DEF CatalogueMoves
  <2>4. Airs \/ CatalogueMoves \/ rwNext' = rwNext
    BY DEF Watched, rwVars, Uploaded, SetPref
  <2> QED BY <2>1, <2>2, <2>3, <2>4
<1>4. rwProgress' \in Nat /\ rwOut' \subseteq RwReleases
  BY DEF RwShape, Airs, CatalogueMoves, Watched, rwVars, Uploaded, SetPref
<1>5. rwPref' \in [notify : BOOLEAN, auto : BOOLEAN, any : BOOLEAN]
  <2>1. CASE rwPref' = rwPref
    BY <2>1 DEF RwShape
  <2>2. ASSUME NEW k \in {"notify", "auto", "any"}, SetPref(k)
        PROVE  rwPref' \in [notify : BOOLEAN, auto : BOOLEAN, any : BOOLEAN]
    <3>1. rwPref \in [notify : BOOLEAN, auto : BOOLEAN, any : BOOLEAN] /\ rwPref' = [rwPref EXCEPT ![k] = ~rwPref[k]]
      BY <2>2 DEF SetPref, RwShape
    <3>2. CASE k = "notify"
      BY <3>1, <3>2
    <3>3. CASE k = "auto"
      BY <3>1, <3>3
    <3>4. CASE k = "any"
      BY <3>1, <3>4
    <3> QED BY <3>2, <3>3, <3>4
  <2>3. rwPref' = rwPref \/ \E k \in {"notify", "auto", "any"} : SetPref(k)
    BY DEF Airs, CatalogueMoves, Watched, rwVars, Uploaded
  <2> QED BY <2>1, <2>2, <2>3
<1>6. RwShape'
  BY <1>1, <1>3, <1>4, <1>5 DEF RwShape
<1> QED BY <1>2, <1>6

LEMMA RwInitInv == RwInit => RwInv
<1> SUFFICES ASSUME RwInit PROVE RwInv
  OBVIOUS
<1>1. /\ rwNext = [ep |-> 1, aired |-> FALSE] /\ rwProgress = 0 /\ rwOut = {}
      /\ rwPref = [notify |-> TRUE, auto |-> TRUE, any |-> TRUE]
      /\ rwRecord = [t \in RwReleases |-> 0] /\ rwTold = [e \in RwEpisodes |-> 0] /\ rwQueue = {}
      /\ rwPoll = [p \in Pollers |-> RwIdle] /\ rwOwed = {} /\ rwCrossed = FALSE /\ rwLost = FALSE
  BY DEF RwInit
<1>2. RwShape
  <2>1. rwNext \in [ep : RwEpisodes, aired : BOOLEAN] /\ rwPref \in [notify : BOOLEAN, auto : BOOLEAN, any : BOOLEAN]
    BY <1>1, RwNumbers
  <2>2. rwRecord \in [RwReleases -> RwEpisodes \cup {0}] /\ rwTold \in [RwEpisodes -> Nat]
    BY <1>1
  <2>3. rwPoll \in [Pollers -> RwPollRecord]
    BY <1>1, RwIdles
  <2> QED BY <1>1, <2>1, <2>2, <2>3 DEF RwShape
<1>3. RwBusyAll /\ RwAlone /\ RwOwedKept
  BY <1>1, RwIdles DEF RwBusyAll, RwBusy, RwAlone, RwOwedKept
<1>4. RwNews
  BY <1>1, RwIdles DEF RwNews, RwFresh
<1> QED BY <1>2, <1>3, <1>4 DEF RwInv

(* watcher.go, notify.go: a poll by itself finds nothing told or recorded of its episode, and what
   it owes the queue stays its own until it is queued.  Inductive. *)
THEOREM NewsInvariant == RwSpec => []RwInv
<1>1. ASSUME RwInv, [RwNext]_rwVars PROVE RwInv'
  BY <1>1, PollStartsKeeps, FindKeeps, TellKeeps, RecordNotifiedKeeps, DownloadKeeps, RwLosesKeeps, RwWorldKeeps DEF RwNext
<1> QED BY <1>1, RwInitInv, PTL DEF RwSpec

(* library/watcher.go: however many releases of an episode come out and however often one looks,
   it is told once, recorded as told and queued where the show downloads by itself, unless two
   polls meet or a write is lost. *)
THEOREM NewsStaySafe == RwSpec => []WatchNews
<1>1. RwInv => WatchNews
  <2> SUFFICES ASSUME RwInv PROVE WatchNews
    OBVIOUS
  <2>1. ToldOnce
    BY DEF RwInv, RwNews, ToldOnce
  <2>2. PollsFinish
    BY DEF RwInv, RwNews, RwOwedKept, RwOwes, PollsFinish
  <2> QED BY <2>1, <2>2 DEF WatchNews
<1> QED BY <1>1, NewsInvariant, PTL

-----------------------------------------------------------------------------
(* Favourites: what a run holds of the site while it is under way.         *)

FvRowRecord == [fav : BOOLEAN, synced : BOOLEAN, dirty : BOOLEAN]
FvRunRecord == [pc : {"idle", "dirty", "toggle", "mark", "settled", "apply"}, remote : BOOLEAN, has : BOOLEAN,
                want : BOOLEAN, clean : BOOLEAN, fav : BOOLEAN]
FvShape ==
  /\ fvRow \in FvRowRecord /\ fvRun \in FvRunRecord
  /\ fvSite \in BOOLEAN /\ fvWish \in BOOLEAN /\ fvLost \in BOOLEAN /\ fvCrossed \in BOOLEAN
\* What a run read of the site's list holds until it toggles, and what it told after it did.
RunKnows(run, web) ==
  /\ run.pc \in {"dirty", "toggle", "settled", "apply"} => run.remote = web
  /\ run.pc = "toggle" => run.want = ~web
  /\ run.pc = "mark" => run.want = web /\ run.remote = web
\* A row to be told of is what the site was known to hold, undone; one that has nothing to tell
\* and differs from the site was overtaken by an edit there; an edit being told is the last one.
RowKnows(row, run, web, wish) ==
  /\ row.dirty /\ run.pc # "mark" => web = row.synced
  /\ ~row.dirty /\ run.pc # "mark" /\ web # row.synced => wish = web
  /\ run.pc \in {"toggle", "mark"} => row.fav = wish
  /\ row.dirty \/ web = row.fav => row.fav = wish
FvKnown == ~fvLost /\ ~fvCrossed => RunKnows(fvRun, fvSite) /\ RowKnows(fvRow, fvRun, fvSite, fvWish)
FvInv == FvShape /\ CleanIsKnown /\ FvKnown

\* A run, a row: what they become.
LEMMA FvRecords ==
  ASSUME FvShape
  PROVE  /\ NoRun \in FvRunRecord /\ NoRun.pc = "idle"
         /\ fvRow.fav \in BOOLEAN /\ fvRow.synced \in BOOLEAN /\ fvRow.dirty \in BOOLEAN
         /\ fvRun.remote \in BOOLEAN /\ fvRun.want \in BOOLEAN /\ fvRun.has \in BOOLEAN
         /\ fvRun.clean \in BOOLEAN /\ fvRun.fav \in BOOLEAN
  BY DEF FvShape, FvRowRecord, FvRunRecord, NoRun

LEMMA EditKeeps ==
  ASSUME FvInv, Edit
  PROVE  FvInv'
<1>. USE DEF FvInv
<1>1. /\ fvRow' = [fvRow EXCEPT !.fav = ~fvRow.fav, !.dirty = ~fvRow.fav # fvRow.synced] /\ fvWish' = ~fvRow.fav
      /\ fvCrossed' = (fvCrossed \/ (fvSite # fvRow.synced /\ fvRun.pc # "mark"))
      /\ fvSite' = fvSite /\ fvRun' = fvRun /\ fvLost' = fvLost
  BY DEF Edit
<1>2. /\ fvRow' \in FvRowRecord /\ fvRow'.fav = ~fvRow.fav /\ fvRow'.synced = fvRow.synced
      /\ fvRow'.dirty = (~fvRow.fav # fvRow.synced)
  BY <1>1 DEF FvShape, FvRowRecord
<1>3. FvShape'
  <2>1. fvCrossed' \in BOOLEAN /\ fvWish' \in BOOLEAN
    BY <1>1
  <2> QED BY <1>1, <1>2, <2>1 DEF FvShape
<1>4. CleanIsKnown'
  <2>1. fvRow'.fav = ~fvRow.fav /\ fvRow'.synced = fvRow.synced /\ fvRow'.dirty = (fvRow'.fav # fvRow'.synced)
    BY <1>1 DEF FvShape, FvRowRecord
  <2> QED BY <2>1 DEF CleanIsKnown
<1>5. FvKnown'
  <2> SUFFICES ASSUME ~fvLost, ~fvCrossed'
               PROVE  RunKnows(fvRun, fvSite) /\ RowKnows(fvRow', fvRun, fvSite, fvWish')
    BY <1>1 DEF FvKnown
  <2>1. ~fvCrossed /\ (fvSite = fvRow.synced \/ fvRun.pc = "mark")
    BY <1>1
  <2> QED BY <1>1, <1>2, <2>1 DEF FvKnown, RowKnows
<1> QED BY <1>3, <1>4, <1>5

LEMMA SiteEditKeeps ==
  ASSUME FvInv, SiteEdit
  PROVE  FvInv'
<1>. USE DEF FvInv
<1>1. /\ fvSite' = ~fvSite /\ fvWish' = ~fvSite /\ fvCrossed' = (fvCrossed \/ fvRun.pc # "idle" \/ fvRow.dirty)
      /\ fvRow' = fvRow /\ fvRun' = fvRun /\ fvLost' = fvLost
  BY DEF SiteEdit
<1>2. FvShape'
  BY <1>1, FvRecords DEF FvShape
<1>3. CleanIsKnown'
  BY <1>1 DEF CleanIsKnown
<1>4. FvKnown'
  <2> SUFFICES ASSUME ~fvLost, ~fvCrossed'
               PROVE  RunKnows(fvRun, fvSite') /\ RowKnows(fvRow, fvRun, fvSite', fvWish')
    BY <1>1 DEF FvKnown
  <2>1. ~fvCrossed /\ fvRun.pc = "idle" /\ ~fvRow.dirty
    BY <1>1
  <2> QED BY <1>1, <2>1 DEF RunKnows, RowKnows
<1> QED BY <1>2, <1>3, <1>4

\* A step of the run that leaves the row and the site as they are.
LEMMA RunSteps ==
  ASSUME FvInv, fvRun' \in FvRunRecord, UNCHANGED <<fvRow, fvSite, fvWish, fvCrossed>>,
         fvLost' \in BOOLEAN, fvLost => fvLost',
         ~fvLost' /\ ~fvCrossed =>
            /\ RunKnows(fvRun', fvSite)
            /\ fvRun.pc = "mark" => fvRun'.pc = "mark"
            /\ fvRun'.pc \in {"toggle", "mark"} => fvRow.fav = fvWish
  PROVE  FvInv'
<1>1. FvShape' /\ CleanIsKnown'
  BY DEF FvInv, FvShape, CleanIsKnown
<1>2. FvKnown'
  BY DEF FvInv, FvKnown, RowKnows
<1> QED BY <1>1, <1>2 DEF FvInv

LEMMA ReadSiteKeeps ==
  ASSUME FvInv, ReadSite
  PROVE  FvInv'
<1>1. fvRun' = [NoRun EXCEPT !.pc = "dirty", !.remote = fvSite] /\ fvRun.pc = "idle"
  BY DEF ReadSite
<1>2. fvRun' \in FvRunRecord /\ fvRun'.pc = "dirty" /\ fvRun'.remote = fvSite
  BY <1>1 DEF NoRun, FvRunRecord, FvInv, FvShape
<1>3. RunKnows(fvRun', fvSite)
  BY <1>2 DEF RunKnows
<1> QED BY <1>1, <1>2, <1>3, RunSteps DEF ReadSite, FvInv, FvShape

LEMMA DirtyFavouritesKeeps ==
  ASSUME FvInv, DirtyFavourites
  PROVE  FvInv'
<1> DEFINE pc == IF ~fvRow.dirty THEN "settled" ELSE IF fvRun.remote = fvRow.fav THEN "mark" ELSE "toggle"
<1>1. fvRun' = [fvRun EXCEPT !.has = fvRow.dirty, !.want = fvRow.fav, !.pc = pc] /\ fvRun.pc = "dirty"
  BY DEF DirtyFavourites
<1>2. pc \in {"settled", "mark", "toggle"}
  OBVIOUS
<1>3. /\ fvRow.fav \in BOOLEAN /\ fvRow.dirty \in BOOLEAN /\ fvRun.remote \in BOOLEAN
      /\ fvSite \in BOOLEAN /\ fvLost \in BOOLEAN
  BY FvRecords DEF FvInv, FvShape
<1>4. fvRun' \in FvRunRecord /\ fvRun'.pc = pc /\ fvRun'.want = fvRow.fav /\ fvRun'.remote = fvRun.remote
  <2> HIDE DEF pc
  <2> QED BY <1>1, <1>2, <1>3 DEF FvInv, FvShape, FvRunRecord
<1>5. ASSUME ~fvLost, ~fvCrossed
      PROVE  RunKnows(fvRun', fvSite) /\ (fvRun'.pc \in {"toggle", "mark"} => fvRow.fav = fvWish)
  <2>1. fvRun.remote = fvSite /\ (fvRow.dirty => fvRow.fav = fvWish)
    BY <1>1, <1>5 DEF FvInv, FvKnown, RunKnows, RowKnows
  <2>2. CASE ~fvRow.dirty
    BY <1>4, <2>1, <2>2 DEF RunKnows
  <2>3. CASE fvRow.dirty /\ fvRun.remote = fvRow.fav
    BY <1>4, <2>1, <2>3 DEF RunKnows
  <2>4. CASE fvRow.dirty /\ fvRun.remote # fvRow.fav
    BY <1>3, <1>4, <2>1, <2>4 DEF RunKnows
  <2> QED BY <1>3, <2>2, <2>3, <2>4
<1> QED BY <1>1, <1>3, <1>4, <1>5, RunSteps DEF DirtyFavourites

LEMMA ReadSettledKeeps ==
  ASSUME FvInv, ReadSettled
  PROVE  FvInv'
<1>1. fvRun' = [fvRun EXCEPT !.pc = "apply", !.clean = ~fvRow.dirty, !.fav = fvRow.fav] /\ fvRun.pc = "settled"
  BY DEF ReadSettled
<1>2. fvRow.fav \in BOOLEAN /\ fvRow.dirty \in BOOLEAN /\ fvLost \in BOOLEAN
  BY FvRecords DEF FvInv, FvShape
<1>3. fvRun' \in FvRunRecord /\ fvRun'.pc = "apply" /\ fvRun'.remote = fvRun.remote
  BY <1>1, <1>2 DEF FvInv, FvShape, FvRunRecord
<1>4. ~fvLost /\ ~fvCrossed => RunKnows(fvRun', fvSite)
  BY <1>1, <1>3 DEF FvInv, FvKnown, RunKnows
<1> QED BY <1>1, <1>2, <1>3, <1>4, RunSteps DEF ReadSettled

LEMMA RunBreaksKeeps ==
  ASSUME FvInv, RunBreaks
  PROVE  FvInv'
<1>1. fvRun' = NoRun /\ fvLost' = (fvLost \/ fvRun.pc = "mark")
  BY DEF RunBreaks
<1>2. NoRun \in FvRunRecord /\ NoRun.pc = "idle" /\ fvLost \in BOOLEAN
  BY FvRecords DEF FvInv, FvShape
<1>3. RunKnows(NoRun, fvSite)
  BY <1>2 DEF RunKnows
<1> QED BY <1>1, <1>2, <1>3, RunSteps DEF RunBreaks

LEMMA FvToggleKeeps ==
  ASSUME FvInv, ToggleFavourite
  PROVE  FvInv'
<1>. USE DEF FvInv
<1>1. /\ fvSite' = ~fvSite /\ fvRun' = [fvRun EXCEPT !.pc = "mark", !.remote = fvRun.want] /\ fvRun.pc = "toggle"
      /\ fvRow' = fvRow /\ fvWish' = fvWish /\ fvLost' = fvLost /\ fvCrossed' = fvCrossed
  BY DEF ToggleFavourite
<1>2. fvRun' \in FvRunRecord /\ fvRun'.pc = "mark" /\ fvRun'.remote = fvRun.want /\ fvRun'.want = fvRun.want
  BY <1>1, FvRecords DEF FvShape, FvRunRecord
<1>3. FvShape' /\ CleanIsKnown'
  BY <1>1, <1>2 DEF FvShape, CleanIsKnown
<1>4. FvKnown'
  <2> SUFFICES ASSUME ~fvLost, ~fvCrossed
               PROVE  RunKnows(fvRun', fvSite') /\ RowKnows(fvRow, fvRun', fvSite', fvWish)
    BY <1>1 DEF FvKnown
  <2>1. fvRun.want = ~fvSite /\ fvRow.fav = fvWish
    BY <1>1 DEF FvKnown, RunKnows, RowKnows
  <2> QED BY <1>1, <1>2, <2>1 DEF RunKnows, RowKnows
<1> QED BY <1>3, <1>4

LEMMA ToggleFailsKeeps ==
  ASSUME FvInv, NEW applied \in BOOLEAN, ToggleFails(applied)
  PROVE  FvInv'
<1>. USE DEF FvInv
<1>1. /\ fvSite' = (fvSite # applied) /\ fvLost' = (fvLost \/ applied) /\ fvRun' = [fvRun EXCEPT !.pc = "settled"]
      /\ fvRun.pc = "toggle" /\ fvRow' = fvRow /\ fvWish' = fvWish /\ fvCrossed' = fvCrossed
  BY DEF ToggleFails
<1>2. fvRun' \in FvRunRecord /\ fvRun'.pc = "settled" /\ fvRun'.remote = fvRun.remote
  BY <1>1 DEF FvShape, FvRunRecord
<1>3. FvShape' /\ CleanIsKnown'
  BY <1>1, <1>2 DEF FvShape, CleanIsKnown
<1>4. FvKnown'
  <2> SUFFICES ASSUME ~fvLost, ~applied, ~fvCrossed
               PROVE  RunKnows(fvRun', fvSite') /\ RowKnows(fvRow, fvRun', fvSite', fvWish)
    BY <1>1 DEF FvKnown
  <2>1. fvSite' = fvSite
    BY <1>1 DEF FvShape
  <2> QED BY <1>1, <1>2, <2>1 DEF FvKnown, RunKnows, RowKnows
<1> QED BY <1>3, <1>4

LEMMA MarkKeeps ==
  ASSUME FvInv, MarkFavouriteSynced
  PROVE  FvInv'
<1>. USE DEF FvInv
<1>1. /\ fvRow' = [fvRow EXCEPT !.synced = fvRun.want, !.dirty = fvRow.fav # fvRun.want]
      /\ fvRun' = [fvRun EXCEPT !.pc = "settled"] /\ fvRun.pc = "mark"
      /\ fvSite' = fvSite /\ fvWish' = fvWish /\ fvLost' = fvLost /\ fvCrossed' = fvCrossed
  BY DEF MarkFavouriteSynced
<1>2. fvRun' \in FvRunRecord /\ fvRun'.pc = "settled" /\ fvRun'.remote = fvRun.remote
  BY <1>1 DEF FvShape, FvRunRecord
<1>3. /\ fvRow' \in FvRowRecord /\ fvRow'.fav = fvRow.fav /\ fvRow'.synced = fvRun.want
      /\ fvRow'.dirty = (fvRow.fav # fvRun.want)
  BY <1>1, FvRecords DEF FvShape, FvRowRecord
<1>4. FvShape'
  BY <1>1, <1>2, <1>3 DEF FvShape
<1>5. CleanIsKnown'
  BY <1>3 DEF CleanIsKnown
<1>6. FvKnown'
  <2> SUFFICES ASSUME ~fvLost, ~fvCrossed
               PROVE  RunKnows(fvRun', fvSite) /\ RowKnows(fvRow', fvRun', fvSite, fvWish)
    BY <1>1 DEF FvKnown
  <2>1. fvRun.want = fvSite /\ fvRun.remote = fvSite /\ fvRow.fav = fvWish
    BY <1>1 DEF FvKnown, RunKnows, RowKnows
  <2> QED BY <1>2, <1>3, <2>1 DEF RunKnows, RowKnows
<1> QED BY <1>4, <1>5, <1>6

LEMMA ApplyRemoteKeeps ==
  ASSUME FvInv, ApplyRemote
  PROVE  FvInv'
<1>. USE DEF FvInv
<1> DEFINE took == [fvRow EXCEPT !.fav = fvRun.remote, !.synced = fvRun.remote]
<1>1. /\ fvRow' = fvRow \/ (~fvRow.dirty /\ fvRow' = took)
      /\ fvRun' = NoRun /\ fvRun.pc = "apply"
      /\ fvSite' = fvSite /\ fvWish' = fvWish /\ fvLost' = fvLost /\ fvCrossed' = fvCrossed
  BY DEF ApplyRemote
<1>2. NoRun \in FvRunRecord /\ NoRun.pc = "idle"
  BY FvRecords
<1>3. /\ took \in FvRowRecord /\ took.fav = fvRun.remote /\ took.synced = fvRun.remote /\ took.dirty = fvRow.dirty
  BY FvRecords DEF FvShape, FvRowRecord
<1> HIDE DEF took
<1>4. FvShape'
  BY <1>1, <1>2, <1>3 DEF FvShape
<1>5. CleanIsKnown'
  <2>1. CASE fvRow' = fvRow
    BY <2>1 DEF CleanIsKnown
  <2>2. CASE ~fvRow.dirty /\ fvRow' = took
    BY <1>3, <2>2 DEF CleanIsKnown, FvShape, FvRowRecord
  <2> QED BY <1>1, <2>1, <2>2
<1>6. FvKnown'
  <2> SUFFICES ASSUME ~fvLost, ~fvCrossed
               PROVE  RunKnows(NoRun, fvSite) /\ RowKnows(fvRow', NoRun, fvSite, fvWish)
    BY <1>1 DEF FvKnown
  <2>1. RunKnows(NoRun, fvSite)
    BY <1>2 DEF RunKnows
  <2>2. fvRun.remote = fvSite /\ RowKnows(fvRow, fvRun, fvSite, fvWish)
    BY <1>1 DEF FvKnown, RunKnows
  <2>0. fvRun.pc # "mark" /\ NoRun.pc \notin {"toggle", "mark"}
    BY <1>1, <1>2
  <2>3. CASE fvRow' = fvRow
    BY <2>0, <2>1, <2>2, <2>3 DEF RowKnows
  <2>4. CASE ~fvRow.dirty /\ fvRow' = took
    <3>1. fvRow.fav = fvRow.synced /\ fvRow.fav \in BOOLEAN /\ fvRow.synced \in BOOLEAN /\ fvRow.dirty \in BOOLEAN
      BY <2>4, FvRecords DEF CleanIsKnown
    <3>2. fvWish = fvSite
      BY <2>0, <2>2, <2>4, <3>1 DEF RowKnows
    <3>3. took.fav = fvSite /\ took.synced = fvSite /\ ~took.dirty
      BY <1>3, <2>2, <2>4
    <3> QED BY <2>0, <2>1, <2>4, <3>2, <3>3 DEF RowKnows
  <2> QED BY <1>1, <2>1, <2>3, <2>4
<1> QED BY <1>4, <1>5, <1>6

(* library/sync.go favourites: until it toggles, a run holds what the site holds, and an edit it
   is telling is the last word.  Inductive: any number of edits, site edits and runs. *)
THEOREM FavouritesInvariant == FvSpec => []FvInv
<1>1. FvInit => FvInv
  <2> SUFFICES ASSUME FvInit PROVE FvInv
    OBVIOUS
  <2>1. /\ fvRow = [fav |-> FALSE, synced |-> FALSE, dirty |-> FALSE] /\ fvSite = FALSE /\ fvRun = NoRun
        /\ fvWish = FALSE /\ fvLost = FALSE /\ fvCrossed = FALSE
    BY DEF FvInit
  <2>2. FvShape
    BY <2>1 DEF FvShape, FvRowRecord, FvRunRecord, NoRun
  <2>3. NoRun.pc = "idle"
    BY DEF NoRun
  <2>4. CleanIsKnown /\ FvKnown
    BY <2>1, <2>3 DEF CleanIsKnown, FvKnown, RunKnows, RowKnows
  <2> QED BY <2>2, <2>4 DEF FvInv
<1>2. FvInv /\ UNCHANGED fvVars => FvInv'
  BY DEF FvInv, FvShape, CleanIsKnown, FvKnown, fvVars
<1>3. ASSUME FvInv, FvNext PROVE FvInv'
  BY <1>3, EditKeeps, SiteEditKeeps, ReadSiteKeeps, DirtyFavouritesKeeps, FvToggleKeeps, MarkKeeps, ReadSettledKeeps,
     ApplyRemoteKeeps, RunBreaksKeeps, ToggleFailsKeeps DEF FvNext
<1> QED BY <1>1, <1>2, <1>3, PTL DEF FvSpec

(* store/prefs.go, library/sync.go: nothing a run does undoes the last edit, whatever falls between
   its steps, and a row has something to tell exactly when it differs from what was told. *)
THEOREM FavouritesStaySafe == FvSpec => []FavouritesSafe
<1>1. FvInv => FavouritesSafe
  <2> SUFFICES ASSUME FvInv PROVE FavouritesSafe
    OBVIOUS
  <2>1. LastEditStands
    <3> SUFFICES ASSUME ~fvLost, ~fvCrossed, fvRow.dirty \/ fvSite = fvRow.fav \/ fvSite = fvRow.synced
                 PROVE  fvRow.fav = fvWish
      BY DEF LastEditStands
    <3>1. fvRow.dirty \/ fvSite = fvRow.fav
      BY FvRecords DEF FvInv, CleanIsKnown
    <3> QED BY <3>1 DEF FvInv, FvKnown, RowKnows
  <2> QED BY <2>1 DEF FvInv, FavouritesSafe
<1> QED BY <1>1, FavouritesInvariant, PTL

-----------------------------------------------------------------------------
(* What was watched: ticks, rewatches and the rail.                        *)

WsStatuses == {"none", "CURRENT", "COMPLETED", "REPEATING"}
WsRow == [row : BOOLEAN, pos : Int, dur : Int, played : Int, watched : BOOLEAN, dismissed : BOOLEAN, count : Int, at : Int]
WsEntry == [status : WsStatuses, prog : Int, repeat : Int]
WsShape ==
  /\ play \in [WsEps -> WsRow] /\ entry \in WsEntry
  /\ change \in [at : WsStatuses \cup {"clear"}, entering : BOOLEAN, touched : BOOLEAN]
  /\ wsNow \in Int /\ earned \in [WsEps -> Int] /\ starts \in Int /\ fresh \in BOOLEAN
\* The time a row claims is time that was earned, and a tick is worth its share of it.
EarnedAt(r, n) == r.played <= n /\ (r.watched => n >= PlayedShare)
WsEarned == \A e \in WsEps : EarnedAt(play[e], earned[e])
\* A rewatch that was entered and has seen nothing since is at the start, and its rows are too
\* once they are cleared.
WsBegins ==
  /\ change.at = "clear" /\ ~change.touched => entry.prog = 0
  /\ fresh => entry.prog = 0 /\ \A e \in WsEps : play[e].pos = 0
\* A rewatch under way was entered and is not counted yet.
WsOwed(x) == x.repeat + (IF x.status = "REPEATING" THEN 1 ELSE 0)
WsCounted == WsOwed(entry) <= starts
WsInv == WsShape /\ WsEarned /\ WsBegins /\ WsCounted

\* Touch: what is watched between, the rewatch is not fresh.
LEMMA WsTouched ==
  ASSUME WsInv, Touch
  PROVE  /\ fresh' = FALSE /\ change'.touched = TRUE /\ change'.at = change.at
         /\ change' \in [at : WsStatuses \cup {"clear"}, entering : BOOLEAN, touched : BOOLEAN] /\ WsBegins'
<1>1. /\ fresh' = FALSE /\ change'.touched = TRUE /\ change'.at = change.at
      /\ change' \in [at : WsStatuses \cup {"clear"}, entering : BOOLEAN, touched : BOOLEAN]
  BY DEF WsInv, WsShape, Touch
<1> QED BY <1>1 DEF WsBegins

LEMMA ReportKeeps ==
  ASSUME WsInv, NEW e \in WsEps, NEW pos \in Int, NEW claimed \in {0, 2}, NEW dur \in Int, Report(e, pos, claimed, dur)
  PROVE  WsInv'
<1>. USE DEF WsInv
<1> DEFINE old == play[e]
           d == IF dur > 0 THEN dur ELSE old.dur
           step == IF claimed > MaxPerReport THEN MaxPerReport ELSE claimed
           played == old.played + step
           reached == d > 0 /\ pos >= Threshold
           watched == old.watched \/ (reached /\ played >= PlayedShare)
           at == IF ~reached \/ watched \/ ~old.row THEN pos ELSE old.pos
           times == old.count + IF watched /\ ~old.watched THEN 1 ELSE 0
           x == [row |-> TRUE, pos |-> at, dur |-> d, played |-> played, watched |-> watched,
                 dismissed |-> old.dismissed /\ step = 0, count |-> times, at |-> wsNow]
<1>1. /\ play' = [play EXCEPT ![e] = x] /\ earned' = [earned EXCEPT ![e] = earned[e] + step]
      /\ Touch /\ entry' = entry /\ wsNow' = wsNow /\ starts' = starts
  BY DEF Report
<1>2. old \in WsRow /\ wsNow \in Int /\ earned[e] \in Int
  BY DEF WsShape
<1>3. /\ old.row \in BOOLEAN /\ old.pos \in Int /\ old.dur \in Int /\ old.played \in Int /\ old.watched \in BOOLEAN
      /\ old.dismissed \in BOOLEAN /\ old.count \in Int
  BY <1>2 DEF WsRow
<1>4. step \in {0, 1}
  BY DEF MaxPerReport
<1>5. d \in Int /\ played \in Int /\ watched \in BOOLEAN /\ at \in Int /\ times \in Int
  <2> HIDE DEF step
  <2>1. d \in Int /\ played \in Int
    BY <1>3, <1>4
  <2>2. watched \in BOOLEAN
    BY <1>3
  <2> HIDE DEF watched, reached
  <2>3. at \in Int /\ times \in Int
    BY <1>3
  <2> QED BY <2>1, <2>2, <2>3
<1>6. watched => old.watched \/ played >= PlayedShare
  OBVIOUS
<1> HIDE DEF d, watched, at, times, step, reached
<1>7. x \in WsRow /\ x.played = played /\ x.watched = watched
  <2> HIDE DEF played
  <2>1. (old.dismissed /\ step = 0) \in BOOLEAN
    OBVIOUS
  <2> QED BY <1>2, <1>5, <2>1 DEF WsRow
<1> HIDE DEF x
<1>8. /\ play' \in [WsEps -> WsRow] /\ play'[e] = x /\ \A f \in WsEps \ {e} : play'[f] = play[f]
      /\ earned' \in [WsEps -> Int] /\ earned'[e] = earned[e] + step /\ \A f \in WsEps \ {e} : earned'[f] = earned[f]
  <2>1. play' \in [WsEps -> WsRow] /\ play'[e] = x /\ \A f \in WsEps \ {e} : play'[f] = play[f]
    BY <1>1, <1>7 DEF WsShape
  <2>2. earned[e] + step \in Int
    BY <1>2, <1>4
  <2>3. earned' \in [WsEps -> Int] /\ earned'[e] = earned[e] + step /\ \A f \in WsEps \ {e} : earned'[f] = earned[f]
    BY <1>1, <2>2 DEF WsShape
  <2> QED BY <2>1, <2>3
<1>9. EarnedAt(x, earned[e] + step)
  <2>1. EarnedAt(old, earned[e])
    BY DEF WsEarned
  <2> QED BY <1>2, <1>3, <1>4, <1>6, <1>7, <2>1 DEF EarnedAt, PlayedShare
<1>10. WsEarned'
  <2> SUFFICES ASSUME NEW f \in WsEps PROVE EarnedAt(play'[f], earned'[f])
    BY DEF WsEarned
  <2>1. CASE f = e
    BY <1>8, <1>9, <2>1
  <2>2. CASE f # e
    BY <1>8, <2>2 DEF WsEarned
  <2> QED BY <2>1, <2>2
<1>11. WsShape'
  BY <1>1, <1>8, WsTouched DEF WsShape
<1> QED BY <1>1, <1>10, <1>11, WsTouched DEF WsCounted

\* MarkWatched: a rewatch that ends by it is counted, and is one no more.
LEMMA MarkedIs ==
  ASSUME WsInv, NEW e \in WsEps
  PROVE  Marked(e) \in WsEntry /\ WsOwed(Marked(e)) <= WsOwed(entry)
<1>. USE DEF WsInv
<1> DEFINE prog == IF e > entry.prog THEN e ELSE entry.prog
           moved == e > entry.prog \/ entry.status = "none"
           status == IF moved /\ entry.status \notin {"COMPLETED", "REPEATING"} THEN "CURRENT" ELSE entry.status
           done == status # "COMPLETED" /\ prog >= WsCount
           again == entry.repeat + IF done /\ status = "REPEATING" THEN 1 ELSE 0
           then == IF done THEN "COMPLETED" ELSE status
<1>1. entry.status \in WsStatuses /\ entry.prog \in Int /\ entry.repeat \in Int /\ e \in Int
  BY DEF WsShape, WsEntry, WsEps
<1>2. prog \in Int
  BY <1>1
<1>3. status \in WsStatuses /\ (status = "REPEATING" => entry.status = "REPEATING")
  BY <1>1 DEF WsStatuses
<1> HIDE DEF status, prog, moved
<1>4. again \in Int /\ then \in WsStatuses
  BY <1>1, <1>3 DEF WsStatuses
<1>5. again + (IF then = "REPEATING" THEN 1 ELSE 0) <= entry.repeat + (IF entry.status = "REPEATING" THEN 1 ELSE 0)
  <2>1. CASE done
    BY <1>1, <1>3, <2>1
  <2>2. CASE ~done
    BY <1>1, <1>3, <2>2
  <2> QED BY <2>1, <2>2
<1>6. Marked(e) = [status |-> then, prog |-> prog, repeat |-> again]
  BY DEF Marked, status, prog, moved
<1> HIDE DEF again, then
<1> QED BY <1>2, <1>4, <1>5, <1>6 DEF WsEntry, WsOwed

LEMMA MarkingKeeps ==
  ASSUME WsInv, NEW e \in WsEps, SyncWatched(e) \/ SetWatched(e)
  PROVE  WsInv'
<1>1. entry' = Marked(e) /\ Touch /\ UNCHANGED <<play, wsNow, earned, starts>>
  BY DEF SyncWatched, SetWatched
<1>2. WsShape'
  BY <1>1, MarkedIs, WsTouched DEF WsInv, WsShape
<1>3. WsEarned'
  BY <1>1 DEF WsInv, WsEarned
<1>4. WsCounted'
  <2>1. Marked(e).repeat \in Int /\ entry.repeat \in Int /\ starts \in Int
    BY MarkedIs DEF WsEntry, WsInv, WsShape
  <2>2. WsOwed(Marked(e)) \in Int /\ WsOwed(entry) \in Int
    BY <2>1 DEF WsOwed
  <2>3. WsOwed(Marked(e)) <= starts
    BY <2>1, <2>2, MarkedIs DEF WsInv, WsCounted
  <2> QED BY <1>1, <2>3 DEF WsCounted
<1> QED BY <1>1, <1>2, <1>3, <1>4, WsTouched DEF WsInv

\* A row that is rewound claims nothing.
LEMMA RewoundIs ==
  ASSUME NEW r \in WsRow
  PROVE  /\ Rewound(r) \in WsRow /\ Rewound(r).watched = FALSE /\ Rewound(r).pos = 0 /\ Rewound(r).played = 0
         /\ [Rewound(r) EXCEPT !.dismissed = FALSE] \in WsRow
         /\ [Rewound(r) EXCEPT !.dismissed = FALSE].watched = FALSE
         /\ [Rewound(r) EXCEPT !.dismissed = FALSE].pos = 0
         /\ [Rewound(r) EXCEPT !.dismissed = FALSE].played = 0
<1> DEFINE x == Rewound(r)
           y == [x EXCEPT !.dismissed = FALSE]
<1>1. x = [r EXCEPT !.watched = FALSE, !.pos = 0, !.played = 0]
  BY DEF Rewound
<1> HIDE DEF x
<1>2. x \in WsRow /\ x.watched = FALSE /\ x.pos = 0 /\ x.played = 0
  <2>1. x \in WsRow
    <3>1. ASSUME NEW b \in BOOLEAN, NEW n \in Int
          PROVE  [r EXCEPT !.watched = b, !.pos = n, !.played = n] \in WsRow
      BY DEF WsRow
    <3>2. FALSE \in BOOLEAN /\ 0 \in Int
      OBVIOUS
    <3>3. [r EXCEPT !.watched = FALSE, !.pos = 0, !.played = 0] \in WsRow
      BY <3>1, <3>2, Zenon
    <3> QED BY <1>1, <3>3, Zenon
  <2>2. x.watched = FALSE /\ x.pos = 0 /\ x.played = 0
    BY <1>1 DEF WsRow
  <2> QED BY <2>1, <2>2
<1>3. y \in WsRow /\ y.watched = FALSE /\ y.pos = 0 /\ y.played = 0
  BY <1>2 DEF WsRow
<1> QED BY <1>2, <1>3 DEF x

LEMMA UnwatchKeeps ==
  ASSUME WsInv, NEW e \in WsEps, Unwatch(e)
  PROVE  WsInv'
<1>. USE DEF WsInv
<1> DEFINE prog == IF entry.prog > e - 1 THEN e - 1 ELSE entry.prog
           status == IF entry.status = "COMPLETED" THEN "CURRENT" ELSE entry.status
<1>1. /\ entry' = [entry EXCEPT !.prog = prog, !.status = status] /\ Touch /\ wsNow' = wsNow /\ starts' = starts
      /\ play' = [f \in WsEps |-> IF f >= e THEN Rewound(play[f]) ELSE play[f]]
      /\ earned' = [f \in WsEps |-> IF f >= e THEN 0 ELSE earned[f]]
  BY DEF Unwatch
<1>2. entry.prog \in Int /\ entry.status \in WsStatuses /\ entry.repeat \in Int /\ e \in Int /\ starts \in Int
  BY DEF WsShape, WsEntry, WsEps
<1>3. prog \in Int /\ status \in WsStatuses /\ (status = "REPEATING" <=> entry.status = "REPEATING")
  BY <1>2 DEF WsStatuses
<1> HIDE DEF prog, status
<1>4. entry' \in WsEntry /\ entry'.status = status /\ entry'.repeat = entry.repeat
  BY <1>1, <1>3 DEF WsShape, WsEntry
<1>5. WsCounted'
  BY <1>1, <1>2, <1>3, <1>4 DEF WsCounted, WsOwed
<1>6. play' \in [WsEps -> WsRow] /\ earned' \in [WsEps -> Int]
  <2>1. \A f \in WsEps : play[f] \in WsRow /\ Rewound(play[f]) \in WsRow /\ earned[f] \in Int
    BY RewoundIs DEF WsShape
  <2> QED BY <1>1, <2>1
<1>7. WsEarned'
  <2> SUFFICES ASSUME NEW f \in WsEps PROVE EarnedAt(play'[f], earned'[f])
    BY DEF WsEarned
  <2>1. CASE f >= e
    <3>1. play'[f] = Rewound(play[f]) /\ earned'[f] = 0 /\ play[f] \in WsRow
      BY <1>1, <2>1 DEF WsShape
    <3>2. play'[f].watched = FALSE /\ play'[f].played = 0
      BY <3>1, RewoundIs
    <3> QED BY <3>1, <3>2 DEF EarnedAt
  <2>2. CASE ~(f >= e)
    BY <1>1, <2>2 DEF WsEarned
  <2> QED BY <2>1, <2>2
<1>8. WsShape'
  BY <1>1, <1>4, <1>6, WsTouched DEF WsShape
<1> QED BY <1>1, <1>5, <1>7, <1>8, WsTouched

LEMMA ReadStatusKeeps ==
  ASSUME WsInv, NEW s \in {"COMPLETED", "REPEATING"}, ReadStatus(s)
  PROVE  WsInv'
<1>. USE DEF WsInv
<1> DEFINE enters == s = "REPEATING" /\ entry.status # "REPEATING"
<1>1. /\ change' = [at |-> s, entering |-> enters, touched |-> FALSE]
      /\ UNCHANGED <<play, entry, wsNow, earned, starts, fresh>>
  BY DEF ReadStatus
<1>2. enters \in BOOLEAN
  OBVIOUS
<1> HIDE DEF enters
<1>3. /\ change' \in [at : WsStatuses \cup {"clear"}, entering : BOOLEAN, touched : BOOLEAN] /\ change'.at = s
  BY <1>1, <1>2 DEF WsStatuses
<1>4. WsShape'
  BY <1>1, <1>3 DEF WsShape
<1>5. WsBegins'
  BY <1>1, <1>3 DEF WsBegins
<1> QED BY <1>1, <1>4, <1>5 DEF WsEarned, WsCounted

LEMMA WriteStatusKeeps ==
  ASSUME WsInv, WriteStatus
  PROVE  WsInv'
<1>. USE DEF WsInv
<1> DEFINE prog == IF change.entering THEN 0 ELSE entry.prog
           at == IF change.entering THEN "clear" ELSE "none"
<1>1. /\ change.at \in {"CURRENT", "COMPLETED", "REPEATING"}
      /\ entry' = [entry EXCEPT !.status = change.at, !.prog = prog]
      /\ starts' = IF change.at = "REPEATING" /\ entry.status # "REPEATING" THEN starts + 1 ELSE starts
      /\ change' = [change EXCEPT !.at = at, !.touched = FALSE]
      /\ fresh' = FALSE /\ UNCHANGED <<play, wsNow, earned>>
  BY DEF WriteStatus
<1>2. entry.prog \in Int /\ entry.status \in WsStatuses /\ entry.repeat \in Int /\ starts \in Int /\ change.entering \in BOOLEAN
  BY DEF WsShape, WsEntry
<1>3. prog \in Int /\ at \in WsStatuses \cup {"clear"} /\ (at = "clear" => prog = 0) /\ change.at \in WsStatuses
  BY <1>1, <1>2 DEF WsStatuses
<1> HIDE DEF prog, at
<1>4. entry' \in WsEntry /\ entry'.status = change.at /\ entry'.repeat = entry.repeat /\ entry'.prog = prog
  BY <1>1, <1>3 DEF WsShape, WsEntry
<1>5. /\ change' \in [at : WsStatuses \cup {"clear"}, entering : BOOLEAN, touched : BOOLEAN] /\ change'.at = at
  BY <1>1, <1>3 DEF WsShape
<1>6. starts' \in Int
  BY <1>1, <1>2
<1>7. WsShape'
  BY <1>1, <1>4, <1>5, <1>6 DEF WsShape
<1>8. WsBegins'
  BY <1>1, <1>3, <1>4, <1>5 DEF WsBegins
<1>9. WsCounted'
  BY <1>1, <1>2, <1>4 DEF WsCounted, WsOwed
<1> QED BY <1>1, <1>7, <1>8, <1>9 DEF WsEarned

LEMMA ClearRowsKeeps ==
  ASSUME WsInv, ClearRows
  PROVE  WsInv'
<1>. USE DEF WsInv
<1>1. /\ change.at = "clear" /\ play' = [e \in WsEps |-> [Rewound(play[e]) EXCEPT !.dismissed = FALSE]]
      /\ earned' = [e \in WsEps |-> 0] /\ change' = [change EXCEPT !.at = "none"]
      /\ fresh' = ~change.touched /\ UNCHANGED <<entry, wsNow, starts>>
  BY DEF ClearRows
<1>2. /\ \A e \in WsEps : play'[e] \in WsRow /\ play'[e].watched = FALSE /\ play'[e].pos = 0 /\ play'[e].played = 0
  BY <1>1, RewoundIs DEF WsShape
<1>3. play' \in [WsEps -> WsRow] /\ earned' \in [WsEps -> Int]
  BY <1>1, <1>2
<1>4. /\ change' \in [at : WsStatuses \cup {"clear"}, entering : BOOLEAN, touched : BOOLEAN] /\ change'.at = "none"
      /\ change.touched \in BOOLEAN
  BY <1>1 DEF WsShape, WsStatuses
<1>5. WsShape'
  BY <1>1, <1>3, <1>4 DEF WsShape
<1>6. WsEarned'
  BY <1>1, <1>2 DEF WsEarned, EarnedAt
<1>7. WsBegins'
  BY <1>1, <1>2, <1>4 DEF WsBegins
<1> QED BY <1>1, <1>5, <1>6, <1>7 DEF WsCounted

LEMMA DismissKeeps ==
  ASSUME WsInv, NEW e \in WsEps, Dismiss(e)
  PROVE  WsInv'
<1>. USE DEF WsInv
<1> DEFINE x == [play[e] EXCEPT !.row = TRUE, !.dismissed = TRUE]
<1>1. play' = [play EXCEPT ![e] = x] /\ fresh' = FALSE /\ UNCHANGED <<entry, change, wsNow, earned, starts>>
  BY DEF Dismiss
<1>2. x \in WsRow /\ x.played = play[e].played /\ x.watched = play[e].watched
  BY DEF WsShape, WsRow
<1> HIDE DEF x
<1>3. play' \in [WsEps -> WsRow] /\ play'[e] = x /\ \A f \in WsEps \ {e} : play'[f] = play[f]
  BY <1>1, <1>2 DEF WsShape
<1>4. WsEarned'
  BY <1>1, <1>2, <1>3 DEF WsEarned, EarnedAt
<1>5. WsShape'
  BY <1>1, <1>3 DEF WsShape
<1> QED BY <1>1, <1>4, <1>5 DEF WsBegins, WsCounted

LEMMA ForgetKeeps ==
  ASSUME WsInv, NEW E, Forget(E)
  PROVE  WsInv'
<1>. USE DEF WsInv
<1>1. /\ play' = [e \in WsEps |-> IF e \in E THEN NoRow ELSE play[e]]
      /\ earned' = [e \in WsEps |-> IF e \in E THEN 0 ELSE earned[e]]
      /\ UNCHANGED <<entry, change, wsNow, starts, fresh>>
  BY DEF Forget
<1>2. NoRow \in WsRow /\ NoRow.watched = FALSE /\ NoRow.pos = 0 /\ NoRow.played = 0
  BY DEF NoRow, WsRow
<1>3. \A e \in WsEps : play[e] \in WsRow /\ earned[e] \in Int
  BY DEF WsShape
<1>4. play' \in [WsEps -> WsRow] /\ earned' \in [WsEps -> Int]
  BY <1>1, <1>2, <1>3
<1>5. WsShape'
  BY <1>1, <1>4 DEF WsShape
<1>6. WsEarned'
  <2> SUFFICES ASSUME NEW f \in WsEps PROVE EarnedAt(play'[f], earned'[f])
    BY DEF WsEarned
  <2>1. CASE f \in E
    BY <1>1, <1>2, <2>1 DEF EarnedAt
  <2>2. CASE f \notin E
    BY <1>1, <2>2 DEF WsEarned
  <2> QED BY <2>1, <2>2
<1>7. WsBegins'
  BY <1>1, <1>2 DEF WsBegins
<1> QED BY <1>1, <1>5, <1>6, <1>7 DEF WsCounted

LEMMA PulledKeeps ==
  ASSUME WsInv, NEW s \in {"REPEATING", "CURRENT"}, NEW n \in Int, Pulled(s, n)
  PROVE  WsInv'
<1>. USE DEF WsInv
<1>1. /\ entry' = [entry EXCEPT !.status = s, !.prog = n] /\ Touch /\ UNCHANGED <<play, wsNow, earned>>
      /\ starts' = IF s = "REPEATING" /\ entry.status # "REPEATING" THEN starts + 1 ELSE starts
  BY DEF Pulled
<1>2. entry.status \in WsStatuses /\ entry.repeat \in Int /\ starts \in Int
  BY DEF WsShape, WsEntry
<1>3. entry' \in WsEntry /\ entry'.status = s /\ entry'.repeat = entry.repeat
  BY <1>1 DEF WsShape, WsEntry, WsStatuses
<1>4. starts' \in Int
  BY <1>1, <1>2
<1>5. WsShape'
  BY <1>1, <1>3, <1>4, WsTouched DEF WsShape
<1>6. WsCounted'
  BY <1>1, <1>2, <1>3 DEF WsCounted, WsOwed
<1> QED BY <1>1, <1>5, <1>6, WsTouched DEF WsEarned

(* store/playback.go, store/sync.go: a row claims no more time than was earned since it was last
   rewound, a rewatch entered and untouched is at its start, and one under way is not counted
   yet.  Inductive: any number of episodes, reports and requests, in any order. *)
THEOREM WatchInvariant == WatchSpec => []WsInv
<1>1. WatchInit => WsInv
  <2> SUFFICES ASSUME WatchInit PROVE WsInv
    OBVIOUS
  <2>1. /\ play = [e \in WsEps |-> NoRow] /\ entry = [status |-> "none", prog |-> 0, repeat |-> 0]
        /\ change = [at |-> "none", entering |-> FALSE, touched |-> FALSE]
        /\ wsNow = 1 /\ earned = [e \in WsEps |-> 0] /\ starts = 0 /\ fresh = FALSE
    BY DEF WatchInit
  <2>2. NoRow \in WsRow /\ NoRow.watched = FALSE /\ NoRow.played = 0
    BY DEF NoRow, WsRow
  <2>3. play \in [WsEps -> WsRow] /\ entry \in WsEntry /\ earned \in [WsEps -> Int]
    BY <2>1, <2>2 DEF WsEntry, WsStatuses
  <2>4. change \in [at : WsStatuses \cup {"clear"}, entering : BOOLEAN, touched : BOOLEAN]
    BY <2>1 DEF WsStatuses
  <2>5. wsNow \in Int /\ starts \in Int /\ fresh \in BOOLEAN
    <3>1. wsNow \in Int /\ starts \in Int
      BY <2>1
    <3>2. fresh \in BOOLEAN
      BY <2>1
    <3> QED BY <3>1, <3>2
  <2>6. WsShape
    BY <2>3, <2>4, <2>5 DEF WsShape
  <2>7. WsEarned /\ WsBegins /\ WsCounted
    BY <2>1, <2>2 DEF WsEarned, EarnedAt, WsBegins, WsCounted, WsOwed
  <2> QED BY <2>6, <2>7 DEF WsInv
<1>2. WsInv /\ UNCHANGED watchVars => WsInv'
  BY DEF WsInv, WsShape, WsEarned, WsBegins, WsCounted, watchVars
<1>3. ASSUME WsInv, WatchNext PROVE WsInv'
  <2>1. ASSUME NEW e \in WsEps, NEW pos \in {0, 2, Whole}, NEW claimed \in {0, 2}, NEW dur \in {0, Whole},
               Report(e, pos, claimed, dur)
        PROVE  WsInv'
    <3>1. pos \in Int /\ dur \in Int
      BY DEF Whole
    <3> QED BY <1>3, <2>1, <3>1, ReportKeeps
  <2>2. ASSUME Pulled("REPEATING", WsCount - 1) \/ Pulled("CURRENT", WsCount) PROVE WsInv'
    <3>1. WsCount \in Int /\ WsCount - 1 \in Int
      BY WsAssumption
    <3> QED BY <1>3, <2>2, <3>1, PulledKeeps
  <2>3. ASSUME WsTick PROVE WsInv'
    <3>1. wsNow' \in Int /\ UNCHANGED <<play, entry, change, earned, starts, fresh>>
      BY <1>3, <2>3 DEF WsTick, WsInv, WsShape
    <3> QED BY <1>3, <3>1 DEF WsInv, WsShape, WsEarned, WsBegins, WsCounted
  <2> QED BY <1>3, <2>1, <2>2, <2>3, MarkingKeeps, UnwatchKeeps, DismissKeeps, ReadStatusKeeps, WriteStatusKeeps,
             ClearRowsKeeps, ForgetKeeps DEF WatchNext
<1> QED BY <1>1, <1>2, <1>3, PTL DEF WatchSpec

\* latestFirst is an order: no two rows are the latest.
LEMMA LatestIsOne ==
  ASSUME WsInv, NEW e \in LatestRow, NEW f \in LatestRow
  PROVE  e = f
<1> SUFFICES ASSUME e # f PROVE FALSE
  OBVIOUS
<1>1. e \in WsEps /\ f \in WsEps /\ Later(e, f) /\ Later(f, e)
  BY DEF LatestRow, Offerable
<1>2. /\ play[e].at \in Int /\ play[f].at \in Int /\ play[e].watched \in BOOLEAN /\ play[f].watched \in BOOLEAN
      /\ e \in Int /\ f \in Int
  BY <1>1 DEF WsInv, WsShape, WsRow, WsEps
<1> QED BY <1>1, <1>2 DEF Later

\* The rail leads to one episode of the show.
LEMMA RailIsOne ==
  ASSUME WsInv
  PROVE  Cardinality(Rail) <= 1
<1>1. \A e, f \in Rail : e = f
  BY LatestIsOne DEF Rail, Resume, UpNext
<1>2. CASE Rail = {}
  BY <1>2, FS_EmptySet
<1>3. CASE Rail # {}
  <2>1. PICK e \in Rail : TRUE
    BY <1>3
  <2>2. Rail = {e}
    BY <1>1, <2>1
  <2>3. Cardinality({e}) = 1
    BY FS_Singleton
  <2> HIDE DEF Rail
  <2> QED BY <2>2, <2>3
<1> QED BY <1>2, <1>3

(* store/playback.go, store/library.go continuePicks: a tick stands for time really played, the
   rail and the player go by one rule, a rewatch begins at the first episode and is counted once,
   and the rail leads to one episode. *)
THEOREM WatchStaysSafe == WatchSpec => []WatchSafe
<1>1. WsInv => WatchSafe
  <2> SUFFICES ASSUME WsInv PROVE WatchSafe
    OBVIOUS
  <2>1. TickIsEarned
    BY DEF WsInv, WsEarned, EarnedAt, TickIsEarned
  <2>2. SurfacesAgree
    <3> SUFFICES ASSUME NEW e \in Offerable PROVE InProgress(play[e]) <=> Resumable(play[e])
      BY DEF SurfacesAgree
    <3>1. play[e].dur \in Int /\ play[e].pos \in Int /\ play[e].watched \in BOOLEAN /\ ~play[e].dismissed
      BY DEF Offerable, WsInv, WsShape, WsRow
    <3> QED BY <3>1 DEF InProgress, Resumable, Finished
  <2>3. RewatchIsFresh
    <3> SUFFICES ASSUME fresh PROVE entry.prog = 0 /\ Rail \subseteq {1} /\ Resume = {}
      BY DEF RewatchIsFresh
    <3>1. entry.prog = 0 /\ \A e \in WsEps : play[e].pos = 0
      BY DEF WsInv, WsBegins
    <3>2. Resume = {}
      BY <3>1 DEF Resume, LatestRow, Offerable, InProgress, ResumeMin
    <3>3. UpNext \subseteq {1}
      BY <3>1 DEF UpNext
    <3> QED BY <3>1, <3>2, <3>3 DEF Rail
  <2>4. RewatchesCounted
    <3>1. entry.repeat \in Int /\ starts \in Int
      BY DEF WsInv, WsShape, WsEntry
    <3> QED BY <3>1 DEF WsInv, WsCounted, WsOwed, RewatchesCounted
  <2> QED BY <2>1, <2>2, <2>3, <2>4, RailIsOne DEF WatchSafe
<1> QED BY <1>1, WatchInvariant, PTL

-----------------------------------------------------------------------------
(* The list of episodes: what outranks what, and what comes next.          *)

CtRow == [in : BOOLEAN, title : {"no", "source", "listing"}, still : {"no", "source", "stream"}]
CtKind == [by : {"none", "jikan", "site", "dataset"}, kind : {"unknown", "filler", "canon"}, recap : BOOLEAN]
CtPage == [pc : {"idle", "save", "crawl", "show"}, got : SUBSET Nums, stills : SUBSET Nums]
CtCrawl == [pc : {"idle", "flags", "saveflags", "listing", "fill", "gaps"}, got : SUBSET Nat]
CtShape ==
  /\ rows \in [Nums -> CtRow] /\ kinds \in [Nums -> CtKind]
  /\ page \in [Pages -> CtPage] /\ crawling \in CtCrawl
\* A page saves stills of the episodes it lists.
CtFetched == \A p \in Pages : page[p].stills \subseteq page[p].got
\* What the source gave an image has it; what the dataset classified is so.
CtGiven == \A n \in gaveStill : n \in Nums /\ rows[n].in /\ rows[n].still = "source"
CtSaid == \A n \in dataSaid : n \in Nums /\ kinds[n].by = "dataset" /\ kinds[n].kind # "unknown"
\* A list that is about to fill gaps is the whole show's, or none.
CtWhole == crawling.pc = "fill" => crawling.got = {} \/ 1 .. CatTotal \subseteq crawling.got
CtInv == CtShape /\ CtFetched /\ CtGiven /\ CtSaid /\ CtWhole /\ FillNeverHides

\* The least and the greatest number of a set of episodes.
LEMMA LowIs ==
  ASSUME NEW S \in SUBSET Nat, S # {}
  PROVE  LowOf(S) \in S /\ \A m \in S : LowOf(S) <= m
<1>1. PICK x \in S : \A y \in S : ~(<<y, x>> \in OpToRel(<, Nat))
  BY NatLessThanWellFounded, WFMin
<1>2. \A y \in S : ~(y < x)
  BY <1>1 DEF OpToRel
<1>3. \A m \in S : x <= m
  BY <1>2
<1> QED BY <1>3 DEF LowOf

LEMMA TopIs ==
  ASSUME NEW S \in SUBSET Nums, S # {}
  PROVE  TopOf(S) \in S /\ \A m \in S : m <= TopOf(S)
<1> DEFINE T == {CatMax - m : m \in S}
<1>1. CatMax \in Nat /\ \A m \in S : m \in Nat /\ m <= CatMax
  BY CatAssumption DEF Nums
<1>2. T \in SUBSET Nat /\ T # {}
  BY <1>1
<1>3. LowOf(T) \in T /\ \A t \in T : LowOf(T) <= t
  <2> HIDE DEF T
  <2> QED BY <1>2, LowIs
<1>4. PICK x \in S : LowOf(T) = CatMax - x
  BY <1>3
<1>5. \A m \in S : CatMax - x <= CatMax - m
  BY <1>3, <1>4
<1>6. \A m \in S : m <= x
  BY <1>1, <1>5
<1> QED BY <1>6 DEF TopOf

\* Episode numbers, and the sources' answers among them.
LEMMA CtNumbers ==
  /\ Nums \subseteq Nat /\ 1 .. CatTotal \subseteq Nums /\ 1 \in Nums /\ CatMax \in Nums /\ CatTotal \in Nat
  /\ \A got \in SourceAnswers : got \subseteq Nums
  /\ \A got \in ListingAnswers \cup FlagAnswers : got \subseteq Nat
  /\ \A got \in DatasetAnswers : got \subseteq Nums
<1>1. Nums \subseteq Nat /\ 1 .. CatTotal \subseteq Nums /\ 1 \in Nums /\ CatMax \in Nums /\ CatTotal \in Nat
  BY CatAssumption DEF Nums
<1> QED BY <1>1 DEF SourceAnswers, ListingAnswers, FlagAnswers, DatasetAnswers

LEMMA CtBlank ==
  /\ NoEpRow \in CtRow /\ NoEpRow.still = "no" /\ NoKind \in CtKind
  BY DEF NoEpRow, NoKind, CtRow, CtKind

-----------------------------------------------------------------------------
\* One page becomes x.
LEMMA PageBecomes ==
  ASSUME CtInv, NEW p \in Pages, NEW x \in CtPage, x.stills \subseteq x.got, page' = [page EXCEPT ![p] = x]
  PROVE  page' \in [Pages -> CtPage] /\ CtFetched'
<1>1. page' \in [Pages -> CtPage] /\ page'[p] = x /\ \A q \in Pages \ {p} : page'[q] = page[q]
  BY DEF CtInv, CtShape
<1> QED BY <1>1 DEF CtInv, CtFetched

LEMMA LoadPageKeeps ==
  ASSUME CtInv, NEW p \in Pages, LoadPage(p)
  PROVE  CtInv'
<1>. USE DEF CtInv
<1>1. UNCHANGED <<rows, kinds, crawling, gaveStill, dataSaid, hid>>
  BY DEF LoadPage
<1>2. page[p] \in CtPage /\ page[p].stills \subseteq page[p].got
  BY DEF CtShape, CtFetched
<1>3. page' \in [Pages -> CtPage] /\ CtFetched'
  <2>1. ASSUME NEW s \in {"crawl", "show"}, page' = [page EXCEPT ![p].pc = s]
        PROVE  page' \in [Pages -> CtPage] /\ CtFetched'
    <3> DEFINE x == [page[p] EXCEPT !.pc = s]
    <3>1. page' = [page EXCEPT ![p] = x]
      BY <2>1 DEF CtShape
    <3>2. x \in CtPage /\ x.stills = page[p].stills /\ x.got = page[p].got
      BY <1>2 DEF CtPage
    <3> HIDE DEF x
    <3> QED BY <1>2, <3>1, <3>2, PageBecomes
  <2>2. ASSUME NEW got \in SourceAnswers, NEW stills \in {{}, got},
               page' = [page EXCEPT ![p] = [pc |-> "save", got |-> got, stills |-> stills]]
        PROVE  page' \in [Pages -> CtPage] /\ CtFetched'
    <3> DEFINE x == [pc |-> "save", got |-> got, stills |-> stills]
    <3>1. x \in CtPage /\ x.stills \subseteq x.got
      BY CtNumbers DEF CtPage
    <3> HIDE DEF x
    <3>2. page' = [page EXCEPT ![p] = x]
      BY <2>2 DEF x
    <3> QED BY <3>1, <3>2, PageBecomes
  <2> QED BY <2>1, <2>2 DEF LoadPage
<1> QED BY <1>1, <1>3 DEF CtShape, CtGiven, CtSaid, CtWhole, FillNeverHides

LEMMA SaveEpisodesKeeps ==
  ASSUME CtInv, NEW p \in Pages, SaveEpisodes(p)
  PROVE  CtInv'
<1>. USE DEF CtInv
<1> DEFINE got == page[p].got
           stills == page[p].stills
           stillOf(n) == IF n \in stills THEN "source" ELSE rows[n].still
           x == [pc |-> "crawl", got |-> {}, stills |-> {}]
<1>1. /\ UNCHANGED <<kinds, crawling, dataSaid, hid>> /\ page' = [page EXCEPT ![p] = x]
  BY DEF SaveEpisodes
<1>2. got \subseteq Nums /\ stills \subseteq got
  BY DEF CtShape, CtFetched, CtPage
<1>3. x \in CtPage /\ x.stills \subseteq x.got
  BY DEF CtPage
<1>4. page' \in [Pages -> CtPage] /\ CtFetched'
  <2> HIDE DEF x
  <2> QED BY <1>1, <1>3, PageBecomes
<1>5. rows' \in [Nums -> CtRow] /\ CtGiven'
  <2>1. CASE got = {}
    BY <2>1 DEF SaveEpisodes, CtShape, CtGiven
  <2>2. CASE got # {}
    <3>1. /\ rows' = [n \in Nums |-> IF n \notin got THEN NoEpRow ELSE [in |-> TRUE, title |-> "source", still |-> stillOf(n)]]
          /\ gaveStill' = (gaveStill \cap got) \cup stills
      BY <2>2 DEF SaveEpisodes
    <3>2. \A n \in Nums : stillOf(n) \in {"no", "source", "stream"}
      BY DEF CtShape, CtRow
    <3>3. \A n \in gaveStill' : n \in got /\ n \in Nums /\ stillOf(n) = "source"
      BY <1>2, <3>1 DEF CtGiven
    <3> HIDE DEF stillOf, got, stills
    <3>4. \A n \in Nums : /\ [in |-> TRUE, title |-> "source", still |-> stillOf(n)] \in CtRow
                          /\ [in |-> TRUE, title |-> "source", still |-> stillOf(n)].in
                          /\ [in |-> TRUE, title |-> "source", still |-> stillOf(n)].still = stillOf(n)
      BY <3>2 DEF CtRow
    <3>5. rows' \in [Nums -> CtRow]
      BY <3>1, <3>4, CtBlank
    <3>6. \A n \in gaveStill' : rows'[n] = [in |-> TRUE, title |-> "source", still |-> stillOf(n)]
      BY <3>1, <3>3
    <3>7. CtGiven'
      BY <3>3, <3>4, <3>6 DEF CtGiven
    <3> QED BY <3>5, <3>7
  <2> QED BY <2>1, <2>2
<1> QED BY <1>1, <1>4, <1>5 DEF CtShape, CtSaid, CtWhole, FillNeverHides

\* A page goes on; a crawl is started unless one runs.
LEMMA PageGoesOn ==
  ASSUME CtInv, NEW p \in Pages, StartCrawl(p) \/ ShowPage(p)
  PROVE  CtInv'
<1>. USE DEF CtInv
<1>1. UNCHANGED <<rows, kinds, gaveStill, dataSaid, hid>>
  BY DEF StartCrawl, ShowPage
<1>2. page[p] \in CtPage /\ page[p].stills \subseteq page[p].got
  BY DEF CtShape, CtFetched
<1>3. PICK s \in {"show", "idle"} : page' = [page EXCEPT ![p].pc = s]
  BY DEF StartCrawl, ShowPage
<1> DEFINE x == [page[p] EXCEPT !.pc = s]
<1>4. page' = [page EXCEPT ![p] = x]
  BY <1>3 DEF CtShape
<1>5. x \in CtPage /\ x.stills = page[p].stills /\ x.got = page[p].got
  BY <1>2 DEF CtPage
<1> HIDE DEF x
<1>6. page' \in [Pages -> CtPage] /\ CtFetched'
  BY <1>2, <1>4, <1>5, PageBecomes
<1>7. crawling' \in CtCrawl /\ CtWhole'
  <2>1. crawling' = crawling \/ crawling' = [pc |-> "flags", got |-> {}]
    BY DEF StartCrawl, ShowPage
  <2>2. CASE crawling' = crawling
    BY <2>2 DEF CtShape, CtWhole
  <2>3. CASE crawling' = [pc |-> "flags", got |-> {}]
    BY <2>3 DEF CtCrawl, CtWhole
  <2> QED BY <2>1, <2>2, <2>3
<1> QED BY <1>1, <1>6, <1>7 DEF CtShape, CtGiven, CtSaid, FillNeverHides

-----------------------------------------------------------------------------
\* Rows that change so that what the source gave stays as it is.
LEMMA RowsChange ==
  ASSUME CtInv, rows' \in [Nums -> CtRow], \A n \in gaveStill : rows'[n] = rows[n],
         UNCHANGED <<kinds, page, crawling, gaveStill, dataSaid, hid>>
  PROVE  CtInv'
  BY DEF CtInv, CtShape, CtFetched, CtGiven, CtSaid, CtWhole, FillNeverHides

LEMMA StillsKeeps ==
  ASSUME CtInv, ReadStillGaps \/ SetEpisodeStills
  PROVE  CtInv'
<1>. USE DEF CtInv
<1>1. UNCHANGED <<kinds, page, crawling, gaveStill, dataSaid, hid>>
  BY DEF ReadStillGaps, SetEpisodeStills
<1>2. CASE ReadStillGaps
  <2>1. rows' = rows
    BY <1>2 DEF ReadStillGaps
  <2> QED BY <1>1, <2>1, RowsChange DEF CtShape
<1>3. CASE SetEpisodeStills
  <2>1. PICK found : rows' = [n \in Nums |-> IF n \in found /\ rows[n].in /\ rows[n].still = "no"
                                             THEN [rows[n] EXCEPT !.still = "stream"] ELSE rows[n]]
    BY <1>3 DEF SetEpisodeStills
  <2>2. \A n \in Nums : rows[n] \in CtRow /\ [rows[n] EXCEPT !.still = "stream"] \in CtRow
    BY DEF CtShape, CtRow
  <2>3. rows' \in [Nums -> CtRow]
    BY <2>1, <2>2
  <2>4. \A n \in gaveStill : n \in Nums /\ rows[n].still # "no"
    BY DEF CtGiven
  <2>5. \A n \in gaveStill : rows'[n] = rows[n]
    BY <2>1, <2>4
  <2> QED BY <1>1, <2>3, <2>5, RowsChange
<1> QED BY <1>2, <1>3

LEMMA SaveDerivedKeeps ==
  ASSUME CtInv, SaveDerived
  PROVE  CtInv'
<1>. USE DEF CtInv
<1>1. UNCHANGED <<kinds, page, crawling, gaveStill, dataSaid, hid>>
  BY DEF SaveDerived
<1>2. CASE rows' = rows
  BY <1>1, <1>2, RowsChange DEF CtShape
<1>3. ASSUME NEW got,
             rows' = [n \in Nums |-> IF n \in got /\ ~rows[n].in THEN [NoEpRow EXCEPT !.in = TRUE] ELSE rows[n]]
      PROVE  CtInv'
  <2>1. [NoEpRow EXCEPT !.in = TRUE] \in CtRow /\ \A n \in Nums : rows[n] \in CtRow
    BY CtBlank DEF CtShape, CtRow
  <2>2. rows' \in [Nums -> CtRow]
    BY <1>3, <2>1
  <2>3. \A n \in gaveStill : n \in Nums /\ rows[n].in
    BY DEF CtGiven
  <2>4. \A n \in gaveStill : rows'[n] = rows[n]
    BY <1>3, <2>3
  <2> QED BY <1>1, <2>2, <2>4, RowsChange
<1> QED BY <1>2, <1>3 DEF SaveDerived

\* Kinds and the crawl change so that what the dataset said stays as it is.
LEMMA KindsChange ==
  ASSUME CtInv, kinds' \in [Nums -> CtKind], crawling' \in CtCrawl, CtWhole',
         \A n \in dataSaid : kinds'[n].by = kinds[n].by /\ kinds'[n].kind = kinds[n].kind,
         UNCHANGED <<rows, page, gaveStill, dataSaid, hid>>
  PROVE  CtInv'
<1>1. CtShape'
  BY DEF CtInv, CtShape
<1>2. CtSaid'
  BY DEF CtInv, CtSaid
<1> QED BY <1>1, <1>2 DEF CtInv, CtFetched, CtGiven, FillNeverHides

LEMMA CrawlFlagsKeeps ==
  ASSUME CtInv, CrawlFlags
  PROVE  CtInv'
<1>. USE DEF CtInv
<1>1. kinds' = kinds /\ UNCHANGED <<rows, page, gaveStill, dataSaid, hid>>
  BY DEF CrawlFlags
<1>2. crawling' \in CtCrawl /\ CtWhole'
  <2>1. CASE crawling' = [crawling EXCEPT !.pc = "listing"]
    <3>1. crawling' \in CtCrawl /\ crawling'.pc = "listing"
      BY <2>1 DEF CtShape, CtCrawl
    <3> QED BY <3>1 DEF CtWhole
  <2>2. ASSUME NEW got \in FlagAnswers, crawling' = [pc |-> "saveflags", got |-> got]
        PROVE  crawling' \in CtCrawl /\ CtWhole'
    <3>1. got \in SUBSET Nat
      BY CtNumbers
    <3>2. crawling' \in CtCrawl /\ crawling'.pc = "saveflags"
      BY <2>2, <3>1 DEF CtCrawl
    <3> QED BY <3>2 DEF CtWhole
  <2> QED BY <2>1, <2>2 DEF CrawlFlags
<1> QED BY <1>1, <1>2, KindsChange DEF CtShape

LEMMA SaveFlagsKeeps ==
  ASSUME CtInv, SaveFlags
  PROVE  CtInv'
<1>. USE DEF CtInv
<1> DEFINE x == [by |-> "jikan", kind |-> "filler", recap |-> TRUE]
<1>1. /\ crawling' = [pc |-> "listing", got |-> {}] /\ UNCHANGED <<rows, page, gaveStill, dataSaid, hid>>
      /\ kinds' = [n \in Nums |-> IF n \notin crawling.got THEN kinds[n]
                     ELSE IF kinds[n].kind = "unknown" THEN x ELSE [kinds[n] EXCEPT !.recap = TRUE]]
  BY DEF SaveFlags
<1>2. crawling' \in CtCrawl /\ CtWhole'
  BY <1>1 DEF CtCrawl, CtWhole
<1>3. x \in CtKind
  BY DEF CtKind
<1> HIDE DEF x
<1>4. \A n \in Nums : /\ kinds[n] \in CtKind /\ [kinds[n] EXCEPT !.recap = TRUE] \in CtKind
                      /\ [kinds[n] EXCEPT !.recap = TRUE].by = kinds[n].by
                      /\ [kinds[n] EXCEPT !.recap = TRUE].kind = kinds[n].kind
  BY DEF CtShape, CtKind
<1>5. kinds' \in [Nums -> CtKind]
  BY <1>1, <1>3, <1>4
<1>6. \A n \in dataSaid : kinds'[n].by = kinds[n].by /\ kinds'[n].kind = kinds[n].kind
  BY <1>1, <1>4 DEF CtSaid
<1> QED BY <1>1, <1>2, <1>5, <1>6, KindsChange

\* listing: what is left of an answer is the whole show, or nothing.
LEMMA WholeOnlyIs ==
  ASSUME NEW got \in ListingAnswers
  PROVE  WholeOnly(got) \in SUBSET Nat /\ (WholeOnly(got) = {} \/ 1 .. CatTotal \subseteq WholeOnly(got))
<1>1. got \in SUBSET Nat
  BY CtNumbers
<1>2. CASE got = {1}
  <2>1. Cardinality(got) = 1
    BY <1>2, FS_Singleton
  <2>2. WholeOnly(got) = {} \/ (WholeOnly(got) = {1} /\ CatTotal \in {0, 1})
    BY <1>2, <2>1, CtNumbers DEF WholeOnly
  <2> QED BY <2>2
<1>3. CASE got # {1}
  <2>1. got = {} \/ 1 .. CatTotal \subseteq got
    BY <1>3, CtNumbers DEF ListingAnswers
  <2> QED BY <1>1, <2>1 DEF WholeOnly
<1> QED BY <1>2, <1>3

LEMMA AskListingKeeps ==
  ASSUME CtInv, AskListing
  PROVE  CtInv'
<1>. USE DEF CtInv
<1>1. kinds' = kinds /\ UNCHANGED <<rows, page, gaveStill, dataSaid, hid>>
  BY DEF AskListing
<1>2. crawling' \in CtCrawl /\ CtWhole'
  <2>1. CASE crawling' = [pc |-> "gaps", got |-> {}]
    BY <2>1 DEF CtCrawl, CtWhole
  <2>2. ASSUME NEW got \in ListingAnswers, crawling' = [pc |-> "fill", got |-> WholeOnly(got)]
        PROVE  crawling' \in CtCrawl /\ CtWhole'
    <3>1. crawling' \in CtCrawl
      BY <2>2, WholeOnlyIs DEF CtCrawl
    <3>2. CtWhole'
      BY <2>2, WholeOnlyIs DEF CtWhole
    <3> QED BY <3>1, <3>2
  <2> QED BY <2>1, <2>2 DEF AskListing
<1> QED BY <1>1, <1>2, KindsChange DEF CtShape

\* What the page lists holds what is stored, or the count when nothing is.
LEMMA ListedHolds ==
  ASSUME NEW R
  PROVE  Stored(R) \subseteq Listed(R) /\ (Stored(R) = {} => Listed(R) = 1 .. CatTotal)
  BY DEF Listed

LEMMA FillEpisodesKeeps ==
  ASSUME CtInv, FillEpisodes
  PROVE  CtInv'
<1>. USE DEF CtInv
<1> DEFINE named(n) == IF rows[n].title = "no" THEN "listing" ELSE rows[n].title
           filled(n) == [rows[n] EXCEPT !.in = TRUE, !.title = named(n)]
           new == [n \in Nums |-> IF n \notin crawling.got THEN rows[n] ELSE filled(n)]
<1>1. /\ crawling.pc = "fill" /\ crawling' = [pc |-> "gaps", got |-> {}] /\ rows' = new
      /\ hid' = hid \cup ((Listed(rows) \cap 1 .. CatTotal) \ Listed(new))
      /\ UNCHANGED <<kinds, page, gaveStill, dataSaid>>
  BY DEF FillEpisodes
<1>2. \A n \in Nums : rows[n] \in CtRow /\ named(n) \in {"no", "source", "listing"}
  BY DEF CtShape, CtRow
<1> HIDE DEF named
<1>3. \A n \in Nums : filled(n) \in CtRow /\ filled(n).in /\ filled(n).still = rows[n].still
  BY <1>2 DEF CtRow
<1> HIDE DEF filled
<1>4. new \in [Nums -> CtRow] /\ \A n \in Nums : new[n] = IF n \notin crawling.got THEN rows[n] ELSE filled(n)
  BY <1>2, <1>3
<1>5. CASE crawling.got = {}
  <2>1. new = rows
    BY <1>5 DEF CtShape
  <2> QED BY <1>1, <2>1 DEF CtShape, CtCrawl, CtFetched, CtGiven, CtSaid, CtWhole, FillNeverHides
<1>6. CASE 1 .. CatTotal \subseteq crawling.got
  <2>1. 1 .. CatTotal \subseteq Stored(new)
    <3> HIDE DEF new
    <3> QED BY <1>3, <1>4, <1>6, CtNumbers DEF Stored
  <2> HIDE DEF new
  <2>2. 1 .. CatTotal \subseteq Listed(new)
    BY <2>1, ListedHolds
  <2>3. hid' = {}
    BY <1>1, <2>2 DEF FillNeverHides
  <2>4. CtGiven'
    BY <1>1, <1>3, <1>4 DEF CtGiven
  <2>5. crawling' \in CtCrawl /\ CtWhole'
    BY <1>1 DEF CtCrawl, CtWhole
  <2> QED BY <1>1, <1>4, <2>3, <2>4, <2>5 DEF CtShape, CtFetched, CtSaid, FillNeverHides
<1> QED BY <1>1, <1>5, <1>6 DEF CtWhole

LEMMA FillerGapsKeeps ==
  ASSUME CtInv, FillerGaps
  PROVE  CtInv'
<1>. USE DEF CtInv
<1>1. crawling' = [pc |-> "idle", got |-> {}] /\ UNCHANGED <<rows, page, gaveStill, dataSaid, hid>>
  BY DEF FillerGaps
<1>2. PICK found : kinds' = [n \in Nums |-> IF n \in found /\ kinds[n].kind = "unknown"
                                            THEN [kinds[n] EXCEPT !.by = "site", !.kind = "canon"] ELSE kinds[n]]
  BY DEF FillerGaps
<1>3. crawling' \in CtCrawl /\ CtWhole'
  BY <1>1 DEF CtCrawl, CtWhole
<1>4. \A n \in Nums : kinds[n] \in CtKind /\ [kinds[n] EXCEPT !.by = "site", !.kind = "canon"] \in CtKind
  BY DEF CtShape, CtKind
<1>5. kinds' \in [Nums -> CtKind]
  BY <1>2, <1>4
<1>6. \A n \in dataSaid : kinds'[n] = kinds[n]
  BY <1>2 DEF CtSaid
<1> QED BY <1>1, <1>3, <1>5, <1>6, KindsChange

LEMMA SaveFillersKeeps ==
  ASSUME CtInv, SaveFillers
  PROVE  CtInv'
<1>. USE DEF CtInv
<1>1. UNCHANGED <<rows, page, crawling, gaveStill, hid>>
  BY DEF SaveFillers
<1>2. PICK said \in DatasetAnswers, k \in {"filler", "unknown"} :
        /\ kinds' = [n \in Nums |-> IF n \in said THEN [kinds[n] EXCEPT !.by = "dataset", !.kind = k] ELSE kinds[n]]
        /\ dataSaid' = IF k = "unknown" THEN dataSaid \ said ELSE dataSaid \cup said
  BY DEF SaveFillers
<1> DEFINE toldOf(n) == [kinds[n] EXCEPT !.by = "dataset", !.kind = k]
<1>3. \A n \in Nums : kinds[n] \in CtKind /\ toldOf(n) \in CtKind /\ toldOf(n).by = "dataset" /\ toldOf(n).kind = k
  BY DEF CtShape, CtKind
<1>4. /\ kinds' = [n \in Nums |-> IF n \in said THEN toldOf(n) ELSE kinds[n]] /\ said \subseteq Nums
  BY <1>2, CtNumbers
<1> HIDE DEF toldOf
<1>5. kinds' \in [Nums -> CtKind]
  BY <1>3, <1>4
<1>6. CtSaid'
  <2> SUFFICES ASSUME NEW n \in dataSaid' PROVE n \in Nums /\ kinds'[n].by = "dataset" /\ kinds'[n].kind # "unknown"
    BY DEF CtSaid
  <2>1. CASE n \in said
    BY <1>2, <1>3, <1>4, <2>1
  <2>2. CASE n \notin said
    BY <1>2, <1>4, <2>2 DEF CtSaid
  <2> QED BY <2>1, <2>2
<1> QED BY <1>1, <1>5, <1>6 DEF CtShape, CtFetched, CtGiven, CtWhole, FillNeverHides

(* library/enrich.go over store/episodes.go: what the episode source gave and what the dataset said
   are on the rows they were said of, and a list that fills gaps is the whole show's.  Inductive:
   any number of episodes, pages and crawls. *)
THEOREM CatalogueInvariant == CatSpec => []CtInv
<1>1. CatInit => CtInv
  <2> SUFFICES ASSUME CatInit PROVE CtInv
    OBVIOUS
  <2>1. /\ rows = [n \in Nums |-> NoEpRow] /\ kinds = [n \in Nums |-> NoKind]
        /\ page = [p \in Pages |-> [pc |-> "idle", got |-> {}, stills |-> {}]]
        /\ crawling = [pc |-> "idle", got |-> {}] /\ gaveStill = {} /\ dataSaid = {} /\ hid = {}
    BY DEF CatInit
  <2>2. rows \in [Nums -> CtRow] /\ kinds \in [Nums -> CtKind]
    BY <2>1, CtBlank
  <2>3. page \in [Pages -> CtPage] /\ CtFetched
    BY <2>1 DEF CtPage, CtFetched
  <2>4. crawling \in CtCrawl /\ CtWhole
    BY <2>1 DEF CtCrawl, CtWhole
  <2>5. CtGiven /\ CtSaid /\ FillNeverHides
    BY <2>1 DEF CtGiven, CtSaid, FillNeverHides
  <2> QED BY <2>2, <2>3, <2>4, <2>5 DEF CtInv, CtShape
<1>2. ASSUME CtInv, UNCHANGED <<rows, kinds, page, crawling, gaveStill, dataSaid, hid>> PROVE CtInv'
  BY <1>2, RowsChange DEF CtInv, CtShape
<1>3. ASSUME CtInv, [CatNext]_catVars PROVE CtInv'
  <2>1. ASSUME CatTime PROVE CtInv'
    BY <1>2, <1>3, <2>1 DEF CatTime
  <2>2. ASSUME UNCHANGED catVars PROVE CtInv'
    BY <1>2, <1>3, <2>2 DEF catVars
  <2> QED BY <1>3, <2>1, <2>2, LoadPageKeeps, SaveEpisodesKeeps, PageGoesOn, StillsKeeps, CrawlFlagsKeeps, SaveFlagsKeeps,
             AskListingKeeps, FillEpisodesKeeps, FillerGapsKeeps, SaveFillersKeeps, SaveDerivedKeeps DEF CatNext
<1> QED BY <1>1, <1>3, PTL DEF CatSpec

\* NextEpisode: the least row that is worth playing, or past the rows.
LEMMA NextIs ==
  ASSUME CtInv, NEW e \in 1 .. CatTotal
  PROVE  /\ NextEpisode(e) = 0 \/ NextEpisode(e) > e
         /\ NextEpisode(e) # 0 =>
              \A n \in Stored(rows) : e < n /\ n < NextEpisode(e) => kinds[n].kind = "filler" \/ kinds[n].recap
<1> DEFINE good == {n \in Stored(rows) : n > e /\ kinds[n].kind # "filler" /\ ~kinds[n].recap}
           final == IF Stored(rows) = {} THEN 0 ELSE TopOf(Stored(rows))
           x == IF good # {} THEN LowOf(good) ELSE 1 + IF final > e THEN final ELSE e
<1>1. Stored(rows) \in SUBSET Nums /\ good \in SUBSET Nat /\ e \in Nat
  BY CtNumbers DEF Stored
<1>2. final \in Nat
  BY <1>1, TopIs, CtNumbers
<1>3. x > e
  <2>1. CASE good # {}
    <3>1. LowOf(good) \in good
      <4> HIDE DEF good
      <4> QED BY <1>1, <2>1, LowIs
    <3> QED BY <1>1, <2>1, <3>1
  <2>2. CASE good = {}
    <3> HIDE DEF final
    <3> QED BY <1>1, <1>2, <2>2
  <2> QED BY <2>1, <2>2
<1>4. \A n \in Stored(rows) : e < n /\ n < x => n \notin good
  <2>1. CASE good # {}
    <3>1. LowOf(good) \in Nat /\ \A n \in good : LowOf(good) <= n
      <4> HIDE DEF good
      <4> QED BY <1>1, <2>1, LowIs
    <3>2. \A n \in good : ~(n < x)
      <4> HIDE DEF good
      <4> QED BY <1>1, <2>1, <3>1
    <3> QED BY <3>2
  <2>2. CASE good = {}
    BY <2>2
  <2> QED BY <2>1, <2>2
<1>5. \A n \in Stored(rows) : e < n /\ n < x => kinds[n].kind = "filler" \/ kinds[n].recap
  <2> HIDE DEF x
  <2> QED BY <1>1, <1>4, CtNumbers
<1>6. NextEpisode(e) = IF x > CatTotal THEN 0 ELSE x
  BY DEF NextEpisode
<1> HIDE DEF x, good, final
<1> QED BY <1>3, <1>5, <1>6

(* store/episodes.go, library/enrich.go: a thumbnail never stands where the source gave an image, no
   site overrules the dataset, filling gaps takes no episode off the page, and playing on moves
   forward over no more than filler and recaps. *)
THEOREM CatalogueStaysSafe == CatSpec => []CatalogueSafe
<1>1. CtInv => CatalogueSafe
  <2> SUFFICES ASSUME CtInv PROVE CatalogueSafe
    OBVIOUS
  <2>1. StillsKeepRank
    BY DEF CtInv, CtGiven, StillsKeepRank
  <2>2. KindsKeepRank
    BY DEF CtInv, CtSaid, KindsKeepRank
  <2>3. NextMovesOn
    BY NextIs DEF NextMovesOn
  <2> QED BY <2>1, <2>2, <2>3 DEF CtInv, CatalogueSafe
<1> QED BY <1>1, CatalogueInvariant, PTL

-----------------------------------------------------------------------------
(* The account's token: one refresh at a time, and what a login leaves.     *)

TkPairs == Nat \X Nat
TkBusy == {"ask", "post", "answer", "persist"}
TkCall == [pc : TkBusy \cup {"idle", "lock"}, spent : TkPairs, got : TkPairs]
TkLoginRun == [pc : {"idle", "exchange", "persist", "viewer", "save"}, spent : TkPairs, got : TkPairs]
\* A token the site has given, to an account that logged in.
TkHeld(t, val) == t \in TkPairs /\ t[1] \in 1 .. MaxLogins /\ t[2] >= 1 /\ val[t[1]] >= 1
TkShape ==
  /\ call \in [Callers -> TkCall] /\ login \in TkLoginRun /\ logout \in {"idle", "clear"}
  /\ valid \in [1 .. MaxLogins -> Nat] /\ logins \in 0 .. MaxLogins /\ waiting \in 0 .. logins
  /\ refreshing \in Callers \cup {"free", "logout"} /\ blurred \in BOOLEAN /\ out \in BOOLEAN
TkTokens == (token = NoToken \/ TkHeld(token, valid)) /\ (kept = NoToken \/ TkHeld(kept, valid))
\* The lock is held by the one that refreshes, or by the logout.
TkLock ==
  /\ \A c \in Callers : call[c].pc \in TkBusy <=> refreshing = c
  /\ logout = "clear" <=> refreshing = "logout"
\* A refresh spends a token the site gave; while it is out the client holds that one, or another
\* account's.
TkCallAt(x, tok, val) ==
  /\ x.pc \in {"post", "answer", "persist"} => TkHeld(x.spent, val)
  /\ x.pc \in {"post", "answer"} => x.spent = tok \/ x.spent[1] # tok[1]
  /\ x.pc \in {"answer", "persist"} => x.got = <<x.spent[1], x.spent[2] + 1>>
  /\ x.pc = "answer" => x.got[2] = val[x.got[1]]
  /\ x.pc = "persist" => tok # NoToken
TkCalls == \A c \in Callers : TkCallAt(call[c], token, valid)
\* A login is of an account the site has given nothing yet, until it is exchanged.
TkLoginAt(x, wait, val) ==
  /\ x.pc \in {"persist", "viewer", "save"} => TkHeld(x.got, val)
  /\ x.pc = "exchange" => x.spent[1] \in 1 .. logins /\ x.spent[1] # wait
TkLogins == TkLoginAt(login, waiting, valid)
TkNew ==
  \A a \in 1 .. MaxLogins :
    a > logins \/ a = waiting \/ (login.pc = "exchange" /\ a = login.spent[1]) => valid[a] = 0
\* The token is the one the site accepts, or a refresh has the one that is.
TkGood ==
  ~blurred /\ token # NoToken =>
    \/ token[2] = valid[token[1]]
    \/ \E c \in Callers : call[c].pc = "answer" /\ call[c].spent = token
\* What is kept is what is held, or someone is about to write it down.
TkKept ==
  ~blurred => token = kept \/ (\E c \in Callers : call[c].pc = "persist") \/ login.pc = "persist" \/ logout = "clear"
TkOut == ~blurred => (out => token = NoToken) /\ token[1] \in {0, last}
TkInv == TkShape /\ TkTokens /\ TkLock /\ TkCalls /\ TkLogins /\ TkNew /\ TkGood /\ TkKept /\ TkOut

\* One call becomes x; the rest stay.
LEMMA CallBecomes ==
  ASSUME TkInv, NEW c \in Callers, NEW x \in TkCall, call' = [call EXCEPT ![c] = x]
  PROVE  call' \in [Callers -> TkCall] /\ call'[c] = x /\ \A d \in Callers \ {c} : call'[d] = call[d]
  BY DEF TkInv, TkShape

\* Who rests is not refreshing.
LEMMA TkRests ==
  /\ Resting \in TkCall /\ Resting \in TkLoginRun /\ Resting.pc = "idle" /\ [Resting EXCEPT !.pc = "ask"] \in TkCall
  /\ [Resting EXCEPT !.pc = "ask"].pc = "ask" /\ NoToken \in TkPairs /\ NoToken[1] = 0 /\ NoToken[2] = 0
<1>1. NoToken \in TkPairs /\ NoToken[1] = 0 /\ NoToken[2] = 0
  BY DEF NoToken, TkPairs
<1> HIDE DEF NoToken
<1>2. Resting \in TkCall /\ Resting \in TkLoginRun /\ Resting.pc = "idle"
  BY <1>1 DEF Resting, TkCall, TkBusy, TkLoginRun
<1>3. [Resting EXCEPT !.pc = "ask"] \in TkCall /\ [Resting EXCEPT !.pc = "ask"].pc = "ask"
  BY <1>2 DEF TkCall, TkBusy
<1> QED BY <1>1, <1>2, <1>3

\* A token the site gave is none of the account's that wait for theirs.
LEMMA HeldIs ==
  ASSUME NEW t, NEW val, TkHeld(t, val)
  PROVE  t \in TkPairs /\ t[1] \in 1 .. MaxLogins /\ t[1] \in Nat \ {0} /\ t[2] \in Nat \ {0} /\ t # NoToken /\ val[t[1]] >= 1
<1>1. t \in TkPairs /\ t[1] \in 1 .. MaxLogins /\ t[2] >= 1 /\ val[t[1]] >= 1
  BY DEF TkHeld
<1>2. t[1] \in Nat \ {0} /\ t[2] \in Nat \ {0}
  BY <1>1, TokenAssumption DEF TkPairs
<1> QED BY <1>1, <1>2, TkRests

\* Two who refresh are one.
LEMMA OneRefreshes ==
  ASSUME TkInv, NEW c \in Callers, call[c].pc \in TkBusy
  PROVE  refreshing = c /\ logout = "idle" /\ \A d \in Callers \ {c} : call[d].pc \notin TkBusy
<1>1. refreshing = c /\ c # "logout"
  BY TokenAssumption DEF TkInv, TkLock
<1>2. \A d \in Callers \ {c} : call[d].pc \notin TkBusy
  BY <1>1 DEF TkInv, TkLock
<1>3. logout = "idle"
  BY <1>1 DEF TkInv, TkLock, TkShape
<1> QED BY <1>1, <1>2, <1>3

\* The lock goes with the call that becomes x: taken, held or given back.
LEMMA LockGoes ==
  ASSUME TkInv, NEW c \in Callers, NEW x \in TkCall, call' = [call EXCEPT ![c] = x], logout' = logout,
         \/ call[c].pc \in TkBusy /\ x.pc \in TkBusy /\ refreshing' = refreshing
         \/ call[c].pc \in TkBusy /\ x.pc \notin TkBusy /\ refreshing' = "free"
         \/ refreshing = "free" /\ x.pc \in TkBusy /\ refreshing' = c
         \/ call[c].pc \notin TkBusy /\ x.pc \notin TkBusy /\ refreshing' = refreshing
  PROVE  TkLock' /\ refreshing' \in Callers \cup {"free", "logout"}
<1>1. call'[c] = x /\ \A d \in Callers \ {c} : call'[d] = call[d]
  BY CallBecomes
<1>2. /\ \A d \in Callers : call[d].pc \in TkBusy <=> refreshing = d
      /\ logout = "clear" <=> refreshing = "logout"
      /\ refreshing \in Callers \cup {"free", "logout"}
  BY DEF TkInv, TkLock, TkShape
<1>3. CASE call[c].pc \in TkBusy /\ x.pc \in TkBusy /\ refreshing' = refreshing
  BY <1>1, <1>2, <1>3 DEF TkLock
<1>4. CASE call[c].pc \in TkBusy /\ x.pc \notin TkBusy /\ refreshing' = "free"
  <2>1. refreshing = c /\ logout # "clear"
    BY <1>2, <1>4, TokenAssumption
  <2>2. \A d \in Callers : d # "free"
    BY TokenAssumption
  <2> QED BY <1>1, <1>2, <1>4, <2>1, <2>2 DEF TkLock
<1>5. CASE refreshing = "free" /\ x.pc \in TkBusy /\ refreshing' = c
  <2>1. logout # "clear" /\ c # "logout" /\ \A d \in Callers : d # "free"
    BY <1>2, <1>5, TokenAssumption
  <2> QED BY <1>1, <1>2, <1>5, <2>1 DEF TkLock
<1>6. CASE call[c].pc \notin TkBusy /\ x.pc \notin TkBusy /\ refreshing' = refreshing
  BY <1>1, <1>2, <1>6 DEF TkLock
<1> QED BY <1>3, <1>4, <1>5, <1>6

\* A step of one call that writes nothing down: no token is taken, and the site gives none.
LEMMA CallSteps ==
  ASSUME TkInv, NEW c \in Callers, NEW x \in TkCall, call' = [call EXCEPT ![c] = x],
         UNCHANGED <<token, kept, login, logout, waiting, valid, logins, blurred, last, out>>,
         TkLock', refreshing' \in Callers \cup {"free", "logout"}, TkCallAt(x, token, valid),
         call[c].pc = "answer" => call[c].spent # token, call[c].pc # "persist"
  PROVE  TkInv'
<1>. USE DEF TkInv
<1>1. call' \in [Callers -> TkCall] /\ call'[c] = x /\ \A d \in Callers \ {c} : call'[d] = call[d]
  BY CallBecomes
<1>2. TkShape'
  BY <1>1 DEF TkShape
<1>3. TkCalls'
  BY <1>1 DEF TkCalls
<1>4. TkTokens' /\ TkLogins' /\ TkNew' /\ TkOut'
  BY DEF TkTokens, TkLogins, TkNew, TkOut, TkLoginAt
<1>5. TkGood'
  BY <1>1 DEF TkGood
<1>6. TkKept'
  BY <1>1 DEF TkKept
<1> QED BY <1>2, <1>3, <1>4, <1>5, <1>6

LEMMA CallKeeps ==
  ASSUME TkInv, NEW c \in Callers, Call(c)
  PROVE  TkInv'
<1> DEFINE x == [call[c] EXCEPT !.pc = "lock"]
<1>1. call[c].pc = "idle" /\ call[c] \in TkCall
  BY DEF Call, TkInv, TkShape
<1>2. call' = [call EXCEPT ![c] = x] /\ UNCHANGED <<token, kept, refreshing, login, logout, waiting, valid, logins, blurred, last, out>>
  BY DEF Call
<1>3. x \in TkCall /\ x.pc = "lock"
  BY <1>1 DEF TkCall
<1> HIDE DEF x
<1>4. TkLock' /\ refreshing' \in Callers \cup {"free", "logout"}
  BY <1>1, <1>2, <1>3, LockGoes DEF TkBusy
<1>5. TkCallAt(x, token, valid)
  BY <1>3 DEF TkCallAt
<1> QED BY <1>1, <1>2, <1>3, <1>4, <1>5, CallSteps

LEMMA LockKeeps ==
  ASSUME TkInv, NEW c \in Callers, Lock(c)
  PROVE  TkInv'
<1>1. /\ call[c].pc = "lock" /\ refreshing = "free"
      /\ UNCHANGED <<token, kept, login, logout, waiting, valid, logins, blurred, last, out>>
  BY DEF Lock
<1>2. PICK x \in {Resting, [Resting EXCEPT !.pc = "ask"]} :
        /\ call' = [call EXCEPT ![c] = x]
        /\ x.pc = "ask" => refreshing' = c
        /\ x.pc = "idle" => refreshing' = "free"
  BY TkRests DEF Lock
<1>3. x \in TkCall /\ x.pc \in {"idle", "ask"}
  BY TkRests
<1>4. TkLock' /\ refreshing' \in Callers \cup {"free", "logout"}
  BY <1>1, <1>2, <1>3, LockGoes DEF TkBusy
<1>5. TkCallAt(x, token, valid)
  BY <1>3 DEF TkCallAt
<1> QED BY <1>1, <1>2, <1>3, <1>4, <1>5, CallSteps

LEMMA RefreshKeeps ==
  ASSUME TkInv, NEW c \in Callers, Refresh(c)
  PROVE  TkInv'
<1>1. /\ call[c].pc = "ask" /\ call[c] \in TkCall
      /\ UNCHANGED <<token, kept, login, logout, waiting, valid, logins, blurred, last, out>>
  BY DEF Refresh, TkInv, TkShape
<1>2. CASE token = NoToken
  <2>1. call' = [call EXCEPT ![c] = Resting] /\ refreshing' = "free"
    BY <1>2 DEF Refresh
  <2>2. TkLock' /\ refreshing' \in Callers \cup {"free", "logout"}
    BY <1>1, <2>1, TkRests, LockGoes DEF TkBusy
  <2>3. TkCallAt(Resting, token, valid)
    BY TkRests DEF TkCallAt
  <2> QED BY <1>1, <2>1, <2>2, <2>3, TkRests, CallSteps
<1>3. CASE token # NoToken
  <2> DEFINE x == [call[c] EXCEPT !.pc = "post", !.spent = token]
  <2>1. call' = [call EXCEPT ![c] = x] /\ refreshing' = refreshing
    BY <1>3 DEF Refresh
  <2>2. TkHeld(token, valid)
    BY <1>3 DEF TkInv, TkTokens
  <2>3. x \in TkCall /\ x.pc = "post" /\ x.spent = token
    BY <1>1, <2>2, HeldIs DEF TkCall, TkBusy
  <2> HIDE DEF x
  <2>4. TkLock' /\ refreshing' \in Callers \cup {"free", "logout"}
    BY <1>1, <2>1, <2>3, LockGoes DEF TkBusy
  <2>5. TkCallAt(x, token, valid)
    BY <2>2, <2>3 DEF TkCallAt
  <2> QED BY <1>1, <2>1, <2>3, <2>4, <2>5, CallSteps
<1> QED BY <1>2, <1>3

\* The site gives the account of a token it gave its next: what others hold is as good as it was,
\* and who waits for a first one still does.
LEMMA GrantKeeps ==
  ASSUME TkInv, NEW t, TkHeld(t, valid), Grant(t[1]), UNCHANGED <<login, waiting, logins>>,
         token' = token, kept' = kept
  PROVE  /\ valid' \in [1 .. MaxLogins -> Nat] /\ valid'[t[1]] = valid[t[1]] + 1
         /\ \A a \in 1 .. MaxLogins : a # t[1] => valid'[a] = valid[a]
         /\ \A u : TkHeld(u, valid) => TkHeld(u, valid')
         /\ TkTokens' /\ TkLogins' /\ TkNew'
<1>1. t[1] \in 1 .. MaxLogins /\ valid[t[1]] >= 1 /\ valid \in [1 .. MaxLogins -> Nat]
  BY HeldIs DEF TkInv, TkShape
<1>2. /\ valid' \in [1 .. MaxLogins -> Nat] /\ valid'[t[1]] = valid[t[1]] + 1
      /\ \A a \in 1 .. MaxLogins : a # t[1] => valid'[a] = valid[a]
  BY <1>1 DEF Grant
<1>3. ASSUME NEW u, TkHeld(u, valid) PROVE TkHeld(u, valid')
  BY <1>1, <1>2, <1>3 DEF TkHeld
<1>4. TkTokens' /\ TkLogins'
  BY <1>3 DEF TkInv, TkTokens, TkLogins, TkLoginAt
<1>5. TkNew'
  BY <1>1, <1>2 DEF TkInv, TkNew
<1> QED BY <1>2, <1>3, <1>4, <1>5

LEMMA PostKeeps ==
  ASSUME TkInv, NEW c \in Callers, Post(c)
  PROVE  TkInv'
<1>. USE DEF TkInv
<1> DEFINE t == call[c].spent
<1>1. /\ call[c].pc = "post" /\ call[c] \in TkCall /\ call[c].pc \in TkBusy
      /\ UNCHANGED <<token, kept, login, logout, waiting, logins, blurred, last, out>>
  BY DEF Post, TkShape, TkBusy
<1>2. TkHeld(t, valid) /\ (t = token \/ t[1] # token[1])
  BY <1>1 DEF TkCalls, TkCallAt
<1>3. CASE t[2] # valid[t[1]]
  <2>1. valid' = valid /\ refreshing' = "free" /\ call' = [call EXCEPT ![c] = Resting]
    BY <1>3 DEF Post
  <2>2. TkLock' /\ refreshing' \in Callers \cup {"free", "logout"}
    BY <1>1, <2>1, TkRests, LockGoes DEF TkBusy
  <2>3. TkCallAt(Resting, token, valid)
    BY TkRests DEF TkCallAt
  <2> QED BY <1>1, <2>1, <2>2, <2>3, TkRests, CallSteps
<1>4. CASE t[2] = valid[t[1]]
  <2> DEFINE g == <<t[1], t[2] + 1>>
             x == [call[c] EXCEPT !.pc = "answer", !.got = g]
  <2>1. Grant(t[1]) /\ refreshing' = refreshing /\ call' = [call EXCEPT ![c] = x]
    BY <1>4 DEF Post
  <2>2. t \in TkPairs /\ t[1] \in 1 .. MaxLogins /\ t[1] \in Nat /\ t[2] \in Nat /\ valid[t[1]] >= 1
    BY <1>2, HeldIs
  <2>3. g \in TkPairs /\ g[1] = t[1] /\ g[2] = t[2] + 1
    BY <2>2 DEF TkPairs
  <2> HIDE DEF g
  <2>4. x \in TkCall /\ x.pc = "answer" /\ x.got = g /\ x.spent = t
    BY <1>1, <2>3 DEF TkCall, TkBusy
  <2> HIDE DEF x
  <2>5. /\ valid' \in [1 .. MaxLogins -> Nat] /\ valid'[t[1]] = valid[t[1]] + 1
        /\ \A a \in 1 .. MaxLogins : a # t[1] => valid'[a] = valid[a]
        /\ \A u : TkHeld(u, valid) => TkHeld(u, valid')
        /\ TkTokens' /\ TkLogins' /\ TkNew'
    <3> HIDE DEF t
    <3> QED BY <1>1, <1>2, <2>1, GrantKeeps
  <2>6. TkLock' /\ refreshing' \in Callers \cup {"free", "logout"}
    BY <1>1, <2>1, <2>4, LockGoes DEF TkBusy
  <2>7. call' \in [Callers -> TkCall] /\ call'[c] = x /\ \A d \in Callers \ {c} : call'[d] = call[d]
    BY <2>1, <2>4, CallBecomes
  <2>8. \A d \in Callers \ {c} : call'[d].pc \notin TkBusy
    BY <1>1, <2>7, OneRefreshes
  <2>9. TkShape'
    BY <1>1, <2>5, <2>6, <2>7 DEF TkShape
  <2>10. TkCalls'
    <3>1. TkCallAt(x, token, valid')
      BY <1>2, <1>4, <2>3, <2>4, <2>5, g = <<t[1], t[2] + 1>> DEF TkCallAt, g
    <3>2. \A d \in Callers \ {c} : TkCallAt(call'[d], token, valid')
      BY <2>8 DEF TkCallAt, TkBusy
    <3> QED BY <1>1, <2>7, <3>1, <3>2 DEF TkCalls
  <2>11. TkGood'
    <3> SUFFICES ASSUME ~blurred, token # NoToken
                 PROVE  token[2] = valid'[token[1]] \/ \E d \in Callers : call'[d].pc = "answer" /\ call'[d].spent = token
      BY <1>1 DEF TkGood
    <3>1. CASE t = token
      BY <2>4, <2>7, <3>1
    <3>2. CASE t # token
      <4>1. token[1] \in 1 .. MaxLogins /\ token[1] # t[1]
        BY <1>2, <3>2, HeldIs DEF TkTokens
      <4>2. ~\E d \in Callers : call[d].pc = "answer"
        BY <1>1, OneRefreshes DEF TkBusy
      <4> QED BY <2>5, <4>1, <4>2 DEF TkGood
    <3> QED BY <3>1, <3>2
  <2>12. TkKept'
    <3>1. ~\E d \in Callers : call[d].pc = "persist"
      BY <1>1, OneRefreshes DEF TkBusy
    <3> QED BY <1>1, <3>1 DEF TkKept
  <2>13. TkOut'
    BY <1>1 DEF TkOut
  <2> QED BY <2>5, <2>6, <2>9, <2>10, <2>11, <2>12, <2>13
<1> QED BY <1>3, <1>4

LEMMA PostFailsKeeps ==
  ASSUME TkInv, NEW c \in Callers, PostFails(c)
  PROVE  TkInv'
<1>. USE DEF TkInv
<1> DEFINE t == call[c].spent
<1>1. /\ call[c].pc = "post" /\ call[c].pc \in TkBusy /\ refreshing' = "free" /\ call' = [call EXCEPT ![c] = Resting]
      /\ UNCHANGED <<token, kept, login, logout, waiting, logins, last, out>>
  BY DEF PostFails, TkBusy
<1>2. TkLock' /\ refreshing' \in Callers \cup {"free", "logout"}
  BY <1>1, TkRests, LockGoes DEF TkBusy
<1>3. TkCallAt(Resting, token, valid) /\ TkCallAt(Resting, token, valid')
  BY TkRests DEF TkCallAt
<1>4. CASE valid' = valid /\ blurred' = blurred
  BY <1>1, <1>2, <1>3, <1>4, TkRests, CallSteps
<1>5. CASE Grant(t[1]) /\ blurred' = TRUE
  <2>1. TkHeld(t, valid)
    BY <1>1 DEF TkCalls, TkCallAt
  <2>2. valid' \in [1 .. MaxLogins -> Nat] /\ TkTokens' /\ TkLogins' /\ TkNew'
    <3> HIDE DEF t
    <3> QED BY <1>1, <1>5, <2>1, GrantKeeps
  <2>3. call' \in [Callers -> TkCall] /\ call'[c] = Resting /\ \A d \in Callers \ {c} : call'[d] = call[d]
    BY <1>1, TkRests, CallBecomes
  <2>4. \A d \in Callers \ {c} : call'[d].pc \notin TkBusy
    BY <1>1, <2>3, OneRefreshes
  <2>5. TkShape'
    BY <1>1, <1>2, <1>5, <2>2, <2>3 DEF TkShape
  <2>6. TkCalls'
    <3>1. \A d \in Callers \ {c} : TkCallAt(call'[d], token, valid')
      BY <2>4 DEF TkCallAt, TkBusy
    <3> QED BY <1>1, <1>3, <2>3, <3>1 DEF TkCalls
  <2> QED BY <1>2, <1>5, <2>2, <2>5, <2>6 DEF TkGood, TkKept, TkOut
<1> QED BY <1>4, <1>5 DEF PostFails

LEMMA TakeTokenKeeps ==
  ASSUME TkInv, NEW c \in Callers, TakeToken(c)
  PROVE  TkInv'
<1>. USE DEF TkInv
<1> DEFINE y == call[c]
<1>1. /\ y.pc = "answer" /\ y \in TkCall /\ y.pc \in TkBusy
      /\ UNCHANGED <<kept, login, logout, waiting, valid, logins, blurred, last, out>>
  BY DEF TakeToken, TkShape, TkBusy
<1>2. TkHeld(y.spent, valid) /\ y.got = <<y.spent[1], y.spent[2] + 1>> /\ y.got[2] = valid[y.got[1]]
  BY <1>1 DEF TkCalls, TkCallAt
<1>3. CASE token # y.spent
  <2>1. token' = token /\ call' = [call EXCEPT ![c] = Resting] /\ refreshing' = "free"
    BY <1>3 DEF TakeToken
  <2>2. TkLock' /\ refreshing' \in Callers \cup {"free", "logout"}
    BY <1>1, <2>1, TkRests, LockGoes DEF TkBusy
  <2>3. TkCallAt(Resting, token, valid)
    BY TkRests DEF TkCallAt
  <2> QED BY <1>1, <1>3, <2>1, <2>2, <2>3, TkRests, CallSteps
<1>4. CASE token = y.spent
  <2> DEFINE x == [y EXCEPT !.pc = "persist"]
  <2>1. token' = y.got /\ call' = [call EXCEPT ![c] = x] /\ refreshing' = refreshing
    BY <1>4 DEF TakeToken
  <2>2. x \in TkCall /\ x.pc = "persist" /\ x.spent = y.spent /\ x.got = y.got
    BY <1>1 DEF TkCall, TkBusy
  <2> HIDE DEF x
  <2>3. y.spent[1] \in 1 .. MaxLogins /\ y.spent[2] \in Nat /\ valid[y.spent[1]] >= 1 /\ token # NoToken
    BY <1>2, <1>4, HeldIs
  <2>4. y.got[1] = y.spent[1] /\ y.got[2] = y.spent[2] + 1 /\ y.got \in TkPairs
    BY <1>1, <1>2 DEF TkCall
  <2>5. TkHeld(y.got, valid) /\ y.got # NoToken
    <3>1. TkHeld(y.got, valid)
      BY <2>3, <2>4 DEF TkHeld
    <3> QED BY <3>1, HeldIs
  <2>6. TkLock' /\ refreshing' \in Callers \cup {"free", "logout"}
    BY <1>1, <2>1, <2>2, LockGoes DEF TkBusy
  <2>7. call' \in [Callers -> TkCall] /\ call'[c] = x /\ \A d \in Callers \ {c} : call'[d] = call[d]
    BY <2>1, <2>2, CallBecomes
  <2>8. \A d \in Callers \ {c} : call'[d].pc \notin TkBusy
    BY <1>1, <2>7, OneRefreshes
  <2>9. TkShape'
    BY <1>1, <2>6, <2>7 DEF TkShape
  <2>10. TkTokens' /\ TkLogins' /\ TkNew'
    BY <1>1, <2>1, <2>5 DEF TkTokens, TkLogins, TkLoginAt, TkNew
  <2>11. TkCalls'
    <3>1. TkCallAt(x, y.got, valid)
      BY <1>2, <2>2, <2>5 DEF TkCallAt
    <3>2. \A d \in Callers \ {c} : TkCallAt(call'[d], y.got, valid)
      BY <2>8 DEF TkCallAt, TkBusy
    <3> QED BY <1>1, <2>1, <2>7, <3>1, <3>2 DEF TkCalls
  <2>12. TkGood'
    BY <1>1, <1>2, <2>1 DEF TkGood
  <2>13. TkKept'
    BY <2>2, <2>7 DEF TkKept
  <2>14. TkOut'
    BY <1>1, <1>4, <2>1, <2>3, <2>4 DEF TkOut
  <2> QED BY <2>6, <2>9, <2>10, <2>11, <2>12, <2>13, <2>14
<1> QED BY <1>3, <1>4

LEMMA PersistKeeps ==
  ASSUME TkInv, NEW c \in Callers, Persist(c)
  PROVE  TkInv'
<1>. USE DEF TkInv
<1> DEFINE y == call[c]
<1>1. /\ y.pc = "persist" /\ y \in TkCall /\ y.pc \in TkBusy /\ kept' = y.got /\ call' = [call EXCEPT ![c] = Resting]
      /\ refreshing' = "free" /\ blurred' = (blurred \/ token \notin {y.got, NoToken})
      /\ UNCHANGED <<token, login, logout, waiting, valid, logins, last, out>>
  BY DEF Persist, TkShape, TkBusy
<1>2. TkHeld(y.spent, valid) /\ y.got = <<y.spent[1], y.spent[2] + 1>> /\ token # NoToken
  BY <1>1 DEF TkCalls, TkCallAt
<1>3. TkHeld(y.got, valid)
  <2>1. y.spent[1] \in 1 .. MaxLogins /\ y.spent[2] \in Nat /\ valid[y.spent[1]] >= 1
    BY <1>2, HeldIs
  <2>2. y.got[1] = y.spent[1] /\ y.got[2] = y.spent[2] + 1 /\ y.got \in TkPairs
    BY <1>1, <1>2 DEF TkCall
  <2> QED BY <2>1, <2>2 DEF TkHeld
<1>4. TkLock' /\ refreshing' \in Callers \cup {"free", "logout"}
  BY <1>1, TkRests, LockGoes DEF TkBusy
<1>5. call' \in [Callers -> TkCall] /\ call'[c] = Resting /\ \A d \in Callers \ {c} : call'[d] = call[d]
  BY <1>1, TkRests, CallBecomes
<1>6. \A d \in Callers : call'[d].pc \notin TkBusy
  BY <1>1, <1>5, TkRests, OneRefreshes DEF TkBusy
<1>7. TkShape'
  <2>1. blurred' \in BOOLEAN
    BY <1>1 DEF TkShape
  <2> QED BY <1>1, <1>4, <1>5, <2>1 DEF TkShape
<1>8. TkTokens' /\ TkLogins' /\ TkNew'
  BY <1>1, <1>3 DEF TkTokens, TkLogins, TkLoginAt, TkNew
<1>9. TkCalls'
  BY <1>6 DEF TkCalls, TkCallAt, TkBusy
<1>10. TkGood'
  <2> SUFFICES ASSUME ~blurred' PROVE token[2] = valid[token[1]]
    BY <1>1 DEF TkGood
  <2>1. ~blurred /\ ~\E d \in Callers : call[d].pc = "answer"
    BY <1>1, OneRefreshes DEF TkBusy
  <2> QED BY <1>2, <2>1 DEF TkGood
<1>11. TkKept'
  BY <1>1, <1>2 DEF TkKept
<1>12. TkOut'
  BY <1>1 DEF TkOut
<1> QED BY <1>4, <1>7, <1>8, <1>9, <1>10, <1>11, <1>12

-----------------------------------------------------------------------------
LEMMA StartLoginKeeps ==
  ASSUME TkInv, StartLogin
  PROVE  TkInv'
<1>. USE DEF TkInv
<1>1. /\ logins < MaxLogins /\ logins' = logins + 1 /\ waiting' = logins + 1
      /\ UNCHANGED <<token, kept, refreshing, call, login, logout, valid, blurred, last, out>>
  BY DEF StartLogin
<1>2. logins \in Nat /\ MaxLogins \in Nat /\ logins \in 0 .. MaxLogins
  BY TokenAssumption DEF TkShape
<1>3. logins' \in 0 .. MaxLogins /\ waiting' \in 0 .. logins'
  BY <1>1, <1>2
<1>4. TkShape'
  BY <1>1, <1>3 DEF TkShape
<1>5. TkLogins'
  BY <1>1, <1>2 DEF TkLogins, TkLoginAt
<1>6. TkNew'
  BY <1>1, <1>2 DEF TkNew
<1> QED BY <1>1, <1>4, <1>5, <1>6 DEF TkTokens, TkLock, TkCalls, TkGood, TkKept, TkOut

\* A login goes on and nothing is taken or written by it.
LEMMA LoginSteps ==
  ASSUME TkInv, login' \in TkLoginRun, waiting' \in 0 .. logins, TkLogins', TkNew', login.pc # "persist",
         UNCHANGED <<token, kept, refreshing, call, logout, valid, logins, blurred, last, out>>
  PROVE  TkInv'
<1>1. TkShape'
  BY DEF TkInv, TkShape
<1>2. TkKept'
  BY DEF TkInv, TkKept
<1> QED BY <1>1, <1>2 DEF TkInv, TkTokens, TkLock, TkCalls, TkGood, TkOut

LEMMA CallbackKeeps ==
  ASSUME TkInv, NEW n \in 1 .. MaxLogins, Callback(n)
  PROVE  TkInv'
<1>. USE DEF TkInv
<1> DEFINE s == <<n, 0>>
<1>1. /\ login.pc = "idle" /\ waiting = n /\ waiting' = 0 /\ login' = [Resting EXCEPT !.pc = "exchange", !.spent = s]
      /\ UNCHANGED <<token, kept, refreshing, call, logout, valid, logins, blurred, last, out>>
  BY DEF Callback
<1>2. n \in 1 .. logins /\ logins \in Nat /\ n \in Nat
  BY <1>1, TokenAssumption DEF TkShape
<1>3. s \in TkPairs /\ s[1] = n
  BY <1>2 DEF TkPairs
<1> HIDE DEF s
<1>4. login' \in TkLoginRun /\ login'.pc = "exchange" /\ login'.spent = s
  BY <1>1, <1>3, TkRests DEF TkLoginRun
<1>5. waiting' \in 0 .. logins
  BY <1>1, <1>2
<1>6. TkLogins'
  BY <1>1, <1>2, <1>3, <1>4 DEF TkLogins, TkLoginAt
<1>7. TkNew'
  BY <1>1, <1>3, <1>4 DEF TkNew
<1> QED BY <1>1, <1>4, <1>5, <1>6, <1>7, LoginSteps

LEMMA LoginEndsKeeps ==
  ASSUME TkInv, ExchangeFails \/ Viewer
  PROVE  TkInv'
<1>. USE DEF TkInv
<1>1. /\ login.pc \in {"exchange", "viewer"}
      /\ UNCHANGED <<token, kept, refreshing, call, logout, waiting, valid, logins, blurred, last, out>>
  BY DEF ExchangeFails, Viewer
<1>2. login' = Resting \/ (login.pc = "viewer" /\ login' = [login EXCEPT !.pc = "save"])
  BY DEF ExchangeFails, Viewer
<1>3. CASE login' = Resting
  <2>1. TkLogins' /\ TkNew'
    BY <1>1, <1>3, TkRests DEF TkLogins, TkLoginAt, TkNew
  <2> QED BY <1>1, <1>3, <2>1, TkRests, LoginSteps DEF TkShape
<1>4. CASE login.pc = "viewer" /\ login' = [login EXCEPT !.pc = "save"]
  <2>1. login' \in TkLoginRun /\ login'.pc = "save" /\ login'.got = login.got
    BY <1>4 DEF TkShape, TkLoginRun
  <2>2. TkLogins' /\ TkNew'
    BY <1>1, <1>4, <2>1 DEF TkLogins, TkLoginAt, TkNew
  <2> QED BY <1>1, <2>1, <2>2, LoginSteps DEF TkShape
<1> QED BY <1>2, <1>3, <1>4

LEMMA ExchangeKeeps ==
  ASSUME TkInv, Exchange
  PROVE  TkInv'
<1>. USE DEF TkInv
<1> DEFINE n == login.spent[1]
           t == <<n, 1>>
<1>1. /\ login.pc = "exchange" /\ Grant(n) /\ token' = t /\ login' = [login EXCEPT !.pc = "persist", !.got = t]
      /\ out' = FALSE /\ last' = n /\ blurred' = (blurred \/ logout = "clear")
      /\ UNCHANGED <<kept, refreshing, call, logout, waiting, logins>>
  BY DEF Exchange
<1>2. logins \in 0 .. MaxLogins /\ MaxLogins \in Nat /\ valid \in [1 .. MaxLogins -> Nat]
  BY TokenAssumption DEF TkShape
<1>3. n \in 1 .. logins /\ n # waiting
  BY <1>1 DEF TkLogins, TkLoginAt
<1>4. n \in 1 .. MaxLogins /\ valid[n] = 0 /\ n \in Nat \ {0}
  BY <1>1, <1>2, <1>3 DEF TkNew
<1> HIDE DEF n
<1>5. valid' \in [1 .. MaxLogins -> Nat] /\ valid'[n] = 1 /\ \A a \in 1 .. MaxLogins : a # n => valid'[a] = valid[a]
  BY <1>1, <1>2, <1>4 DEF Grant
<1>6. t \in TkPairs /\ t[1] = n /\ t[2] = 1
  BY <1>4 DEF TkPairs
<1> HIDE DEF t
<1>7. TkHeld(t, valid') /\ t # NoToken
  <2>1. TkHeld(t, valid')
    BY <1>4, <1>5, <1>6 DEF TkHeld
  <2> QED BY <2>1, HeldIs
<1>8. ASSUME NEW u, TkHeld(u, valid) PROVE TkHeld(u, valid') /\ u[1] # n /\ valid'[u[1]] = valid[u[1]]
  BY <1>4, <1>5, <1>8 DEF TkHeld
<1>9. login' \in TkLoginRun /\ login'.pc = "persist" /\ login'.got = t
  BY <1>1, <1>6 DEF TkShape, TkLoginRun
<1>10. TkShape'
  <2>1. blurred' \in BOOLEAN /\ out' \in BOOLEAN
    BY <1>1 DEF TkShape
  <2> QED BY <1>1, <1>5, <1>9, <2>1 DEF TkShape
<1>11. TkTokens'
  BY <1>1, <1>7, <1>8 DEF TkTokens
<1>12. TkCalls'
  <2> SUFFICES ASSUME NEW c \in Callers PROVE TkCallAt(call[c], t, valid')
    BY <1>1 DEF TkCalls
  <2>1. TkCallAt(call[c], token, valid)
    BY DEF TkCalls
  <2>2. CASE call[c].pc \notin {"post", "answer", "persist"}
    BY <2>2 DEF TkCallAt
  <2>3. CASE call[c].pc \in {"post", "answer", "persist"}
    <3>1. TkHeld(call[c].spent, valid') /\ call[c].spent[1] # n /\ valid'[call[c].spent[1]] = valid[call[c].spent[1]]
      BY <1>8, <2>1, <2>3 DEF TkCallAt
    <3>2. call[c].pc = "answer" => call[c].got[1] = call[c].spent[1] /\ call[c].got[2] = valid[call[c].got[1]]
      BY <2>1 DEF TkCallAt
    <3> QED BY <1>6, <1>7, <2>1, <2>3, <3>1, <3>2 DEF TkCallAt
  <2> QED BY <2>2, <2>3
<1>13. TkLogins'
  BY <1>1, <1>7, <1>9 DEF TkLogins, TkLoginAt
<1>14. TkNew'
  BY <1>1, <1>2, <1>3, <1>5, <1>9 DEF TkNew
<1>15. TkGood' /\ TkKept'
  BY <1>1, <1>5, <1>6, <1>9 DEF TkGood, TkKept
<1>16. TkOut'
  BY <1>1, <1>6 DEF TkOut
<1>17. TkLock'
  BY <1>1 DEF TkLock
<1> QED BY <1>10, <1>11, <1>12, <1>13, <1>14, <1>15, <1>16, <1>17

LEMMA SaveLoginKeeps ==
  ASSUME TkInv, SaveLogin
  PROVE  TkInv'
<1>. USE DEF TkInv
<1>1. /\ login.pc \in {"persist", "save"} /\ kept' = login.got /\ blurred' = (blurred \/ token # login.got)
      /\ login' = IF login.pc = "persist" THEN [login EXCEPT !.pc = "viewer"] ELSE Resting
      /\ UNCHANGED <<token, refreshing, call, logout, waiting, valid, logins, last, out>>
  BY DEF SaveLogin
<1>2. TkHeld(login.got, valid)
  BY <1>1 DEF TkLogins, TkLoginAt
<1>3. login' \in TkLoginRun /\ (login'.pc = "idle" \/ (login'.pc = "viewer" /\ login'.got = login.got))
  <2>1. CASE login.pc = "persist"
    BY <1>1, <2>1 DEF TkShape, TkLoginRun
  <2>2. CASE login.pc # "persist"
    BY <1>1, <2>2, TkRests
  <2> QED BY <2>1, <2>2
<1>4. TkShape'
  <2>1. blurred' \in BOOLEAN
    BY <1>1 DEF TkShape
  <2> QED BY <1>1, <1>3, <2>1 DEF TkShape
<1>5. TkTokens' /\ TkLogins' /\ TkNew'
  BY <1>1, <1>2, <1>3 DEF TkTokens, TkLogins, TkLoginAt, TkNew
<1>6. TkGood' /\ TkKept' /\ TkOut'
  BY <1>1 DEF TkGood, TkKept, TkOut
<1> QED BY <1>1, <1>4, <1>5, <1>6 DEF TkLock, TkCalls

LEMMA ForgetTokenKeeps ==
  ASSUME TkInv, ForgetToken
  PROVE  TkInv'
<1>. USE DEF TkInv
<1>1. /\ logout = "idle" /\ refreshing = "free" /\ refreshing' = "logout" /\ logout' = "clear" /\ token' = NoToken
      /\ UNCHANGED <<kept, call, login, waiting, valid, logins, blurred, last, out>>
  BY DEF ForgetToken
<1>2. \A c \in Callers : c # "free" /\ c # "logout"
  BY TokenAssumption
<1>3. \A c \in Callers : call[c].pc \notin TkBusy
  BY <1>1, <1>2 DEF TkLock
<1>4. TkShape' /\ TkLock'
  BY <1>1, <1>2, <1>3 DEF TkShape, TkLock
<1>5. TkCalls'
  BY <1>1, <1>3 DEF TkCalls, TkCallAt, TkBusy
<1>6. TkTokens' /\ TkLogins' /\ TkNew'
  BY <1>1 DEF TkTokens, TkLogins, TkLoginAt, TkNew
<1>7. TkGood' /\ TkKept' /\ TkOut'
  BY <1>1, TkRests DEF TkGood, TkKept, TkOut
<1> QED BY <1>4, <1>5, <1>6, <1>7

LEMMA ClearSettingsKeeps ==
  ASSUME TkInv, ClearSettings
  PROVE  TkInv'
<1>. USE DEF TkInv
<1>1. /\ logout = "clear" /\ logout' = "idle" /\ kept' = NoToken /\ waiting' = 0 /\ out' = (login.pc = "idle")
      /\ refreshing' = IF refreshing = "logout" THEN "free" ELSE refreshing
      /\ blurred' = (blurred \/ token # NoToken \/ login.pc \notin {"idle", "exchange"})
      /\ UNCHANGED <<token, call, login, valid, logins, last>>
  BY DEF ClearSettings
<1>2. refreshing = "logout" /\ refreshing' = "free" /\ \A c \in Callers : c # "free" /\ c # "logout"
  BY <1>1, TokenAssumption DEF TkLock
<1>3. \A c \in Callers : call[c].pc \notin TkBusy
  BY <1>2 DEF TkLock
<1>4. TkShape'
  <2>1. blurred' \in BOOLEAN /\ out' \in BOOLEAN
    BY <1>1 DEF TkShape
  <2>2. waiting' \in 0 .. logins'
    BY <1>1, TokenAssumption DEF TkShape
  <2> QED BY <1>1, <1>2, <2>1, <2>2 DEF TkShape
<1>5. TkLock'
  BY <1>1, <1>2, <1>3 DEF TkLock
<1>6. TkCalls'
  BY <1>1 DEF TkCalls
<1>7. TkLogins' /\ TkTokens'
  <2>1. login.pc = "exchange" => login.spent[1] # 0
    BY TokenAssumption DEF TkLogins, TkLoginAt, TkShape
  <2> QED BY <1>1, <2>1 DEF TkTokens, TkLogins, TkLoginAt
<1>8. TkNew'
  BY <1>1 DEF TkNew
<1>9. TkGood' /\ TkKept' /\ TkOut'
  BY <1>1, <1>3 DEF TkGood, TkKept, TkOut, TkBusy
<1> QED BY <1>4, <1>5, <1>6, <1>7, <1>8, <1>9

LEMMA RestartKeeps ==
  ASSUME TkInv, TokenRestart
  PROVE  TkInv'
<1>. USE DEF TkInv
<1>1. /\ blurred' = (blurred \/ token # kept \/ \E c \in Callers : call[c].pc \in {"answer", "persist"})
      /\ token' = kept /\ refreshing' = "free" /\ call' = [c \in Callers |-> Resting] /\ login' = Resting /\ logout' = "idle"
      /\ UNCHANGED <<kept, waiting, valid, logins, last, out>>
  BY DEF TokenRestart
<1>2. call' \in [Callers -> TkCall] /\ \A c \in Callers : call'[c].pc = "idle"
  BY <1>1, TkRests
<1>3. login' \in TkLoginRun /\ login'.pc = "idle" /\ \A c \in Callers : c # "free"
  BY <1>1, TkRests, TokenAssumption
<1>4. TkShape'
  <2>1. blurred' \in BOOLEAN
    BY <1>1 DEF TkShape
  <2> QED BY <1>1, <1>2, <1>3, <2>1 DEF TkShape
<1>5. TkLock' /\ TkCalls'
  BY <1>1, <1>2, <1>3 DEF TkLock, TkCalls, TkCallAt, TkBusy
<1>6. TkTokens' /\ TkLogins' /\ TkNew'
  BY <1>1, <1>3 DEF TkTokens, TkLogins, TkLoginAt, TkNew
<1>7. TkGood' /\ TkKept' /\ TkOut'
  BY <1>1 DEF TkGood, TkKept, TkOut
<1> QED BY <1>4, <1>5, <1>6, <1>7

(* mal/auth.go, mal/mal.go, server/mal.go: the lock is one refresh's or the logout's, a refresh in
   flight spends what is held or what a login replaced, and what is kept is what is held but for
   the writer about to note it.  Inductive: any number of callers, logins, logouts and starts. *)
THEOREM TokenInvariant == TokenSpec => []TkInv
<1>1. TokenInit => TkInv
  <2> SUFFICES ASSUME TokenInit PROVE TkInv
    OBVIOUS
  <2>1. /\ token = NoToken /\ kept = NoToken /\ refreshing = "free" /\ call = [c \in Callers |-> Resting]
        /\ login = Resting /\ logout = "idle" /\ waiting = 0 /\ valid = [a \in 1 .. MaxLogins |-> 0]
        /\ logins = 0 /\ blurred = FALSE /\ last = 0 /\ out = FALSE
    BY DEF TokenInit
  <2>2. call \in [Callers -> TkCall] /\ (\A c \in Callers : call[c].pc = "idle") /\ login \in TkLoginRun /\ login.pc = "idle"
    BY <2>1, TkRests
  <2>3. valid \in [1 .. MaxLogins -> Nat] /\ (\A a \in 1 .. MaxLogins : valid[a] = 0) /\ logins \in 0 .. MaxLogins
        /\ waiting \in 0 .. logins
    BY <2>1, TokenAssumption
  <2>4. blurred \in BOOLEAN /\ out \in BOOLEAN
    BY <2>1
  <2>5. refreshing \in Callers \cup {"free", "logout"} /\ logout \in {"idle", "clear"}
    BY <2>1
  <2>6. TkShape
    BY <2>2, <2>3, <2>4, <2>5 DEF TkShape
  <2>7. TkTokens /\ TkNew /\ TkGood /\ TkKept
    BY <2>1, <2>3 DEF TkTokens, TkNew, TkGood, TkKept
  <2>8. TkLock /\ TkCalls /\ TkLogins
    BY <2>1, <2>2, TokenAssumption DEF TkLock, TkCalls, TkCallAt, TkLogins, TkLoginAt, TkBusy
  <2>9. TkOut
    BY <2>1, TkRests DEF TkOut
  <2> QED BY <2>6, <2>7, <2>8, <2>9 DEF TkInv
<1>2. ASSUME TkInv, UNCHANGED <<token, kept, refreshing, call, login, logout, waiting, valid, logins, blurred, last, out>>
      PROVE  TkInv'
  BY <1>2 DEF TkInv, TkShape, TkTokens, TkLock, TkCalls, TkLogins, TkLoginAt, TkNew, TkGood, TkKept, TkOut
<1>3. ASSUME TkInv, [TokenNext]_tokenVars PROVE TkInv'
  <2>1. ASSUME TokenAges PROVE TkInv'
    BY <1>2, <1>3, <2>1 DEF TokenAges
  <2>2. ASSUME UNCHANGED tokenVars PROVE TkInv'
    BY <1>2, <1>3, <2>2 DEF tokenVars
  <2>3. ASSUME NEW c \in Callers,
               \/ Call(c) \/ Lock(c) \/ Refresh(c) \/ Post(c) \/ PostFails(c) \/ TakeToken(c) \/ Persist(c)
        PROVE  TkInv'
    BY <1>3, <2>3, CallKeeps, LockKeeps, RefreshKeeps, PostKeeps, PostFailsKeeps, TakeTokenKeeps, PersistKeeps
  <2> QED BY <1>3, <2>1, <2>2, <2>3, StartLoginKeeps, CallbackKeeps, LoginEndsKeeps, ExchangeKeeps, SaveLoginKeeps,
             ForgetTokenKeeps, ClearSettingsKeeps, RestartKeeps DEF TokenNext
<1> QED BY <1>1, <1>3, PTL DEF TokenSpec

(* mal/auth.go "One refresh at a time, or two spending one refresh token store a revoked one", "a
   logout or a new login since the request went out wins": at rest the token held is the one kept
   and the one the site accepts, of the last account that logged in, or none after a logout. *)
THEOREM TokenStaysSafe == TokenSpec => []TokenSafe
<1>1. TkInv => TokenSafe
  <2> SUFFICES ASSUME TkInv PROVE TokenSafe
    OBVIOUS
  <2>1. TokenIsGood
    BY DEF TkInv, TkGood, TkKept, TokenIsGood, Quiet
  <2>2. LogoutHolds
    BY DEF TkInv, TkOut, LogoutHolds
  <2> QED BY <2>1, <2>2 DEF TokenSafe
<1> QED BY <1>1, TokenInvariant, PTL

-----------------------------------------------------------------------------
(* A show's seasons: the groups numbered are the groups the edges make.    *)

FrEdges == FrShows \X FrShows
FrWalkRecord == [pc : {"idle", "hop", "mark", "save", "names", "rebuild"}, show : FrShows \cup {0},
                 seen : SUBSET FrShows, front : SUBSET FrShows, edges : SUBSET FrEdges,
                 fetched : SUBSET FrShows, hop : Nat]
\* No show is a season of itself: not on the site, nor in a walk or the table.
Loopless(G) == \A e \in G : e[1] # e[2]
FrShape ==
  /\ frSite \in [has : SUBSET FrShows, edges : SUBSET SUBSET FrShows]
  /\ \A a \in FrShows : {a} \notin frSite.edges
  /\ frRel \subseteq FrEdges /\ Loopless(frRel) /\ frRoot \in [FrShows -> FrShows \cup {0}]
  /\ frDead \subseteq FrShows /\ frNamed \subseteq FrShows
  /\ frWalk \in [Visitors -> FrWalkRecord] /\ frCut \in BOOLEAN
\* A walk has seen both ends of every edge it found.
WalkSaw(w) == w.front \subseteq w.seen /\ Loopless(w.edges) /\ \A e \in w.edges : e[1] \in w.seen /\ e[2] \in w.seen
WalksSaw == \A v \in Visitors : WalkSaw(frWalk[v])
\* While the site only adds nobody is given up.
SiteGrows == ~frCut => frSite.has = FrShows /\ frDead = {}
\* A walk that has saved its edges and will number what it saw.
Awaits(w, b) == w.pc \in {"names", "rebuild"} /\ w.edges # {} /\ b \in w.seen
\* The table numbers a with those the edges join it to.
AgreesAt(a, root, G) ==
  \A b \in FrShows \ {a} : b \in Component(G, a) <=> root[a] # 0 /\ root[a] = root[b]
\* A group is numbered as its edges have it, or a walk under way is about to do so.
NumberedAt(a, root, G, walk) ==
  (\E v \in Visitors : \E b \in Component(G, a) : Awaits(walk[v], b)) \/ AgreesAt(a, root, G)
Numbered == ~frCut => \A a \in FrShows : NumberedAt(a, frRoot, frRel, frWalk)
FrInv == FrShape /\ WalksSaw /\ SiteGrows /\ RootsOwnRows /\ Numbered

\* A set that no edge leaves or enters.
WholeIn(G, S) == \A e \in G : e[1] \in S <=> e[2] \in S
LEMMA ClosedIsWhole ==
  ASSUME NEW G \in SUBSET FrEdges, NEW S \in SUBSET FrShows
  PROVE  Neighbours(G, S) \subseteq S <=> WholeIn(G, S)
<1>1. ASSUME Neighbours(G, S) \subseteq S, NEW e \in G PROVE e[1] \in S <=> e[2] \in S
  <2>1. e[1] \in S => e[2] \in Neighbours(G, S)
    BY DEF Neighbours
  <2>2. e[2] \in S => e[1] \in Neighbours(G, S)
    BY DEF Neighbours
  <2> QED BY <1>1, <2>1, <2>2
<1>2. ASSUME WholeIn(G, S), NEW x \in Neighbours(G, S) PROVE x \in S
  BY <1>2 DEF WholeIn, Neighbours
<1> QED BY <1>1, <1>2 DEF WholeIn

\* component(): it holds the show, no edge leaves it, and whatever else is so holds it.
LEMMA ComponentIs ==
  ASSUME NEW G \in SUBSET FrEdges, NEW a \in FrShows
  PROVE  /\ Component(G, a) \in SUBSET FrShows /\ a \in Component(G, a) /\ WholeIn(G, Component(G, a))
         /\ \A S \in SUBSET FrShows : a \in S /\ WholeIn(G, S) => Component(G, a) \subseteq S
<1> DEFINE C == Component(G, a)
<1>1. \A b : b \in C <=> b \in FrShows /\ \A S \in SUBSET FrShows : a \in S /\ WholeIn(G, S) => b \in S
  BY ClosedIsWhole DEF Component
<1> HIDE DEF C
<1>2. C \in SUBSET FrShows /\ a \in C /\ \A S \in SUBSET FrShows : a \in S /\ WholeIn(G, S) => C \subseteq S
  BY <1>1
<1>3. ASSUME NEW e \in G PROVE e[1] \in C <=> e[2] \in C
  <2>1. e[1] \in FrShows /\ e[2] \in FrShows
    BY DEF FrEdges
  <2>2. \A S \in SUBSET FrShows : WholeIn(G, S) => (e[1] \in S <=> e[2] \in S)
    BY <1>3 DEF WholeIn
  <2> QED BY <1>1, <2>1, <2>2
<1>4. WholeIn(G, C)
  BY <1>3 DEF WholeIn
<1> QED BY <1>2, <1>4 DEF C

\* Two groups are the same or apart: what is outside a group is whole as well.
LEMMA SameComponent ==
  ASSUME NEW G \in SUBSET FrEdges, NEW a \in FrShows, NEW b \in FrShows
  PROVE  /\ b \in Component(G, a) => Component(G, b) = Component(G, a)
         /\ \A x \in FrShows : x \in Component(G, a) /\ x \in Component(G, b) => Component(G, b) = Component(G, a)
<1> DEFINE C(x) == Component(G, x)
<1>1. \A x \in FrShows : /\ C(x) \in SUBSET FrShows /\ x \in C(x) /\ WholeIn(G, C(x))
                         /\ \A S \in SUBSET FrShows : x \in S /\ WholeIn(G, S) => C(x) \subseteq S
  BY ComponentIs
<1> HIDE DEF C
<1>2. \A x \in FrShows : WholeIn(G, FrShows \ C(x))
  <2> SUFFICES ASSUME NEW x \in FrShows, NEW e \in G
               PROVE  e[1] \in FrShows \ C(x) <=> e[2] \in FrShows \ C(x)
    BY DEF WholeIn
  <2>1. e[1] \in FrShows /\ e[2] \in FrShows
    BY DEF FrEdges
  <2> QED BY <1>1, <2>1 DEF WholeIn
<1>3. ASSUME NEW x \in FrShows, NEW y \in C(x) PROVE C(y) = C(x)
  <2>1. y \in FrShows
    BY <1>1, <1>3
  <2>2. C(y) \subseteq C(x)
    BY <1>1, <1>3, <2>1
  <2>3. x \in C(y)
    <3> SUFFICES ASSUME x \notin C(y) PROVE FALSE
      OBVIOUS
    <3>1. C(x) \subseteq FrShows \ C(y)
      BY <1>1, <1>2, <2>1
    <3> QED BY <3>1, <1>1, <2>1, <1>3
  <2>4. C(x) \subseteq C(y)
    BY <1>1, <2>1, <2>3
  <2> QED BY <2>2, <2>4
<1> QED BY <1>3 DEF C

\* A show has a neighbour exactly when it is not alone in its group.
LEMMA LoneIs ==
  ASSUME NEW G \in SUBSET FrEdges, Loopless(G), NEW a \in FrShows
  PROVE  Neighbours(G, {a}) # {} <=> Component(G, a) # {a}
<1> DEFINE C == Component(G, a)
<1>1. a \in C /\ WholeIn(G, C) /\ \A S \in SUBSET FrShows : a \in S /\ WholeIn(G, S) => C \subseteq S
  BY ComponentIs
<1> HIDE DEF C
<1>2. ASSUME Neighbours(G, {a}) # {} PROVE C # {a}
  <2>1. PICK x : x \in Neighbours(G, {a})
    BY <1>2
  <2>2. PICK e \in G : (e[1] = a /\ x = e[2]) \/ (e[2] = a /\ x = e[1])
    BY <2>1 DEF Neighbours
  <2>3. x \in C /\ x # a
    BY <1>1, <2>2 DEF WholeIn, Loopless
  <2> QED BY <2>3
<1>3. ASSUME Neighbours(G, {a}) = {} PROVE C = {a}
  <2>1. ASSUME NEW e \in G PROVE e[1] # a /\ e[2] # a
    <3>1. e[1] = a => e[2] \in Neighbours(G, {a})
      BY DEF Neighbours
    <3>2. e[2] = a => e[1] \in Neighbours(G, {a})
      BY DEF Neighbours
    <3> QED BY <1>3, <3>1, <3>2
  <2>2. WholeIn(G, {a})
    BY <2>1 DEF WholeIn
  <2> QED BY <1>1, <2>2
<1> QED BY <1>2, <1>3 DEF C

\* The first of a group is one of it.
LEMMA MinIsIn ==
  ASSUME NEW S \in SUBSET FrShows, S # {}
  PROVE  Min(S) \in S
<1>1. S \subseteq Nat
  BY FrAssumption
<1>2. PICK x \in S : \A y \in S : ~(<<y, x>> \in OpToRel(<, Nat))
  BY <1>1, NatLessThanWellFounded, WFMin
<1>5. \A y \in S : y \in Nat /\ x \in Nat /\ ~(y < x)
  BY <1>1, <1>2 DEF OpToRel
<1>3. \A y \in S : x <= y
  BY <1>5
<1>4. Min(S) = CHOOSE m \in S : \A y \in S : m <= y
  BY DEF Min
<1> QED BY <1>3, <1>4

\* A walk that is none, and one that is where it was or elsewhere.
LEMMA NoWalkIs == NoWalk \in FrWalkRecord /\ WalkSaw(NoWalk) /\ \A b : ~Awaits(NoWalk, b)
BY DEF NoWalk, FrWalkRecord, WalkSaw, Awaits, Loopless, FrEdges

\* One page's walk becomes w; nothing awaited its numbers unless w still does.
LEMMA WalkBecomes ==
  ASSUME FrInv, NEW v \in Visitors, NEW w \in FrWalkRecord, WalkSaw(w), frWalk' = [frWalk EXCEPT ![v] = w]
  PROVE  /\ frWalk' \in [Visitors -> FrWalkRecord] /\ WalksSaw'
         /\ frWalk'[v] = w /\ \A u \in Visitors \ {v} : frWalk'[u] = frWalk[u]
BY DEF FrInv, FrShape, WalksSaw

\* A step that leaves edges and rows alone and keeps who awaits what keeps the numbers.
LEMMA NumbersKeep ==
  ASSUME FrInv, frRel' = frRel, frRoot' = frRoot, frCut' \in BOOLEAN, ~frCut' => ~frCut,
         ~frCut' => \A u \in Visitors : \A b \in FrShows : Awaits(frWalk[u], b) => Awaits(frWalk'[u], b)
  PROVE  RootsOwnRows' /\ Numbered'
<1>1. RootsOwnRows'
  BY DEF FrInv, RootsOwnRows
<1>2. ASSUME ~frCut', NEW a \in FrShows PROVE NumberedAt(a, frRoot', frRel', frWalk')
  <2>1. NumberedAt(a, frRoot, frRel, frWalk) /\ Component(frRel, a) \subseteq FrShows
    BY <1>2 DEF FrInv, Numbered, Component
  <2> QED BY <1>2, <2>1 DEF NumberedAt
<1>3. Numbered'
  BY <1>2 DEF Numbered
<1> QED BY <1>1, <1>3

LEMMA OpenKeeps ==
  ASSUME FrInv, NEW v \in Visitors, NEW a \in FrShows, OpenPage(v, a)
  PROVE  FrInv'
<1> DEFINE w == IF ~Known(a) \/ a \notin frFresh
                THEN [NoWalk EXCEPT !.pc = "hop", !.show = a, !.seen = {a}, !.front = {a}]
                ELSE [NoWalk EXCEPT !.pc = IF Untitled(Seasons(a)) = {} THEN "idle" ELSE "names", !.seen = Seasons(a)]
<1>1. frWalk[v].pc = "idle" /\ frWalk' = [frWalk EXCEPT ![v] = w]
      /\ frSite' = frSite /\ frRel' = frRel /\ frRoot' = frRoot /\ frDead' = frDead /\ frNamed' = frNamed /\ frCut' = frCut
  BY DEF OpenPage, frStore
<1>2. Seasons(a) \subseteq FrShows
  BY DEF Seasons, FrInv, FrShape
<1>3. w \in FrWalkRecord /\ WalkSaw(w)
  <2> DEFINE x == [NoWalk EXCEPT !.pc = "hop", !.show = a, !.seen = {a}, !.front = {a}]
             y == [NoWalk EXCEPT !.pc = IF Untitled(Seasons(a)) = {} THEN "idle" ELSE "names", !.seen = Seasons(a)]
  <2>1. x \in FrWalkRecord /\ WalkSaw(x)
    BY DEF NoWalk, FrWalkRecord, WalkSaw, Loopless
  <2>2. y \in FrWalkRecord /\ WalkSaw(y)
    BY <1>2 DEF NoWalk, FrWalkRecord, WalkSaw, Loopless
  <2> QED BY <2>1, <2>2
<1> HIDE DEF w
<1>4. frWalk' \in [Visitors -> FrWalkRecord] /\ WalksSaw' /\ \A u \in Visitors \ {v} : frWalk'[u] = frWalk[u]
  BY <1>1, <1>3, WalkBecomes
<1>5. \A u \in Visitors : \A b \in FrShows : Awaits(frWalk[u], b) => Awaits(frWalk'[u], b)
  BY <1>1, <1>4 DEF Awaits
<1>6. RootsOwnRows' /\ Numbered'
  BY <1>1, <1>5, NumbersKeep DEF FrInv, FrShape
<1> QED BY <1>1, <1>4, <1>6 DEF FrInv, FrShape, SiteGrows

LEMMA HopKeeps ==
  ASSUME FrInv, NEW v \in Visitors, Hop(v)
  PROVE  FrInv'
<1> DEFINE w == frWalk[v]
           got == w.front \cap frSite.has
           found == {e \in got \X FrShows : {e[1], e[2]} \in frSite.edges}
           next == {e[2] : e \in found} \ w.seen
           final == next = {} \/ w.hop + 1 = FrHops
           fetched == w.fetched \cup got
           x == [w EXCEPT !.pc = IF final THEN "mark" ELSE "hop", !.seen = @ \cup next, !.front = next,
                          !.edges = @ \cup found, !.fetched = fetched, !.hop = @ + 1]
           z == IF final /\ w.show \notin fetched THEN NoWalk ELSE x
<1>1. w.pc = "hop" /\ frWalk' = [frWalk EXCEPT ![v] = z]
      /\ frSite' = frSite /\ frRel' = frRel /\ frRoot' = frRoot /\ frDead' = frDead /\ frNamed' = frNamed /\ frCut' = frCut
  BY DEF Hop, frStore
<1>2. w \in FrWalkRecord /\ WalkSaw(w)
  BY DEF FrInv, FrShape, WalksSaw
<1>3. /\ found \subseteq FrEdges /\ next \subseteq FrShows /\ fetched \subseteq FrShows
      /\ \A e \in found : e[1] \in w.seen /\ e[2] \in w.seen \cup next
  BY <1>2 DEF FrEdges, FrWalkRecord, WalkSaw
<1>4. Loopless(found)
  <2>1. \A a \in FrShows : {a} \notin frSite.edges
    BY DEF FrInv, FrShape
  <2>2. ASSUME NEW e \in found, e[1] = e[2] PROVE FALSE
    <3>1. e[2] \in FrShows /\ {e[1], e[2]} \in frSite.edges
      OBVIOUS
    <3>2. {e[1], e[2]} = {e[2]}
      BY <2>2
    <3> QED BY <2>1, <3>1, <3>2
  <2> QED BY <2>2 DEF Loopless
<1> HIDE DEF found, next, final, fetched, got, w
<1>5. x \in FrWalkRecord /\ x.seen = w.seen \cup next /\ x.front = next /\ x.edges = w.edges \cup found
  <2>1. w.seen \cup next \in SUBSET FrShows /\ w.edges \cup found \in SUBSET FrEdges /\ w.hop + 1 \in Nat
    BY <1>2, <1>3 DEF FrWalkRecord
  <2> QED BY <1>2, <1>3, <2>1 DEF FrWalkRecord
<1> HIDE DEF x
<1>6. WalkSaw(x)
  BY <1>2, <1>3, <1>4, <1>5 DEF WalkSaw, Loopless
<1>7. z \in FrWalkRecord /\ WalkSaw(z)
  BY <1>5, <1>6, NoWalkIs
<1> HIDE DEF z
<1>8. frWalk' \in [Visitors -> FrWalkRecord] /\ WalksSaw' /\ \A u \in Visitors \ {v} : frWalk'[u] = frWalk[u]
  BY <1>1, <1>7, WalkBecomes
<1>9. \A u \in Visitors : \A b \in FrShows : Awaits(frWalk[u], b) => Awaits(frWalk'[u], b)
  BY <1>1, <1>8 DEF Awaits, w
<1>10. RootsOwnRows' /\ Numbered'
  BY <1>1, <1>9, NumbersKeep DEF FrInv, FrShape
<1> QED BY <1>1, <1>8, <1>10 DEF FrInv, FrShape, SiteGrows

\* MarkRelationsFetched, MarkNoRelations: a walk that has saved nothing moves on or ends.
LEMMA FrMarkKeeps ==
  ASSUME FrInv, NEW v \in Visitors, MarkFetched(v) \/ MarkAlone(v)
  PROVE  FrInv'
<1> DEFINE z == IF MarkFetched(v) THEN [frWalk[v] EXCEPT !.pc = "save"] ELSE NoWalk
<1>1. frWalk[v].pc \in {"mark", "save"} /\ frWalk' = [frWalk EXCEPT ![v] = z]
      /\ frSite' = frSite /\ frRel' = frRel /\ frRoot' = frRoot /\ frDead' = frDead /\ frNamed' = frNamed /\ frCut' = frCut
  BY DEF MarkFetched, MarkAlone
<1>2. frWalk[v] \in FrWalkRecord /\ WalkSaw(frWalk[v])
  BY DEF FrInv, FrShape, WalksSaw
<1>3. z \in FrWalkRecord /\ WalkSaw(z)
  BY <1>2, NoWalkIs DEF FrWalkRecord, WalkSaw
<1> HIDE DEF z
<1>4. frWalk' \in [Visitors -> FrWalkRecord] /\ WalksSaw' /\ \A u \in Visitors \ {v} : frWalk'[u] = frWalk[u]
  BY <1>1, <1>3, WalkBecomes
<1>5. \A u \in Visitors : \A b \in FrShows : Awaits(frWalk[u], b) => Awaits(frWalk'[u], b)
  BY <1>1, <1>4 DEF Awaits
<1>6. RootsOwnRows' /\ Numbered'
  BY <1>1, <1>5, NumbersKeep DEF FrInv, FrShape
<1> QED BY <1>1, <1>4, <1>6 DEF FrInv, FrShape, SiteGrows

\* Edges that are only added, none of them in this group, leave the group what it was.
LEMMA ComponentStays ==
  ASSUME NEW G \in SUBSET FrEdges, NEW H \in SUBSET FrEdges, ~Drops(G, H), NEW a \in FrShows,
         \A e \in H : e \in G \/ (e[1] \notin Component(H, a) /\ e[2] \notin Component(H, a))
  PROVE  Component(G, a) = Component(H, a)
<1> DEFINE A == Component(G, a)
           B == Component(H, a)
<1>1. /\ A \in SUBSET FrShows /\ a \in A /\ WholeIn(G, A) /\ \A S \in SUBSET FrShows : a \in S /\ WholeIn(G, S) => A \subseteq S
      /\ B \in SUBSET FrShows /\ a \in B /\ WholeIn(H, B) /\ \A S \in SUBSET FrShows : a \in S /\ WholeIn(H, S) => B \subseteq S
  BY ComponentIs
<1>2. \A e \in H : e \in G \/ (e[1] \notin B /\ e[2] \notin B)
  OBVIOUS
<1> HIDE DEF A, B
<1>3. ASSUME NEW e \in G PROVE e[1] \in B <=> e[2] \in B
  <2>1. e \in H \/ <<e[2], e[1]>> \in H
    BY DEF Drops
  <2>2. <<e[2], e[1]>> \in H => (<<e[2], e[1]>>[1] \in B <=> <<e[2], e[1]>>[2] \in B)
    BY <1>1 DEF WholeIn
  <2> QED BY <2>1, <2>2, <1>1 DEF WholeIn
<1>4. A \subseteq B
  BY <1>1, <1>3 DEF WholeIn
<1>5. ASSUME NEW e \in H PROVE e[1] \in A <=> e[2] \in A
  BY <1>1, <1>2, <1>4 DEF WholeIn
<1>6. B \subseteq A
  BY <1>1, <1>5 DEF WholeIn
<1> QED BY <1>4, <1>6 DEF A, B

LEMMA SaveKeeps ==
  ASSUME FrInv, NEW v \in Visitors, SaveRelations(v)
  PROVE  FrInv'
<1> DEFINE w == frWalk[v]
           z == [w EXCEPT !.pc = "names"]
<1>1. /\ w.pc = "save" /\ w.edges # {} /\ frCut' = (frCut \/ Drops(frRel, frRel')) /\ frWalk' = [frWalk EXCEPT ![v] = z]
      /\ frRel' = {e \in frRel : e[1] \notin w.fetched /\ e[2] \notin w.fetched} \cup w.edges
      /\ frSite' = frSite /\ frRoot' = frRoot /\ frDead' = frDead /\ frNamed' = frNamed
  BY DEF SaveRelations
<1>2. w \in FrWalkRecord /\ WalkSaw(w) /\ w.edges \in SUBSET FrEdges /\ w.seen \subseteq FrShows
  BY DEF FrInv, FrShape, WalksSaw, FrWalkRecord
<1>3. z \in FrWalkRecord /\ WalkSaw(z) /\ z.pc = "names" /\ z.edges = w.edges /\ z.seen = w.seen
  BY <1>2 DEF FrWalkRecord, WalkSaw
<1> HIDE DEF w, z
<1>4. /\ frWalk' \in [Visitors -> FrWalkRecord] /\ WalksSaw'
      /\ frWalk'[v] = z /\ \A u \in Visitors \ {v} : frWalk'[u] = frWalk[u]
  BY <1>1, <1>3, WalkBecomes
<1>5. frRel \in SUBSET FrEdges /\ frRel' \in SUBSET FrEdges /\ frRel' \subseteq frRel \cup w.edges /\ Loopless(frRel')
  BY <1>1, <1>2 DEF FrInv, FrShape, WalkSaw, Loopless
<1>6. ASSUME ~frCut', NEW a \in FrShows PROVE NumberedAt(a, frRoot', frRel', frWalk')
  <2>1. ~Drops(frRel, frRel') /\ ~frCut
    BY <1>1, <1>6
  <2>2. CASE \E b \in Component(frRel', a) : b \in w.seen
    BY <2>2, <1>1, <1>3, <1>4 DEF NumberedAt, Awaits
  <2>3. CASE ~\E b \in Component(frRel', a) : b \in w.seen
    <3>1. \A e \in w.edges : e[1] \notin Component(frRel', a) /\ e[2] \notin Component(frRel', a)
      BY <1>2, <2>3 DEF WalkSaw
    <3>2. Component(frRel, a) = Component(frRel', a)
      <4> DEFINE G == frRel
                 H == frRel'
      <4>1. G \in SUBSET FrEdges /\ H \in SUBSET FrEdges /\ ~Drops(G, H)
        BY <1>5, <2>1
      <4>2. \A e \in H : e \in G \/ (e[1] \notin Component(H, a) /\ e[2] \notin Component(H, a))
        BY <1>5, <3>1
      <4> HIDE DEF G, H
      <4>3. Component(G, a) = Component(H, a)
        BY <4>1, <4>2, ComponentStays
      <4> QED BY <4>3 DEF G, H
    <3>3. NumberedAt(a, frRoot, frRel, frWalk)
      BY <2>1 DEF FrInv, Numbered
    <3>4. \A u \in Visitors : \A b : Awaits(frWalk[u], b) => Awaits(frWalk'[u], b)
      BY <1>1, <1>4 DEF Awaits, w
    <3> QED BY <1>1, <3>2, <3>3, <3>4 DEF NumberedAt, AgreesAt
  <2> QED BY <2>2, <2>3
<1>7. Numbered'
  BY <1>6 DEF Numbered
<1>8. RootsOwnRows' /\ SiteGrows' /\ frCut' \in BOOLEAN
  BY <1>1 DEF FrInv, FrShape, RootsOwnRows, SiteGrows
<1> QED BY <1>1, <1>4, <1>5, <1>7, <1>8 DEF FrInv, FrShape

LEMMA HydrateKeeps ==
  ASSUME FrInv, NEW v \in Visitors, NEW i \in BOOLEAN, Hydrate(v, i)
  PROVE  FrInv'
<1> DEFINE w == frWalk[v]
           missing == Untitled(w.seen)
           z == IF w.edges = {} THEN NoWalk ELSE [w EXCEPT !.pc = "rebuild"]
<1>1. /\ w.pc = "names" /\ frWalk' = [frWalk EXCEPT ![v] = z]
      /\ frSite' = frSite /\ frRel' = frRel /\ frRoot' = frRoot /\ frCut' = frCut
  BY DEF Hydrate
<1>2. PICK got \in SUBSET (missing \cap frSite.has) :
        /\ i \/ got = missing \cap frSite.has
        /\ frNamed' = frNamed \cup got /\ frDead' = frDead \cup GivenUp(missing, got, i)
  BY DEF Hydrate
<1>3. w \in FrWalkRecord /\ WalkSaw(w) /\ missing \subseteq FrShows /\ w.seen \subseteq FrShows
  BY DEF FrInv, FrShape, WalksSaw, Untitled, FrWalkRecord
<1>4. z \in FrWalkRecord /\ WalkSaw(z) /\ (w.edges # {} => z.pc = "rebuild" /\ z.edges = w.edges /\ z.seen = w.seen)
  BY <1>3, NoWalkIs DEF FrWalkRecord, WalkSaw
<1> HIDE DEF z, missing
<1>5. frNamed' \subseteq FrShows /\ frDead' \subseteq FrShows
  BY <1>2, <1>3 DEF FrInv, FrShape, GivenUp
<1>6. SiteGrows'
  BY <1>1, <1>2, <1>3 DEF FrInv, SiteGrows, GivenUp
<1>7. /\ frWalk' \in [Visitors -> FrWalkRecord] /\ WalksSaw'
      /\ frWalk'[v] = z /\ \A u \in Visitors \ {v} : frWalk'[u] = frWalk[u]
  BY <1>1, <1>4, WalkBecomes
<1>8. \A u \in Visitors : \A b \in FrShows : Awaits(frWalk[u], b) => Awaits(frWalk'[u], b)
  BY <1>1, <1>4, <1>7 DEF Awaits
<1>9. RootsOwnRows' /\ Numbered'
  BY <1>1, <1>8, NumbersKeep DEF FrInv, FrShape
<1> QED BY <1>1, <1>5, <1>6, <1>7, <1>9 DEF FrInv, FrShape

\* What RebuildFranchisesFor writes: a show with season edges near what was walked gets the first
\* of its group, and rows of what was walked, or under such a root, go.
NearWalk(ids, G, b) == \E y \in ids : Neighbours(G, {y}) # {} /\ b \in Component(G, y)
RootOf(root, ids, G, b) ==
  IF NearWalk(ids, G, b) THEN Min(Component(G, b))
  ELSE IF b \in ids \/ root[b] \in ids \/ NearWalk(ids, G, root[b]) THEN 0 ELSE root[b]
LEMMA RebuildIs ==
  ASSUME FrInv, NEW v \in Visitors, Rebuild(v), NEW G, G = {e \in frRel : e[1] \notin frDead /\ e[2] \notin frDead}
  PROVE  /\ G \in SUBSET FrEdges /\ Loopless(G) /\ frWalk[v].seen \subseteq FrShows
         /\ frRoot' = [b \in FrShows |-> RootOf(frRoot, frWalk[v].seen, G, b)]
<1> DEFINE ids == frWalk[v].seen
           groups == Groups(ids, G)
           stale == ids \cup UNION groups
<1>1. G \in SUBSET FrEdges /\ Loopless(G) /\ ids \subseteq FrShows
  BY DEF FrInv, FrShape, Loopless, FrWalkRecord
<1>2. frRoot' = [b \in FrShows |->
        IF b \in UNION groups THEN Min(CHOOSE g \in groups : b \in g)
        ELSE IF b \in stale \/ frRoot[b] \in stale THEN 0 ELSE frRoot[b]]
  BY DEF Rebuild
<1>3. \A x : x \in UNION groups <=> NearWalk(ids, G, x)
  BY DEF Groups, NearWalk
<1>4. ASSUME NEW b \in FrShows, b \in UNION groups PROVE (CHOOSE g \in groups : b \in g) = Component(G, b)
  <2> DEFINE g == CHOOSE h \in groups : b \in h
  <2>1. g \in groups /\ b \in g
    BY <1>4
  <2>2. PICK y \in ids : g = Component(G, y)
    BY <2>1 DEF Groups
  <2> HIDE DEF g
  <2>3. Component(G, b) = Component(G, y)
    BY <1>1, <2>1, <2>2, SameComponent
  <2> QED BY <2>2, <2>3 DEF g
<1> HIDE DEF ids, groups
<1>5. ASSUME NEW b \in FrShows
      PROVE  (IF b \in UNION groups THEN Min(CHOOSE g \in groups : b \in g)
              ELSE IF b \in stale \/ frRoot[b] \in stale THEN 0 ELSE frRoot[b]) = RootOf(frRoot, ids, G, b)
  <2>1. CASE b \in UNION groups
    BY <2>1, <1>3, <1>4 DEF RootOf
  <2>2. CASE b \notin UNION groups
    BY <2>2, <1>3 DEF RootOf
  <2> QED BY <2>1, <2>2
<1>6. frRoot' = [b \in FrShows |-> RootOf(frRoot, ids, G, b)]
  BY <1>2, <1>5
<1> QED BY <1>1, <1>6 DEF ids

\* The groups near a walk are whole, and the first of one has its own number.
LEMMA NearIs ==
  ASSUME NEW G \in SUBSET FrEdges, NEW ids \in SUBSET FrShows, NEW b \in FrShows, NearWalk(ids, G, b)
  PROVE  /\ \A c \in Component(G, b) : c \in FrShows /\ Component(G, c) = Component(G, b) /\ NearWalk(ids, G, c)
         /\ Min(Component(G, b)) \in Component(G, b)
         /\ \E y \in ids : y \in Component(G, b) /\ Neighbours(G, {y}) # {}
<1>1. PICK y \in ids : Neighbours(G, {y}) # {} /\ b \in Component(G, y)
  BY DEF NearWalk
<1>2. Component(G, b) = Component(G, y)
  BY <1>1, SameComponent
<1>3. Component(G, b) \in SUBSET FrShows /\ b \in Component(G, b) /\ y \in Component(G, y)
  BY ComponentIs
<1>4. Min(Component(G, b)) \in Component(G, b)
  BY <1>3, MinIsIn
<1>5. \A c \in Component(G, b) : c \in FrShows /\ Component(G, c) = Component(G, b)
  BY <1>3, SameComponent
<1>6. \A c \in Component(G, b) : NearWalk(ids, G, c)
  BY <1>1, <1>2 DEF NearWalk
<1> QED BY <1>1, <1>2, <1>3, <1>4, <1>5, <1>6

\* What the rebuild leaves of the rows, whatever the edges were: every root has its own row.
LEMMA RootsStayOwn ==
  ASSUME FrInv, NEW G \in SUBSET FrEdges, NEW ids \in SUBSET FrShows,
         NEW root, root = [b \in FrShows |-> RootOf(frRoot, ids, G, b)]
  PROVE  /\ root \in [FrShows -> FrShows \cup {0}]
         /\ \A a \in FrShows : root[a] # 0 => root[root[a]] = root[a]
<1>1. frRoot \in [FrShows -> FrShows \cup {0}] /\ \A a \in FrShows : frRoot[a] # 0 => frRoot[frRoot[a]] = frRoot[a]
  BY DEF FrInv, FrShape, RootsOwnRows
<1>2. \A b \in FrShows : root[b] = RootOf(frRoot, ids, G, b)
  OBVIOUS
<1>3. ASSUME NEW b \in FrShows PROVE RootOf(frRoot, ids, G, b) \in FrShows \cup {0}
  BY <1>1, NearIs DEF RootOf
<1>4. ASSUME NEW a \in FrShows, root[a] # 0 PROVE root[root[a]] = root[a]
  <2>1. CASE NearWalk(ids, G, a)
    <3> DEFINE m == Min(Component(G, a))
    <3>1. m \in Component(G, a) /\ m \in FrShows /\ Component(G, m) = Component(G, a) /\ NearWalk(ids, G, m)
      BY <2>1, NearIs
    <3>2. root[a] = m
      BY <1>2, <2>1 DEF RootOf
    <3>3. root[m] = Min(Component(G, m))
      BY <1>2, <3>1 DEF RootOf
    <3> QED BY <3>1, <3>2, <3>3
  <2>2. CASE ~NearWalk(ids, G, a)
    <3> DEFINE r == frRoot[a]
    <3>1. root[a] = r /\ r \notin ids /\ ~NearWalk(ids, G, r)
      BY <1>2, <1>4, <2>2 DEF RootOf
    <3>2. r \in FrShows /\ frRoot[r] = r
      BY <1>1, <1>4, <3>1
    <3>3. root[r] = r
      BY <1>2, <3>1, <3>2 DEF RootOf
    <3> QED BY <3>1, <3>3
  <2> QED BY <2>1, <2>2
<1> QED BY <1>3, <1>4

\* A group the rebuild numbers, or finds to be nothing: it agrees with the edges.
LEMMA WalkedAgrees ==
  ASSUME FrInv, NEW ids \in SUBSET FrShows, NEW root, root = [b \in FrShows |-> RootOf(frRoot, ids, frRel, b)],
         NEW a \in FrShows, NEW x \in ids, x \in Component(frRel, a)
  PROVE  AgreesAt(a, root, frRel)
<1> DEFINE G == frRel
           C(b) == Component(G, b)
<1>1. G \in SUBSET FrEdges /\ Loopless(G)
  BY DEF FrInv, FrShape
<1>2. \A b \in FrShows : root[b] = RootOf(frRoot, ids, G, b)
  OBVIOUS
<1>3. C(x) = C(a) /\ x \in FrShows
  BY <1>1, SameComponent
<1>4. \A b \in FrShows : b \in C(b) /\ C(b) \in SUBSET FrShows
  BY <1>1, ComponentIs
<1>5. CASE C(a) = {a}
  <2>1. x = a
    BY <1>5
  <2>2. ~NearWalk(ids, G, a)
    <3> SUFFICES ASSUME NearWalk(ids, G, a) PROVE FALSE
      OBVIOUS
    <3>1. PICK y \in ids : y \in C(a) /\ Neighbours(G, {y}) # {}
      BY <1>1, NearIs
    <3>2. y = a
      BY <1>5, <3>1
    <3> QED BY <1>1, <1>5, <3>1, <3>2, LoneIs
  <2>3. root[a] = 0
    BY <1>2, <2>1, <2>2 DEF RootOf
  <2> QED BY <1>5, <2>3 DEF AgreesAt
<1>6. CASE C(a) # {a}
  <2>1. Neighbours(G, {x}) # {}
    <3> SUFFICES ASSUME Neighbours(G, {x}) = {} PROVE FALSE
      OBVIOUS
    <3>1. C(x) = {x}
      BY <1>1, <1>3, LoneIs
    <3> QED BY <1>3, <1>4, <1>6, <3>1
  <2>2. NearWalk(ids, G, a)
    BY <1>3, <1>4, <2>1 DEF NearWalk
  <2> DEFINE m == Min(C(a))
  <2>3. m \in C(a) /\ m \in FrShows /\ NearWalk(ids, G, m) /\ root[a] = m
    BY <1>1, <1>2, <2>2, NearIs DEF RootOf
  <2>4. m # 0
    BY <2>3, FrAssumption
  <2>5. ASSUME NEW b \in C(a) PROVE root[b] = m
    <3>1. NearWalk(ids, G, b) /\ C(b) = C(a) /\ b \in FrShows
      BY <1>1, <2>2, NearIs
    <3> QED BY <1>2, <3>1 DEF RootOf
  <2>6. ASSUME NEW b \in FrShows, b \notin C(a), root[b] = m PROVE FALSE
    <3>1. CASE NearWalk(ids, G, b)
      <4>1. root[b] \in C(b)
        BY <1>1, <1>2, <3>1, NearIs DEF RootOf
      <4>2. C(b) = C(a)
        BY <1>1, <2>3, <2>6, <4>1, SameComponent
      <4> QED BY <1>4, <2>6, <4>2
    <3>2. CASE ~NearWalk(ids, G, b)
      BY <1>2, <2>3, <2>4, <2>6, <3>2 DEF RootOf
    <3> QED BY <3>1, <3>2
  <2> QED BY <2>3, <2>4, <2>5, <2>6 DEF AgreesAt
<1> QED BY <1>5, <1>6

\* A group nothing of which was walked, and which agreed: the rebuild leaves it alone.
LEMMA OthersAgree ==
  ASSUME FrInv, NEW ids \in SUBSET FrShows, NEW root, root = [b \in FrShows |-> RootOf(frRoot, ids, frRel, b)],
         NEW a \in FrShows, \A x \in ids : x \notin Component(frRel, a), AgreesAt(a, frRoot, frRel)
  PROVE  AgreesAt(a, root, frRel)
<1> DEFINE G == frRel
           C == Component(G, a)
           r == frRoot[a]
<1>1. G \in SUBSET FrEdges /\ frRoot \in [FrShows -> FrShows \cup {0}]
  BY DEF FrInv, FrShape
<1>2. \A b \in FrShows : root[b] = RootOf(frRoot, ids, G, b)
  OBVIOUS
<1>3. a \in C /\ C \in SUBSET FrShows
  BY <1>1, ComponentIs
<1>4. \A c \in C : c \notin ids /\ ~NearWalk(ids, G, c)
  <2> SUFFICES ASSUME NEW c \in C, NearWalk(ids, G, c) PROVE FALSE
    OBVIOUS
  <2>1. PICK y \in ids : y \in Component(G, c)
    BY <1>1, <1>3, NearIs
  <2>2. Component(G, c) = C
    BY <1>1, <1>3, SameComponent
  <2> QED BY <2>1, <2>2
<1>5. r # 0 => r \in C
  <2> SUFFICES ASSUME r # 0, r # a PROVE r \in C
    BY <1>3
  <2>1. r \in FrShows /\ frRoot[r] = r
    BY <1>1 DEF FrInv, RootsOwnRows
  <2> QED BY <2>1 DEF AgreesAt
<1>6. root[a] = r
  <2>1. r # 0 => r \notin ids /\ ~NearWalk(ids, G, r)
    BY <1>4, <1>5
  <2>2. root[a] = RootOf(frRoot, ids, G, a) /\ a \notin ids /\ ~NearWalk(ids, G, a)
    BY <1>2, <1>3, <1>4
  <2> QED BY <2>1, <2>2 DEF RootOf
<1>7. ASSUME NEW b \in FrShows \ {a} PROVE b \in C <=> root[a] # 0 /\ root[a] = root[b]
  <2>1. b \in C <=> r # 0 /\ r = frRoot[b]
    BY DEF AgreesAt
  <2>2. CASE b \in C
    <3>1. r # 0 /\ r = frRoot[b] /\ b \notin ids /\ ~NearWalk(ids, G, b) /\ r \notin ids /\ ~NearWalk(ids, G, r)
      BY <1>4, <1>5, <2>1, <2>2
    <3>2. root[b] = r
      BY <1>2, <3>1 DEF RootOf
    <3> QED BY <1>6, <2>2, <3>1, <3>2
  <2>3. CASE b \notin C
    <3> SUFFICES ASSUME r # 0, root[b] = r PROVE FALSE
      BY <1>6, <2>3
    <3>1. CASE NearWalk(ids, G, b)
      <4>1. root[b] \in Component(G, b) /\ NearWalk(ids, G, root[b])
        BY <1>1, <1>2, <3>1, NearIs DEF RootOf
      <4> QED BY <1>4, <1>5, <4>1
    <3>2. CASE ~NearWalk(ids, G, b)
      BY <1>2, <2>1, <2>3, <3>2 DEF RootOf
    <3> QED BY <3>1, <3>2
  <2> QED BY <2>2, <2>3
<1> QED BY <1>7 DEF AgreesAt

LEMMA RebuildKeeps ==
  ASSUME FrInv, NEW v \in Visitors, Rebuild(v)
  PROVE  FrInv'
<1> DEFINE G == {e \in frRel : e[1] \notin frDead /\ e[2] \notin frDead}
           ids == frWalk[v].seen
<1>1. /\ frWalk' = [frWalk EXCEPT ![v] = NoWalk] /\ frSite' = frSite /\ frRel' = frRel
      /\ frDead' = frDead /\ frNamed' = frNamed /\ frCut' = frCut
  BY DEF Rebuild
<1>2. G \in SUBSET FrEdges /\ ids \in SUBSET FrShows /\ frRoot' = [b \in FrShows |-> RootOf(frRoot, ids, G, b)]
  BY RebuildIs
<1>3. ~frCut => G = frRel
  BY DEF FrInv, SiteGrows
<1> HIDE DEF G
<1>4. frRoot' \in [FrShows -> FrShows \cup {0}] /\ RootsOwnRows'
  <2> DEFINE root == [b \in FrShows |-> RootOf(frRoot, ids, G, b)]
  <2>1. root \in [FrShows -> FrShows \cup {0}] /\ \A a \in FrShows : root[a] # 0 => root[root[a]] = root[a]
    BY <1>2, RootsStayOwn
  <2> QED BY <1>2, <2>1 DEF RootsOwnRows
<1>5. /\ frWalk' \in [Visitors -> FrWalkRecord] /\ WalksSaw'
      /\ frWalk'[v] = NoWalk /\ \A u \in Visitors \ {v} : frWalk'[u] = frWalk[u]
  BY <1>1, NoWalkIs, WalkBecomes
<1>6. ASSUME ~frCut', NEW a \in FrShows PROVE NumberedAt(a, frRoot', frRel', frWalk')
  <2> DEFINE root == [b \in FrShows |-> RootOf(frRoot, ids, frRel, b)]
  <2>1. ~frCut /\ frRoot' = root
    BY <1>1, <1>2, <1>3, <1>6
  <2>2. CASE \E x \in ids : x \in Component(frRel, a)
    <3>1. AgreesAt(a, root, frRel)
      BY <1>2, <2>2, WalkedAgrees
    <3> QED BY <1>1, <2>1, <3>1 DEF NumberedAt
  <2>3. CASE \A x \in ids : x \notin Component(frRel, a)
    <3>1. NumberedAt(a, frRoot, frRel, frWalk)
      BY <2>1 DEF FrInv, Numbered
    <3>2. CASE AgreesAt(a, frRoot, frRel)
      <4>1. AgreesAt(a, root, frRel)
        BY <1>2, <2>3, <3>2, OthersAgree
      <4> QED BY <1>1, <2>1, <4>1 DEF NumberedAt
    <3>3. CASE \E u \in Visitors : \E b \in Component(frRel, a) : Awaits(frWalk[u], b)
      <4>1. PICK u \in Visitors : \E b \in Component(frRel, a) : Awaits(frWalk[u], b)
        BY <3>3
      <4>2. u # v
        BY <2>3, <4>1 DEF Awaits
      <4> QED BY <1>1, <1>5, <4>1, <4>2 DEF NumberedAt
    <3> QED BY <3>1, <3>2, <3>3 DEF NumberedAt
  <2> QED BY <2>2, <2>3
<1>7. Numbered'
  BY <1>6 DEF Numbered
<1> QED BY <1>1, <1>4, <1>5, <1>7 DEF FrInv, FrShape, SiteGrows

LEMMA LeaveKeeps ==
  ASSUME FrInv, NEW v \in Visitors, LeavePage(v)
  PROVE  FrInv'
<1>1. /\ frWalk' = [frWalk EXCEPT ![v] = NoWalk] /\ frSite' = frSite /\ frRel' = frRel /\ frRoot' = frRoot
      /\ frDead' = frDead /\ frNamed' = frNamed
      /\ frCut' = (frCut \/ frWalk[v].pc \in {"save", "rebuild"} \/ (frWalk[v].pc = "names" /\ frWalk[v].edges # {}))
  BY DEF LeavePage, frStore
<1>2. /\ frWalk' \in [Visitors -> FrWalkRecord] /\ WalksSaw'
      /\ frWalk'[v] = NoWalk /\ \A u \in Visitors \ {v} : frWalk'[u] = frWalk[u]
  BY <1>1, NoWalkIs, WalkBecomes
<1>3. frCut' \in BOOLEAN /\ (~frCut' => ~frCut)
  BY <1>1 DEF FrInv, FrShape
<1>4. ~frCut' => \A u \in Visitors : \A b \in FrShows : Awaits(frWalk[u], b) => Awaits(frWalk'[u], b)
  BY <1>1, <1>2 DEF Awaits
<1>5. RootsOwnRows' /\ Numbered'
  BY <1>1, <1>3, <1>4, NumbersKeep
<1> QED BY <1>1, <1>2, <1>3, <1>5 DEF FrInv, FrShape, SiteGrows

\* What the site and time do: no walk, edge or row of ours changes.
LEMMA OutsideKeeps ==
  ASSUME FrInv, \/ WeekPasses
                \/ \E a \in FrShows : Revive(a) \/ SiteRemoves(a) \/ SiteReturns(a) \/ \E b \in FrShows : SiteLinks(a, b)
                \/ \E e \in SUBSET FrShows : SiteUnlinks(e)
  PROVE  FrInv'
<1>1. frWalk' = frWalk /\ frRel' = frRel /\ frRoot' = frRoot
  BY DEF WeekPasses, Revive, SiteRemoves, SiteReturns, SiteLinks, SiteUnlinks, frStore
<1>2. frCut' \in BOOLEAN /\ (~frCut' => ~frCut)
  BY DEF WeekPasses, Revive, SiteRemoves, SiteReturns, SiteLinks, SiteUnlinks, FrInv, FrShape
<1>3. RootsOwnRows' /\ Numbered' /\ WalksSaw'
  BY <1>1, <1>2, NumbersKeep DEF FrInv, WalksSaw
<1> DEFINE Good == /\ frSite' \in [has : SUBSET FrShows, edges : SUBSET SUBSET FrShows]
                   /\ \A a \in FrShows : {a} \notin frSite'.edges
                   /\ frDead' \subseteq FrShows /\ frNamed' \subseteq FrShows /\ SiteGrows'
<1>4. Good
  <2>1. /\ frSite \in [has : SUBSET FrShows, edges : SUBSET SUBSET FrShows]
        /\ \A a \in FrShows : {a} \notin frSite.edges
        /\ frDead \subseteq FrShows /\ frNamed \subseteq FrShows /\ SiteGrows
    BY DEF FrInv, FrShape
  <2>2. CASE WeekPasses
    BY <2>1, <2>2 DEF WeekPasses, SiteGrows
  <2>3. ASSUME NEW a \in FrShows, Revive(a) PROVE Good
    BY <2>1, <2>3 DEF Revive, SiteGrows
  <2>4. ASSUME NEW a \in FrShows, SiteRemoves(a) PROVE Good
    BY <2>1, <2>4 DEF SiteRemoves, SiteGrows, frStore
  <2>5. ASSUME NEW a \in FrShows, SiteReturns(a) PROVE Good
    BY <2>1, <2>5 DEF SiteReturns, SiteGrows, frStore
  <2>6. ASSUME NEW a \in FrShows, NEW b \in FrShows, SiteLinks(a, b) PROVE Good
    <3>1. a # b /\ frSite' = [frSite EXCEPT !.edges = @ \cup {{a, b}}] /\ frDead' = frDead /\ frNamed' = frNamed /\ frCut' = frCut
      BY <2>6, FrAssumption DEF SiteLinks, frStore
    <3>2. frSite'.edges = frSite.edges \cup {{a, b}} /\ frSite'.has = frSite.has
          /\ frSite' \in [has : SUBSET FrShows, edges : SUBSET SUBSET FrShows]
      BY <2>1, <3>1
    <3>3. \A x \in FrShows : {x} # {a, b}
      BY <3>1
    <3> QED BY <2>1, <3>1, <3>2, <3>3 DEF SiteGrows
  <2>7. ASSUME NEW e \in SUBSET FrShows, SiteUnlinks(e) PROVE Good
    BY <2>1, <2>7 DEF SiteUnlinks, SiteGrows, frStore
  <2> QED BY <2>2, <2>3, <2>4, <2>5, <2>6, <2>7
<1> QED BY <1>1, <1>2, <1>3, <1>4 DEF FrInv, FrShape

LEMMA FrInitInv == FrInit => FrInv
<1> SUFFICES ASSUME FrInit PROVE FrInv
  OBVIOUS
<1>1. FrShape
  <2>1. frSite = [has |-> FrShows, edges |-> {{1, 2}}] /\ {1, 2} \in SUBSET FrShows
    BY FrAssumption DEF FrInit
  <2>2. frSite \in [has : SUBSET FrShows, edges : SUBSET SUBSET FrShows]
    BY <2>1
  <2>3. \A a \in FrShows : {a} \notin frSite.edges
    <3>1. \A a \in FrShows : {a} # {1, 2}
      OBVIOUS
    <3> QED BY <2>1, <3>1
  <2>4. frWalk \in [Visitors -> FrWalkRecord]
    BY NoWalkIs DEF FrInit
  <2> QED BY <2>2, <2>3, <2>4 DEF FrInit, FrShape, Loopless
<1>2. WalksSaw /\ SiteGrows /\ RootsOwnRows
  BY NoWalkIs DEF FrInit, WalksSaw, SiteGrows, RootsOwnRows
<1>3. ASSUME NEW a \in FrShows PROVE AgreesAt(a, frRoot, frRel)
  <2>1. frRel = {} /\ frRel \in SUBSET FrEdges /\ Loopless(frRel) /\ frRoot[a] = 0
    BY DEF FrInit, Loopless
  <2>2. Neighbours(frRel, {a}) = {}
    BY <2>1 DEF Neighbours
  <2>3. Component(frRel, a) = {a}
    BY <2>1, <2>2, LoneIs
  <2> QED BY <2>1, <2>3 DEF AgreesAt
<1>4. Numbered
  BY <1>3 DEF Numbered, NumberedAt
<1> QED BY <1>1, <1>2, <1>4 DEF FrInv

LEMMA FrStep == FrInv /\ [FrNext]_frVars => FrInv'
<1> SUFFICES ASSUME FrInv, [FrNext]_frVars PROVE FrInv'
  OBVIOUS
<1>1. CASE UNCHANGED frVars
  <2>1. frWalk' = frWalk /\ frRel' = frRel /\ frRoot' = frRoot /\ frCut' = frCut /\ frSite' = frSite /\ frDead' = frDead /\ frNamed' = frNamed
    BY <1>1 DEF frVars
  <2> QED BY <2>1 DEF FrInv, FrShape, WalksSaw, SiteGrows, RootsOwnRows, Numbered
<1>2. ASSUME NEW v \in Visitors, NEW a \in FrShows, OpenPage(v, a) PROVE FrInv'
  BY <1>2, OpenKeeps
<1>3. ASSUME NEW v \in Visitors, Hop(v) \/ MarkFetched(v) \/ MarkAlone(v) \/ SaveRelations(v) PROVE FrInv'
  BY <1>3, HopKeeps, FrMarkKeeps, SaveKeeps
<1>4. ASSUME NEW v \in Visitors, NEW i \in BOOLEAN, Hydrate(v, i) PROVE FrInv'
  BY <1>4, HydrateKeeps
<1>5. ASSUME NEW v \in Visitors, Rebuild(v) \/ LeavePage(v) PROVE FrInv'
  BY <1>5, RebuildKeeps, LeaveKeeps
<1>6. CASE \/ WeekPasses
           \/ \E a \in FrShows : Revive(a) \/ SiteRemoves(a) \/ SiteReturns(a) \/ \E b \in FrShows : SiteLinks(a, b)
           \/ \E e \in SUBSET FrShows : SiteUnlinks(e)
  BY <1>6, OutsideKeeps
<1> QED BY <1>1, <1>2, <1>3, <1>4, <1>5, <1>6 DEF FrNext

(* relations.go, franchise.go: the numbers agree with the stored edges, group by group, but for
   the groups a walk under way is about to number.  Inductive, for any shows, pages and hops. *)
THEOREM FranchiseInvariant == FrSpec => []FrInv
<1>1. FrInit => FrInv
  BY FrInitInv
<1>2. FrInv /\ [FrNext]_frVars => FrInv'
  BY FrStep
<1> QED BY <1>1, <1>2, PTL DEF FrSpec

(* Whatever pages walk together: a root is a season of its own franchise; with no walk between
   its save and its numbers the groups are those of the stored edges, as long as the site only
   adds and no walk is cut short or saves over a newer answer; nobody is given up then either. *)
THEOREM FranchiseStaysSafe == FrSpec => []FranchiseSafe
<1>1. FrInv => FranchiseSafe
  <2> SUFFICES ASSUME FrInv PROVE FranchiseSafe
    OBVIOUS
  <2>1. ASSUME Settled, NEW a \in FrShows, NEW b \in FrShows, a # b
        PROVE  b \in Component(frRel, a) <=> (frRoot[a] # 0 /\ frRoot[a] = frRoot[b])
    <3>1. NumberedAt(a, frRoot, frRel, frWalk)
      BY <2>1 DEF FrInv, Numbered, Settled
    <3>2. ~\E v \in Visitors : \E x \in Component(frRel, a) : Awaits(frWalk[v], x)
      BY <2>1 DEF Settled, Awaits
    <3> QED BY <2>1, <3>1, <3>2 DEF NumberedAt, AgreesAt
  <2>2. GroupsAgree
    BY <2>1 DEF GroupsAgree
  <2> QED BY <2>2 DEF FranchiseSafe, NoneGivenUp, FrInv, SiteGrows
<1> QED BY <1>1, FranchiseInvariant, PTL

-----------------------------------------------------------------------------
(* MCMedia: its behaviours are behaviours of every part. *)

LEMMA MediaInits ==
  MediaInit => /\ WatchInit /\ CatInit /\ MalInit /\ TokenInit /\ FrInit /\ CgInit /\ AlInit /\ LfInit /\ RwInit /\ FvInit
BY DEF MediaInit

LEMMA MediaSteps ==
  [MediaNext]_mediaVars =>
    /\ [WatchNext]_watchVars /\ [CatNext]_catVars /\ [MalNext]_malVars /\ [TokenNext]_tokenVars /\ [FrNext]_frVars
    /\ [CgNext]_cgVars /\ [AlNext]_alVars /\ [LfNext]_lfVars /\ [RwNext]_rwVars /\ [FvNext]_fvVars
BY DEF MediaNext, mediaVars

\* What is written down, of the part that runs: the property the run of MCMedia checks on a few
\* shows, files, callers and releases, for any of them and any number of steps.
THEOREM RecordStaysSafe == MediaSpec => []RecordSafe
<1>1. MediaSpec => WatchSpec /\ CatSpec /\ MalSpec /\ TokenSpec /\ FrSpec
  BY MediaInits, MediaSteps, PTL DEF MediaSpec, WatchSpec, CatSpec, MalSpec, TokenSpec, FrSpec
<1>2. MediaSpec => CgSpec /\ AlSpec /\ LfSpec /\ RwSpec /\ FvSpec
  BY MediaInits, MediaSteps, PTL DEF MediaSpec, CgSpec, AlSpec, LfSpec, RwSpec, FvSpec
<1>3. /\ WatchSafe /\ CatalogueSafe /\ MalAgrees /\ TokenSafe /\ FranchiseSafe
      /\ CorpusSafe /\ AniListSafe /\ LocalSafe /\ WatchNews /\ FavouritesSafe
      => RecordSafe
  BY DEF RecordSafe
<1> QED BY <1>1, <1>2, <1>3, WatchStaysSafe, CatalogueStaysSafe, MalStaysSafe, TokenStaysSafe, FranchiseStaysSafe,
           CorpusStaysSafe, AniListStaysSafe, LocalStaysSafe, NewsStaySafe, FavouritesStaySafe, PTL

\* MyAnimeList's part of MCMedia: an import spares what was edited here and a push never takes
\* the site back, whatever edits, pushes, pulls, removals and accounts overlap.
THEOREM MediaStaysKept == MediaSpec => MediaKeeps
<1>1. MediaSpec => MalSpec
  BY MediaInits, MediaSteps, PTL DEF MediaSpec, MalSpec
<1> QED BY <1>1, MalStaysKept DEF MediaKeeps
=============================================================================
