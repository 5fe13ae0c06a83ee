---------------------------- MODULE TrackerAnnounce ----------------------------
(* The client's announces to its trackers (bt/client-tracker-announcer.go) and the
   timer that drives them (bt/internal/mytimer).  One record per torrent and tracker
   says what to announce next and when; a timer callback starts what is due, each
   announce is a goroutine that gives the client lock up while it waits for the
   tracker, and the records outlive the torrents they were made for. *)
EXTENDS Integers, FiniteSets, Sequences

CONSTANTS AnnHashes,     \* info hashes, numbered
          AnnTrackers,   \* tracker URLs, numbered
          MaxPerTracker, \* maxConcurrentAnnouncesPerTracker
          AnnInterval,   \* what trackers ask to wait
          AnnHorizon,    \* bound on the clock
          AnnOps         \* bound on what happens to the torrents
ASSUME AnnAssumption ==
  /\ IsFiniteSet(AnnHashes) /\ IsFiniteSet(AnnTrackers)
  /\ MaxPerTracker \in Nat /\ AnnInterval \in Nat /\ AnnHorizon \in Nat
RetryAfter == 1          \* the minute after an error
Zero == -1               \* time.Time{}: before every time

VARIABLES annNow,
          live,      \* torrentsByShortHash: the torrent, numbered by its adding, or 0
          adds,      \* torrents made so far for the hash
          asks,      \* torrentForAnnounceRequests: the torrent a weak pointer was made to
          swept,     \* torrents the garbage collector has taken
          whole,     \* haveAllPieces
          sawPart,   \* sawInitiallyIncompleteData
          records,   \* announceData
          states,    \* announceStates
          sent,      \* goroutines past the lock: key -> event and torrent
          timer,     \* mytimer.Timer
          annOps
annVars == <<annNow, live, adds, asks, swept, whole, sawPart, records, states, sent, timer, annOps>>

Keys == AnnTrackers \X AnnHashes
URL(k) == k[1]
Hash(k) == k[2]
NoState == [event |-> "none", ok |-> Zero, wait |-> 0, err |-> FALSE, tried |-> Zero, sentCompleted |-> FALSE]

\* Variant for mutation: an error does not put the next attempt off.
StateInputAtOnce(s, there, done) ==
  IF ~there
  THEN IF s.err \/ s.ok = Zero \/ s.event = "stopped"
       THEN [event |-> "none", when |-> Zero] ELSE [event |-> "stopped", when |-> annNow]
  ELSE IF ~s.sentCompleted /\ done THEN [event |-> "completed", when |-> annNow]
  ELSE IF s.ok = Zero THEN [event |-> "started", when |-> annNow]
  ELSE [event |-> "none", when |-> s.ok + s.wait]
(* nextAnnounceEvent and makeAnnounceStateInput: a dropped torrent that the tracker
   knows says so, once; a completed one says that, once. *)
StateInput(s, there, done) ==
  LET late(t) == IF s.err /\ t < s.tried + RetryAfter THEN s.tried + RetryAfter ELSE t
  IN IF ~there
     THEN IF s.err \/ s.ok = Zero \/ s.event = "stopped"
          THEN [event |-> "none", when |-> Zero] ELSE [event |-> "stopped", when |-> annNow]
     ELSE IF ~s.sentCompleted /\ done THEN [event |-> "completed", when |-> late(annNow)]
     ELSE IF s.ok = Zero THEN [event |-> "started", when |-> late(annNow)]
     ELSE [event |-> "none", when |-> late(s.ok + s.wait)]

Active(R) == {k \in DOMAIN R : R[k].active}
Requests(R, u) == Cardinality({k \in Active(R) : URL(k) = u})
OfHash(R, h) == Cardinality({k \in Active(R) : Hash(k) = h})

(* compareNextAnnounce, and the key: a record's place as a tuple. *)
Flag(b) == IF b THEN 1 ELSE 0
EventOrder == [started |-> 1, stopped |-> 2, completed |-> 3, none |-> 4]
Place(R, k) ==
  LET r == R[k]
  IN << Flag(r.active), Flag(~r.overdue), IF r.overdue THEN 0 ELSE r.when, OfHash(R, Hash(k)),
        Flag(~r.there), Flag(~r.wants), EventOrder[r.event], r.when, Hash(k), URL(k) >>
Before(s, t) ==
  \E i \in DOMAIN s : s[i] < t[i] /\ \A j \in 1..(i - 1) : s[j] = t[j]

(* updateOverdue *)
UpdateOverdue(R) == [k \in DOMAIN R |-> [R[k] EXCEPT !.overdue = R[k].when <= annNow]]

(* trackerAnnounceHead and nextAnnounce: each tracker's first record, then the tracker
   with the fewest announces under way. *)
Heads(R) == {k \in DOMAIN R : \A j \in DOMAIN R : URL(j) = URL(k) /\ j # k => Before(Place(R, k), Place(R, j))}
First(R) ==
  CHOOSE k \in Heads(R) : \A j \in Heads(R) \ {k} :
    Before(<<Requests(R, URL(k))>> \o Place(R, k), <<Requests(R, URL(j))>> \o Place(R, j))

(* getNextAnnounce, of records whose overdue is up to date. *)
NextAnnounce(R) ==
  IF R = <<>> \/ R[First(R)].active \/ Requests(R, URL(First(R))) >= MaxPerTracker THEN {}
  ELSE {First(R)}

(* nextTimerDelay; with nothing allowed, no time at all. *)
TimerDelay(R) == IF NextAnnounce(R) = {} THEN Zero ELSE R[CHOOSE k \in NextAnnounce(R) : TRUE].when

(* Timer.update: what happens between the firing and the callback's reset is left to
   the callback. *)
TimerUpdate(when) == IF timer.phase = "set" THEN [timer EXCEPT !.when = when] ELSE timer

(* Each change of the records refreshes the overdue ones and the timer. *)
SetRecords(R) ==
  /\ records' = UpdateOverdue(R)
  /\ timer' = TimerUpdate(TimerDelay(UpdateOverdue(R)))

Done(h) == whole'[h] /\ sawPart'[h]
Input(r, k, S) ==
  LET in == StateInput(S[k], live'[Hash(k)] # 0, Done(Hash(k)))
  IN [r EXCEPT !.event = in.event, !.when = in.when]

AnnSpends == annOps < AnnOps /\ annOps' = annOps + 1

AnnInit ==
  /\ annNow = 0 /\ live = [h \in AnnHashes |-> 0] /\ adds = live /\ asks = live /\ swept = {}
  /\ whole = [h \in AnnHashes |-> FALSE] /\ sawPart = whole
  /\ records = <<>> /\ states = [k \in Keys |-> NoState] /\ sent = <<>>
  /\ timer = [phase |-> "set", when |-> 0] /\ annOps = 0

(* updateTorrentInput, for every key of the torrent. *)
UpdateTorrentInput(h, R, wants) ==
  SetRecords([k \in DOMAIN R |->
    IF Hash(k) # h THEN R[k]
    ELSE Input([R[k] EXCEPT !.there = live'[h] # 0, !.wants = wants], k, states)])

(* addKey leaves at once where the record exists: only the first torrent of a hash is
   the one requests are made for. *)
AddKey(h) == asks' = IF \E k \in DOMAIN records : Hash(k) = h THEN asks ELSE [asks EXCEPT ![h] = live'[h]]

(* A torrent is added with its trackers: startScrapingTracker, addKey, and the update of
   its input when the lock is given up. *)
AddTorrent(h, all) ==
  /\ AnnSpends /\ live[h] = 0
  /\ adds' = [adds EXCEPT ![h] = adds[h] + 1] /\ live' = [live EXCEPT ![h] = adds[h] + 1]
  /\ whole' = [whole EXCEPT ![h] = all] /\ sawPart' = [sawPart EXCEPT ![h] = ~all]
  /\ AddKey(h)
  /\ LET new == [event |-> "none", when |-> Zero, there |-> TRUE, wants |-> TRUE, overdue |-> FALSE, active |-> FALSE, says |-> "none"]
         mine == AnnTrackers \X {h}
     IN UpdateTorrentInput(h, [k \in DOMAIN records \cup mine |-> IF k \in DOMAIN records THEN records[k] ELSE new], TRUE)
  /\ UNCHANGED <<annNow, swept, states, sent>>

(* Something happened to the torrent: peers wanted or not, its last piece complete. *)
TorrentChanges(h, wants, all) ==
  /\ AnnSpends /\ live[h] # 0 /\ (whole[h] => all) /\ whole' = [whole EXCEPT ![h] = all]
  /\ UNCHANGED <<annNow, live, adds, asks, swept, sawPart, states, sent>>
  /\ UpdateTorrentInput(h, records, wants)

(* Torrent.close *)
DropTorrent(h) ==
  /\ AnnSpends /\ live[h] # 0 /\ live' = [live EXCEPT ![h] = 0]
  /\ UNCHANGED <<annNow, adds, asks, swept, whole, sawPart, states, sent>>
  /\ UpdateTorrentInput(h, records, FALSE)

(* The weak pointer is cleared, unless an announce still holds the torrent. *)
Collect(h) ==
  /\ asks[h] # 0 /\ asks[h] # live[h] /\ <<h, asks[h]>> \notin swept
  /\ \A k \in DOMAIN sent : Hash(k) = h => sent[k].torrent # asks[h]
  /\ swept' = swept \cup {<<h, asks[h]>>}
  /\ UNCHANGED <<annNow, live, adds, asks, whole, sawPart, records, states, sent, timer, annOps>>

TimerFires ==
  /\ timer.phase = "set" /\ timer.when # Zero /\ timer.when <= annNow
  /\ timer' = [timer EXCEPT !.phase = "fired"]
  /\ UNCHANGED <<annNow, live, adds, asks, swept, whole, sawPart, records, states, sent, annOps>>

(* startAnnounce; dispatchAnnounces starts one after another while the next is due. *)
StartAnnounce(R) ==
  LET next == {k \in NextAnnounce(R) : R[k].overdue}
  IN [k \in DOMAIN R |-> IF k \in next THEN [R[k] EXCEPT !.active = TRUE, !.says = R[k].event] ELSE R[k]]
DispatchAnnounces(R) ==
  LET after[n \in 0..Cardinality(Keys)] == IF n = 0 THEN R ELSE StartAnnounce(after[n - 1])
  IN after[Cardinality(Keys)]

(* timerFunc and step: under the lock, the callback's answer still to be put in. *)
TimerStep ==
  /\ timer.phase = "fired"
  /\ records' = DispatchAnnounces(UpdateOverdue(records))
  /\ timer' = [phase |-> "back", when |-> timer.when, next |-> TimerDelay(records')]
  /\ UNCHANGED <<annNow, live, adds, asks, swept, whole, sawPart, states, sent, annOps>>
TimerReset ==
  /\ timer.phase = "back" /\ timer' = [phase |-> "set", when |-> timer.next]
  /\ UNCHANGED <<annNow, live, adds, asks, swept, whole, sawPart, records, states, sent, annOps>>

(* finishedAnnounce after updateAnnounceState. *)
Finished(k, s) ==
  /\ states' = [states EXCEPT ![k] = s]
  /\ UNCHANGED <<annNow, live, adds, asks, whole, sawPart, annOps>>
  /\ LET r == records[k]
         there == live[Hash(k)] # 0
     IN SetRecords([records EXCEPT ![k] =
          Input([r EXCEPT !.active = FALSE, !.there = there, !.wants = there /\ r.wants], k, states')])

(* singleAnnounceAttempter takes the lock: the torrent may have been collected. *)
AnnounceSkipped(k) ==
  /\ k \in Active(records) \ DOMAIN sent /\ <<Hash(k), asks[Hash(k)]>> \in swept
  /\ Finished(k, [states[k] EXCEPT !.err = TRUE, !.tried = annNow])
  /\ UNCHANGED <<swept, sent>>
(* singleAnnounce, up to the unlock: the event is the one it was started with. *)
AnnounceSent(k) ==
  /\ k \in Active(records) \ DOMAIN sent /\ <<Hash(k), asks[Hash(k)]>> \notin swept
  /\ sent' = [j \in DOMAIN sent \cup {k} |->
               IF j = k THEN [event |-> records[k].says, torrent |-> asks[Hash(k)]] ELSE sent[j]]
  /\ UNCHANGED <<annNow, live, adds, asks, swept, whole, sawPart, records, states, timer, annOps>>

(* What an answer, or an error, leaves in the state. *)
AnnounceResult(k, ok) ==
  IF ok THEN [states[k] EXCEPT !.event = sent[k].event, !.ok = annNow, !.wait = AnnInterval, !.err = FALSE,
                !.tried = annNow, !.sentCompleted = states[k].sentCompleted \/ sent[k].event = "completed"]
  ELSE [states[k] EXCEPT !.err = TRUE, !.tried = annNow]
(* singleAnnounce after the lock is taken again. *)
AnnounceAnswered(k, ok) ==
  /\ k \in DOMAIN sent
  /\ Finished(k, AnnounceResult(k, ok))
  /\ sent' = [j \in DOMAIN sent \ {k} |-> sent[j]]
  /\ UNCHANGED swept

Tick ==
  /\ annNow < AnnHorizon /\ annNow' = annNow + 1
  /\ UNCHANGED <<live, adds, asks, swept, whole, sawPart, records, states, sent, timer, annOps>>

AnnNext ==
  \/ \E h \in AnnHashes : \/ \E b \in BOOLEAN : AddTorrent(h, b)
                          \/ \E w, b \in BOOLEAN : TorrentChanges(h, w, b)
                          \/ DropTorrent(h) \/ Collect(h)
  \/ TimerFires \/ TimerStep \/ TimerReset \/ Tick
  \/ \E k \in Keys : AnnounceSkipped(k) \/ AnnounceSent(k) \/ \E ok \in BOOLEAN : AnnounceAnswered(k, ok)

AnnSpec == AnnInit /\ [][AnnNext]_annVars
-----------------------------------------------------------------------------
AnnTypeOK ==
  /\ annNow \in 0..AnnHorizon /\ timer.phase \in {"set", "fired", "back"}
  /\ DOMAIN records \subseteq Keys /\ DOMAIN sent \subseteq Active(records)

(* startAnnounce and its triggers: however starts, answers and timer callbacks fall, a
   tracker has no more requests under way than it may. *)
TrackerLimit == \A u \in AnnTrackers : Requests(records, u) <= MaxPerTracker

(* "Has ever sent completed event. Should only be sent once.": once the tracker has
   answered it, no announce of it is due or under way. *)
CompletedOnce ==
  \A k \in DOMAIN records : states[k].sentCompleted =>
    /\ records[k].event # "completed"
    /\ k \in DOMAIN sent => sent[k].event # "completed"

(* nextAnnounceEvent: a dropped torrent the tracker still counts has its goodbye due. *)
GoodbyeDue ==
  \A k \in DOMAIN records :
    live[Hash(k)] = 0 /\ k \notin Active(records) /\ states[k].ok # Zero /\ ~states[k].err
    => records[k].event = "stopped" \/ states[k].event = "stopped"

(* After an error the tracker has its minute, whatever else happens to the torrent. *)
ErrorsArePaced ==
  [][\A k \in DOMAIN records :
       k \in Active(records') \ Active(records) /\ live[Hash(k)] # 0 /\ states[k].err
       => annNow >= states[k].tried + RetryAfter]_annVars

AnnSafe == [](AnnTypeOK /\ TrackerLimit /\ CompletedOnce /\ GoodbyeDue) /\ ErrorsArePaced

=============================================================================
