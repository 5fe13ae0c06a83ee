------------------------------ MODULE EnginePeers ------------------------------
(* What the engine's janitor does about one torrent's peers (engine.go shed and
   rescue, peers.go, regroup.go): it follows the requests each connection holds,
   drops connections that stopped sending, frees a piece a stream waits on, and
   tries the remembered peers again when the torrent is alone.

   Times are ages in janitor ticks and saturate at PeerAgeCap.  The BitTorrent
   library gives a request to one connection and never times it out. *)
EXTENDS Naturals, FiniteSets

CONSTANTS Peers, DeadPeers,  \* a dead peer connects, takes requests and sends nothing
          Seeders,           \* peers known to hold every piece
          PeerPieces, NoPeer,
          ShedAfter, RescueAfter, RegroupAfter, RegroupMax, RememberedPeers,
          PeerAgeCap, MaxConnects

(* shedAfter and rescueAfter are longer than a janitor interval, and the first wait of a
   lonely torrent is no longer than the longest. *)
ASSUME PeersAssumption ==
  /\ PeerAgeCap \in Nat /\ RememberedPeers \in Nat
  /\ ShedAfter \in Nat /\ ShedAfter > 1 /\ RescueAfter \in Nat /\ RescueAfter > 1
  /\ RegroupAfter \in Nat /\ RegroupMax \in Nat /\ RegroupAfter <= RegroupMax

VARIABLES conn,     \* the connections
          outstanding,     \* ledger: piece |-> the connection holding its request and since when
          heard,    \* ledger: age of the last useful data, or of the connection
          have,     \* complete pieces
          wait,     \* watched: the piece a stream read waits on, and since when
          known,    \* peers remembered, with the age of the last sighting
          alone,    \* entry.aloneSince, regroupWait
          tried,    \* whether the last tick tried the remembered peers again
          paused, connects
peerVars == <<conn, outstanding, heard, have, wait, known, alone, tried, paused, connects>>

Never == PeerAgeCap + 1
NoWait == [piece |-> 0, age |-> 0]
NotAlone == [age |-> 0, wait |-> 0]
NoRequest == [by |-> NoPeer, age |-> 0]
Older(n) == IF n >= PeerAgeCap THEN n ELSE n + 1

PeersInit ==
  /\ conn = {} /\ have = {} /\ wait = NoWait /\ alone = NotAlone
  /\ outstanding = [i \in PeerPieces |-> NoRequest]
  /\ heard = [p \in Peers |-> 0]
  /\ known = [p \in Peers |-> Never]
  /\ tried = FALSE /\ paused = FALSE /\ connects = 0

(* added: a connection starts with an empty account. *)
Connected(p) ==
  /\ p \notin conn /\ connects < MaxConnects
  /\ conn' = conn \cup {p} /\ heard' = [heard EXCEPT ![p] = 0] /\ connects' = connects + 1
  /\ UNCHANGED <<outstanding, have, wait, known, alone, tried, paused>>

(* closed: its requests are free again. *)
Freed(ps) == [i \in PeerPieces |-> IF outstanding[i].by \in ps THEN NoRequest ELSE outstanding[i]]
Disconnected(p) ==
  /\ p \in conn
  /\ conn' = conn \ {p} /\ outstanding' = Freed({p})
  /\ UNCHANGED <<heard, have, wait, known, alone, tried, paused, connects>>

SentRequest(p, i) ==
  /\ p \in conn /\ ~paused /\ i \notin have /\ outstanding[i] = NoRequest
  /\ outstanding' = [outstanding EXCEPT ![i] = [by |-> p, age |-> 0]]
  /\ UNCHANGED <<conn, heard, have, wait, known, alone, tried, paused, connects>>

(* deletedRequest and received: the piece arrives. *)
PieceReceived(p, i) ==
  /\ outstanding[i].by = p /\ p \notin DeadPeers
  /\ outstanding' = [outstanding EXCEPT ![i] = NoRequest]
  /\ heard' = [heard EXCEPT ![p] = 0]
  /\ have' = have \cup {i}
  /\ UNCHANGED <<conn, wait, known, alone, tried, paused, connects>>

(* watched.Read: the read is noted while it waits, and forgotten when it returns. *)
ReadStart(i) ==
  /\ wait = NoWait /\ wait' = [piece |-> i, age |-> 0]
  /\ UNCHANGED <<conn, outstanding, heard, have, known, alone, tried, paused, connects>>
ReadDone ==
  /\ wait.piece \in have /\ wait' = NoWait
  /\ UNCHANGED <<conn, outstanding, heard, have, known, alone, tried, paused, connects>>

SetPeersPaused(b) ==
  /\ b # paused /\ paused' = b
  /\ outstanding' = IF b THEN [i \in PeerPieces |-> NoRequest] ELSE outstanding
  /\ UNCHANGED <<conn, heard, have, wait, known, alone, tried, connects>>

-----------------------------------------------------------------------------
(* silent: holding requests, the oldest past ShedAfter and nothing useful as long. *)
Silent(c, s, h) ==
  {p \in c : /\ h[p] >= ShedAfter
             /\ \E i \in PeerPieces : s[i].by = p /\ s[i].age >= ShedAfter}

\* Variant for mutation: a lone silent peer is shed too.
ShedAnyone(c, s, h) == Silent(c, s, h)

(* shed: only with another peer to take the requests. *)
Shed(c, s, h) == IF Cardinality(c) < 2 THEN {} ELSE Silent(c, s, h)

(* holding: a request in the piece older than RescueAfter and silent as long. *)
Stale(c, s, h, i) ==
  {p \in c : s[i].by = p /\ s[i].age >= RescueAfter /\ h[p] >= RescueAfter}

(* rescue: a read that waited too long frees its piece, with another seeder there. *)
Rescue(c, s, h, w) ==
  IF w = NoWait \/ w.age < RescueAfter \/ w.piece \in have \/ Cardinality(c \cap Seeders) < 2
  THEN {} ELSE Stale(c, s, h, w.piece)

(* remember: the peers connected now are noted, in the order the library's map gives
   them.  When the list is full the one seen longest ago makes way, even a connected
   one whose turn has not come, and a newcomer is left out when all were seen just now.
   Whatever the order, that leaves some connected peers `now', all of them unless
   they fill the list, and of the others those seen last, as many as fit. *)
Remembered(k) == {p \in Peers : k[p] # Never}
Remember(k, c, k2) ==
  \E now \in SUBSET c, still \in SUBSET (Remembered(k) \ c) :
    /\ Cardinality(now \cup still) <= RememberedPeers
    /\ now = c \/ Cardinality(now) = RememberedPeers
    /\ still = Remembered(k) \ c \/ Cardinality(now \cup still) = RememberedPeers
    /\ \A p \in still, q \in Remembered(k) \ (c \cup still) : k[p] <= k[q]
    /\ k2 = [p \in Peers |-> IF p \in now THEN 0 ELSE IF p \in still THEN k[p] ELSE Never]

Starved(c) == c = {} /\ ~paused /\ have # PeerPieces

\* Variant for mutation: at the longest wait it gives up.
TryUntilMax(a) ==
  LET b == IF a.wait = 0 THEN [age |-> 0, wait |-> RegroupAfter] ELSE [a EXCEPT !.age = Older(@)] IN
  IF b.age < b.wait \/ b.wait = RegroupMax THEN [due |-> FALSE, alone |-> b]
  ELSE [due |-> TRUE, alone |-> [age |-> 0, wait |-> RegroupMax]]

(* tryAgain: the first wait is RegroupAfter, each next one twice as long. *)
TryAgain(a) ==
  LET b == IF a.wait = 0 THEN [age |-> 0, wait |-> RegroupAfter] ELSE [a EXCEPT !.age = Older(@)] IN
  IF b.age < b.wait THEN [due |-> FALSE, alone |-> b]
  ELSE [due |-> TRUE,
        alone |-> [age |-> 0, wait |-> IF 2 * b.wait > RegroupMax THEN RegroupMax ELSE 2 * b.wait]]

DroppedByTick(aged, h, w) ==
  LET shed == Shed(conn, aged, h)
      freed == [i \in PeerPieces |-> IF aged[i].by \in shed THEN NoRequest ELSE aged[i]]
  IN shed \cup Rescue(conn \ shed, freed, h, w)

(* One tick: a janitor interval passes, then shed, rescue and regroup. *)
JanitorTick ==
  LET aged == [i \in PeerPieces |-> [outstanding[i] EXCEPT !.age = IF outstanding[i].by = NoPeer THEN 0 ELSE Older(@)]]
      h == [p \in Peers |-> Older(heard[p])]
      w == [wait EXCEPT !.age = IF wait = NoWait THEN 0 ELSE Older(@)]
      dropped == DroppedByTick(aged, h, w)
      c == conn \ dropped
      again == TryAgain(alone)
  IN /\ conn' = c
     /\ outstanding' = [i \in PeerPieces |-> IF aged[i].by \in dropped THEN NoRequest ELSE aged[i]]
     /\ heard' = h /\ wait' = w
     /\ Remember([p \in Peers |-> IF known[p] = Never THEN Never ELSE Older(known[p])], c, known')
     /\ alone' = IF Starved(c) THEN again.alone ELSE NotAlone
     /\ tried' = (Starved(c) /\ again.due)
     /\ UNCHANGED <<have, paused, connects>>

PeersNext ==
  \/ JanitorTick \/ ReadDone
  \/ \E p \in Peers : Connected(p) \/ Disconnected(p)
  \/ \E p \in Peers, i \in PeerPieces : SentRequest(p, i) \/ PieceReceived(p, i)
  \/ \E i \in PeerPieces : ReadStart(i)
  \/ \E b \in BOOLEAN : SetPeersPaused(b)

(* The ticker fires; a connection to a working peer is given free requests and
   answers them; a read returns once its piece is there. *)
PeersFair ==
  /\ WF_peerVars(JanitorTick)
  /\ WF_peerVars(ReadDone)
  /\ \A p \in Peers \ DeadPeers, i \in PeerPieces :
       SF_peerVars(SentRequest(p, i)) /\ WF_peerVars(PieceReceived(p, i))
PeersSpec == PeersInit /\ [][PeersNext]_peerVars /\ PeersFair

-----------------------------------------------------------------------------
PeersTypeOK ==
  /\ conn \subseteq Peers /\ have \subseteq PeerPieces
  /\ \A i \in PeerPieces : outstanding[i].by \in conn \cup {NoPeer} /\ outstanding[i].age \in 0..PeerAgeCap
  /\ wait.piece \in PeerPieces \cup {0}
  /\ known \in [Peers -> 0..Never]
  /\ alone.wait \in 0..RegroupMax

(* The list of remembered peers stays within its bound, however many peers come
   and go between two ticks. *)
RememberedBounded == Cardinality(Remembered(known)) <= RememberedPeers

(* A tick ends no torrent's only connection, however long it was silent (a lone
   seeder may just be pausing), and none that delivered since the last one. *)
LonePeerSurvives ==
  [][JanitorTick => \A p \in conn : conn = {p} \/ heard[p] = 0 => p \in conn']_peerVars

(* A stream read stuck behind a peer that went silent is rescued as long as a
   working seeder stays connected: the request is freed, and the read returns. *)
StuckReadEnds ==
  \A i \in PeerPieces :
    wait.piece = i ~> (wait.piece # i \/ paused \/ conn \cap (Seeders \ DeadPeers) = {})

(* A download that stays alone keeps trying the peers it had: the wait between
   tries doubles but is bounded, so the tries never end. *)
AloneKeepsTrying == <>[](Starved(conn)) => []<>tried

(* What the janitor keeps of peers stays within bounds: the parts above. *)
PeersSafe == PeersTypeOK /\ RememberedBounded
=============================================================================
