------------------------------- MODULE SwarmInfo -------------------------------
(* What the peers of one torrent have and what the torrent knows of itself
   (bt/torrent.go, bt/peerconn.go, bt/client.go): a torrent added by magnet fetches
   its info from peers in chunks; each piece counts the connections that have it,
   those with everything being kept in a set of their own.

   The client lock makes every handler atomic.  A connection whose writer failed, or
   that the engine gave up, is closed first and leaves t.conns when its reader wakes. *)
EXTENDS Naturals, FiniteSets

CONSTANTS InfoConns,    \* connections
          InfoPieces,   \* pieces of the torrent
          InfoChunks,   \* metadata chunks of the real info: 1..n
          HashKnown,    \* "v1": only a v1 infohash is known; "both": v1 and v2
          RepeatsState, \* a peer may send HaveNone after HaveAll
          MaxInfoFaults \* bound on bad chunks, wrong sizes and storage failures

ASSUME InfoAssumption ==
  /\ HashKnown \in {"v1", "both"} /\ RepeatsState \in BOOLEAN
  /\ IsFiniteSet(InfoConns) /\ IsFiniteSet(InfoChunks) /\ InfoChunks # {}
  /\ InfoChunks = 1 .. Cardinality(InfoChunks)

VARIABLES info,     \* "none", or the bytes the info was made of: "good", "bad"
          meta,     \* metadataBytes by chunk, metadataCompletedChunks
          conn,     \* connections
          withAll,  \* connsWithAllPieces
          rel,      \* relativeAvailability
          infoFaults
infoVars == <<info, meta, conn, withAll, rel, infoFaults>>

RealSize == Cardinality(InfoChunks)
NoMeta == [size |-> 0, data |-> [i \in InfoChunks |-> "zero"], done |-> {}, alloc |-> FALSE]
NoConn == [st |-> "none", all |-> FALSE, pieces |-> {}, ext |-> FALSE, asked |-> {}]
Joined == [NoConn EXCEPT !.st = "open"]

InfoInit ==
  /\ info = "none" /\ meta = NoMeta
  /\ conn = [k \in InfoConns |-> NoConn]
  /\ withAll = {} /\ rel = [p \in InfoPieces |-> 0] /\ infoFaults = 0

Present == {k \in InfoConns : conn[k].st # "none"}
Open(k) == conn[k].st = "open"
Spend == infoFaults < MaxInfoFaults /\ infoFaults' = infoFaults + 1

(* peerHasPiece: everything, said or counted, or the piece itself. *)
HasPiece(c, p) == c.all \/ p \in c.pieces

(* incPieceAvailability, decPieceAvailability: nothing is counted before the info. *)
Count(up, down) ==
  IF info = "none" THEN rel
  ELSE [p \in InfoPieces |-> (rel[p] + (IF p \in up THEN 1 ELSE 0)) - (IF p \in down THEN 1 ELSE 0)]

-----------------------------------------------------------------------------
(* The connections *)

ConnJoins(k) ==
  /\ conn[k].st = "none"
  /\ conn' = [conn EXCEPT ![k] = Joined]
  /\ UNCHANGED <<info, meta, withAll, rel, infoFaults>>

(* decPeerPieceAvailability, as a connection closes: out of the set, or counted out. *)
DecAvailability(k) ==
  IF k \in withAll THEN withAll' = withAll \ {k} /\ UNCHANGED rel
  ELSE UNCHANGED withAll /\ rel' = Count({}, conn[k].pieces)

(* close: the connection stays in t.conns. *)
ConnCloses(k) ==
  /\ conn' = [conn EXCEPT ![k].st = "closed"]
  /\ DecAvailability(k)
(* messageWriterRunner: a write failed. *)
WriterEnds(k) == Open(k) /\ ConnCloses(k) /\ UNCHANGED <<info, meta, infoFaults>>

(* dropConnection: the reader of a closed connection, or one dropped at once. *)
ConnGone(k) ==
  /\ conn[k].st = "closed"
  /\ conn' = [conn EXCEPT ![k] = NoConn]
  /\ UNCHANGED <<info, meta, withAll, rel, infoFaults>>
ConnDropped(k) ==
  /\ Open(k)
  /\ conn' = [conn EXCEPT ![k] = NoConn]
  /\ DecAvailability(k)
  /\ UNCHANGED <<info, meta, infoFaults>>

(* peerSentHave *)
SentHave(k, p) ==
  /\ Open(k) /\ ~HasPiece(conn[k], p)
  /\ conn' = [conn EXCEPT ![k].pieces = @ \cup {p}]
  /\ rel' = Count({p}, {})
  /\ UNCHANGED <<info, meta, withAll, infoFaults>>

(* onPeerHasAllPieces: from counted one by one to the set. *)
HasAll(k) ==
  /\ rel' = Count({}, conn[k].pieces)
  /\ withAll' = withAll \cup {k}
  /\ conn' = [conn EXCEPT ![k] = [@ EXCEPT !.all = TRUE, !.pieces = {}]]

(* peerSentBitfield: the difference with what was known is counted; a full one is
   HaveAll once the number of pieces is known. *)
SentBitfield(k, bf) ==
  /\ Open(k)
  /\ IF info # "none" /\ bf = InfoPieces THEN HasAll(k)
     ELSE /\ conn' = [conn EXCEPT ![k] = [@ EXCEPT !.all = FALSE, !.pieces = bf]]
          /\ withAll' = IF conn[k].all THEN withAll \ {k} ELSE withAll
          /\ rel' = Count(bf \ conn[k].pieces, conn[k].pieces \ bf)
  /\ UNCHANGED <<info, meta, infoFaults>>
SentHaveAll(k) == Open(k) /\ HasAll(k) /\ UNCHANGED <<info, meta, infoFaults>>

(* peerSentHaveNone: after a HaveAll the connection stays in connsWithAllPieces. *)
SentHaveNone(k) ==
  /\ Open(k) /\ (RepeatsState \/ ~conn[k].all)
  /\ conn' = [conn EXCEPT ![k] = [@ EXCEPT !.all = FALSE, !.pieces = {}]]
  /\ IF conn[k].all THEN UNCHANGED <<withAll, rel>> ELSE DecAvailability(k)
  /\ UNCHANGED <<info, meta, infoFaults>>

-----------------------------------------------------------------------------
(* The info *)

(* requestPendingMetadata: the chunks nobody has delivered and this peer was not
   asked for. *)
InfoPending(c, m) == IF info # "none" \/ ~c.ext THEN c
                 ELSE [c EXCEPT !.asked = @ \cup {i \in 1..m.size : i \notin m.done}]

(* setMetadataSize: another size than the one known throws away what was received. *)
SetMetadataSize(size) ==
  IF info # "none" \/ meta.size = size THEN meta ELSE [NoMeta EXCEPT !.size = size, !.alloc = TRUE]

(* An extended handshake with the size of the metadata: with another size every peer
   is asked again. *)
Handshake(k, size) ==
  /\ Open(k) /\ ~conn[k].ext
  /\ IF size = RealSize THEN UNCHANGED infoFaults ELSE Spend
  /\ LET m == SetMetadataSize(size)
         known == [conn EXCEPT ![k].ext = TRUE]
     IN /\ meta' = m
        /\ conn' = [j \in InfoConns |-> IF j = k \/ (m # meta /\ conn[j].st # "none")
                                        THEN InfoPending(known[j], m) ELSE conn[j]]
  /\ UNCHANGED <<info, withAll, rel>>

(* hashInfoBytes: with both infohashes known each must match; with only the v1 one
   there is no branch for bytes that match neither. *)
HashInfoBytes(bytes) == HashKnown = "v1" \/ bytes = "good"

(* onSetInfo counts what every connection of t.conns has. *)
AvailabilityFromPeers ==
  [p \in InfoPieces |-> Cardinality({k \in Present \ withAll : HasPiece(conn[k], p)})]

(* saveMetadataPiece *)
SaveMetadataPiece(i, good) ==
  IF info # "none" \/ ~meta.alloc \/ i > meta.size THEN meta
  ELSE [meta EXCEPT !.data[i] = IF good THEN "good" ELSE "bad", !.done = @ \cup {i}]

(* setInfoBytesLocked takes the bytes before it opens the storage: a storage that does
   not open leaves the bytes without chunks. *)
SetInfoBytes(m, bytes, opens) ==
  /\ meta' = [m EXCEPT !.done = {}, !.alloc = FALSE]
  /\ IF opens THEN info' = bytes /\ rel' = AvailabilityFromPeers /\ UNCHANGED withAll
     ELSE UNCHANGED info

(* A chunk that was asked for.  The last one sets the info; bytes that do not decode or
   do not match empty the chunks.  After a failure the sender is dropped. *)
MetadataChunk(k, i, good, decodes, opens) ==
  /\ Open(k) /\ i \in conn[k].asked
  /\ IF good /\ opens THEN UNCHANGED infoFaults ELSE Spend
  /\ LET m == SaveMetadataPiece(i, good)
         bytes == IF m.size = RealSize /\ \A j \in 1..m.size : m.data[j] = "good" THEN "good" ELSE "bad"
         whole == info = "none" /\ m.alloc /\ m.done = 1..m.size
         taken == whole /\ (bytes = "good" \/ decodes) /\ HashInfoBytes(bytes)
     IN \/ /\ ~whole
           /\ meta' = m /\ conn' = [conn EXCEPT ![k].asked = @ \ {i}]
           /\ UNCHANGED <<info, withAll, rel>>
        \/ /\ taken /\ SetInfoBytes(m, bytes, opens)
           /\ IF opens THEN conn' = [conn EXCEPT ![k].asked = @ \ {i}]
              ELSE conn' = [conn EXCEPT ![k] = NoConn] /\ DecAvailability(k)
        \/ /\ whole /\ ~taken
           /\ meta' = [m EXCEPT !.done = {}] /\ UNCHANGED info
           /\ conn' = [conn EXCEPT ![k] = NoConn] /\ DecAvailability(k)

InfoNext ==
  \E k \in InfoConns :
    \/ ConnJoins(k) \/ WriterEnds(k) \/ ConnGone(k) \/ ConnDropped(k)
    \/ SentHaveAll(k) \/ SentHaveNone(k)
    \/ \E p \in InfoPieces : SentHave(k, p)
    \/ \E bf \in SUBSET InfoPieces : SentBitfield(k, bf)
    \/ \E size \in {1, RealSize} : Handshake(k, size)
    \/ \E i \in InfoChunks, good, decodes, opens \in BOOLEAN : MetadataChunk(k, i, good, decodes, opens)

InfoSpec == InfoInit /\ [][InfoNext]_infoVars
-----------------------------------------------------------------------------
InfoTypeOK ==
  /\ info \in {"none", "good", "bad"}
  /\ meta.size \in 0..RealSize /\ meta.done \subseteq 1..meta.size
  /\ \A k \in InfoConns : conn[k].all => conn[k].pieces = {}
  /\ withAll \subseteq {k \in InfoConns : Open(k)}

Counted(p) == {k \in InfoConns \ withAll : Open(k) /\ p \in conn[k].pieces}

(* decPieceAvailability panics at zero: a piece is counted for every connection that
   will count it out, whatever order the info, the pieces and the closes come in. *)
AvailabilityCovers == info # "none" => \A p \in InfoPieces : rel[p] >= Cardinality(Counted(p))

(* "Checks the info bytes hash to expected values" (torrent.go hashInfoBytes): the
   info is made of the bytes the infohash stands for. *)
InfoMatchesHash == info # "bad"

InfoSafe == InfoTypeOK /\ AvailabilityCovers /\ InfoMatchesHash
=============================================================================
