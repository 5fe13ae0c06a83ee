------------------------------ MODULE SwarmPieces ------------------------------
(* A piece on its way to the disk (bt/torrent.go, bt/piece.go, Peer.receiveChunk in
   bt/peer.go, bt/smartban): chunks arrive and are written with the client
   unlocked, a piece whose chunks are all in is hashed, and the result is marked in
   storage with the client unlocked again.  A peer may send wrong data; a write
   or a read of the disk may fail; the program may be killed and started again.

   Data is "good" or "bad"; the last piece is shorter than the others. *)
EXTENDS Naturals, FiniteSets

CONSTANTS PieceCount,    \* numPieces
          Senders,       \* peers whose data we take
          Liars,         \* those that may send wrong data
          PieceHashers,  \* PieceHashersPerTorrent
          MaxArrivals,   \* bound on the chunks received
          MaxIOFaults,   \* bound on failed writes, reads and marks
          MaxBoots       \* bound on restarts

Pieces == 1..PieceCount
Chunks(p) == IF p = PieceCount THEN {1} ELSE {1, 2}
ASSUME SwarmAssumption == PieceCount \in Nat \ {0} /\ Liars \subseteq Senders /\ PieceHashers \in Nat \ {0}
ASSUME SendersAssumption == IsFiniteSet(Senders)

VARIABLES onDisk,     \* p, c |-> what the file holds
          dirty,      \* p |-> dirtyChunks
          writing,    \* peer |-> the chunk its read loop is writing, unlocked
          queuedHash, \* piecesQueuedForHash
          hashing,    \* p |-> "idle", "hashing", "pass" or "fail": the last two are Piece.marking
          completion, \* p |-> the cached completion: "unknown", "no" or "yes"
          stored,     \* p |-> what storage says
          dirtiers,   \* p |-> Piece.dirtiers
          recorded,   \* smartBanCache: <<peer, p, c, data>>
          connected,  \* peers we are connected to
          bannedIPs,  \* badPeerIPs
          disallowed, \* dataDownloadDisallowed
          asked,      \* pieces we have asked peers for
          arrivals, ioFaults, boots
pieceVars == <<onDisk, dirty, writing, queuedHash, hashing, completion, stored, dirtiers, recorded,
               connected, bannedIPs, disallowed, asked, arrivals, ioFaults, boots>>

NoWrite == [p |-> 0, c |-> 0, data |-> "none"]
Marking(p) == hashing[p] \in {"pass", "fail"}
AllDirty(p, d) == d[p] = Chunks(p)
Writes(p, w) == {k \in Senders : w[k].p = p}

(* ignoreForRequests: the pieces nobody is asked for. *)
IgnoreForRequests(p) ==
  \/ completion[p] # "no" \/ hashing[p] # "idle" \/ disallowed \/ p \in queuedHash

(* startPieceHashers and getPieceToHash: as many of the queued pieces as there are
   hashers free, the ones a reader waits for (here, the later ones) first, and none
   that is being hashed or marked. *)
StartPieceHashers(q, h) ==
  LET free == {p \in q : h[p] = "idle"}
      busy == Cardinality({p \in Pieces : h[p] # "idle"})
      started == {p \in free : Cardinality({o \in free : o > p}) + busy < PieceHashers}
  IN /\ queuedHash' = q \ started
     /\ hashing' = [p \in Pieces |-> IF p \in started THEN "hashing" ELSE h[p]]

(* onSetInfo: completion as storage has it, a check of what it does not know. *)
Opened ==
  /\ dirty' = [p \in Pieces |-> {}] /\ writing' = [k \in Senders |-> NoWrite]
  /\ completion' = stored /\ dirtiers' = [p \in Pieces |-> {}] /\ recorded' = {}
  /\ connected' = Senders /\ bannedIPs' = {} /\ disallowed' = FALSE /\ asked' = {}
  /\ StartPieceHashers({p \in Pieces : stored[p] = "unknown"}, [p \in Pieces |-> "idle"])

PiecesInit ==
  /\ onDisk \in {[p \in Pieces |-> [c \in {1, 2} |-> IF p \in kept THEN "good" ELSE "none"]] :
                 kept \in SUBSET Pieces}
  /\ stored = [p \in Pieces |-> "unknown"]
  /\ dirty = [p \in Pieces |-> {}] /\ writing = [k \in Senders |-> NoWrite]
  /\ completion = stored /\ dirtiers = [p \in Pieces |-> {}] /\ recorded = {}
  /\ connected = Senders /\ bannedIPs = {} /\ disallowed = FALSE /\ asked = {}
  /\ queuedHash = {p \in Pieces : p + PieceHashers <= PieceCount}
  /\ hashing = [p \in Pieces |-> IF p + PieceHashers <= PieceCount THEN "idle" ELSE "hashing"]
  /\ arrivals = 0 /\ ioFaults = 0 /\ boots = 0

(* A piece that may be requested is: its chunks may arrive from now on, also after
   the request is cancelled or another peer has served it. *)
AskFor(p) ==
  /\ ~IgnoreForRequests(p) /\ p \notin asked
  /\ asked' = asked \cup {p}
  /\ UNCHANGED <<onDisk, dirty, writing, queuedHash, hashing, completion, stored, dirtiers, recorded,
                 connected, bannedIPs, disallowed, arrivals, ioFaults, boots>>

-----------------------------------------------------------------------------
\* Variant for mutation: a chunk already received is written again.
HaveIfComplete(p, c) == completion[p] = "yes"

HaveChunk(p, c) == completion[p] = "yes" \/ c \in dirty[p]

(* Peer.receiveChunk until the client is unlocked: recorded for the smart ban even
   when redundant, counted as had before it is written. *)
ReceiveChunk(k, p, c, data) ==
  /\ k \in connected /\ writing[k] = NoWrite /\ p \in asked /\ arrivals < MaxArrivals
  /\ data = "good" \/ k \in Liars
  /\ arrivals' = arrivals + 1
  /\ recorded' = recorded \cup {<<k, p, c, data>>}
  /\ IF HaveChunk(p, c) THEN UNCHANGED <<writing, dirty>>
     ELSE /\ writing' = [writing EXCEPT ![k] = [p |-> p, c |-> c, data |-> data]]
          /\ dirty' = [dirty EXCEPT ![p] = @ \cup {c}]
  /\ UNCHANGED <<onDisk, queuedHash, hashing, completion, stored, dirtiers, connected, bannedIPs,
                 disallowed, asked, ioFaults, boots>>

(* The rest of it: the writer of the last chunk queues the check. *)
ChunkWritten(k) ==
  LET w == writing[k] p == w.p rest == [writing EXCEPT ![k] = NoWrite] IN
  /\ w # NoWrite
  /\ onDisk' = [onDisk EXCEPT ![p][w.c] = w.data]
  /\ writing' = rest /\ dirtiers' = [dirtiers EXCEPT ![p] = @ \cup {k}]
  /\ IF AllDirty(p, dirty) /\ Writes(p, rest) = {}
     THEN StartPieceHashers(queuedHash \cup {p}, hashing)
     ELSE UNCHANGED <<queuedHash, hashing>>
  /\ UNCHANGED <<dirty, completion, stored, recorded, connected, bannedIPs, disallowed, asked,
                 arrivals, ioFaults, boots>>

(* A failed write gives the chunk back, and onWriteChunkErr stops the download. *)
WriteFails(k) ==
  /\ writing[k] # NoWrite /\ ioFaults < MaxIOFaults
  /\ writing' = [writing EXCEPT ![k] = NoWrite]
  /\ dirty' = [dirty EXCEPT ![writing[k].p] = @ \ {writing[k].c}]
  /\ disallowed' = TRUE /\ ioFaults' = ioFaults + 1
  /\ UNCHANGED <<onDisk, queuedHash, hashing, completion, stored, dirtiers, recorded, connected,
                 bannedIPs, asked, arrivals, boots>>

AllowDataDownload ==
  /\ disallowed /\ disallowed' = FALSE
  /\ UNCHANGED <<onDisk, dirty, writing, queuedHash, hashing, completion, stored, dirtiers, recorded,
                 connected, bannedIPs, asked, arrivals, ioFaults, boots>>

(* A connection ends; what its peer wrote stays its doing. *)
SenderLeaves(k) ==
  /\ k \in connected
  /\ connected' = connected \ {k}
  /\ UNCHANGED <<onDisk, dirty, writing, queuedHash, hashing, completion, stored, dirtiers, recorded,
                 bannedIPs, disallowed, asked, arrivals, ioFaults, boots>>

-----------------------------------------------------------------------------
(* finishHash and the locked part of pieceHashed: hashPiece waits for the writes
   under way, then reads.  A good piece bans whoever sent another version of a
   chunk; a bad one bans the peer that alone wrote all of it, unless it was the
   reading that failed. *)
HashCorrect(p) == \A c \in Chunks(p) : onDisk[p][c] = "good"
SmartBanned(p) == {k \in Senders : \E c \in Chunks(p) : <<k, p, c, "bad">> \in recorded}

Blamed(p, ioErr) ==
  IF AllDirty(p, dirty) /\ ~ioErr /\ Cardinality(dirtiers[p]) = 1 THEN dirtiers[p] ELSE {}

FinishHash(p, ioErr) ==
  LET good == HashCorrect(p) /\ ~ioErr IN
  /\ hashing[p] = "hashing" /\ Writes(p, writing) = {}
  /\ ioErr => ioFaults < MaxIOFaults
  /\ ioFaults' = IF ioErr THEN ioFaults + 1 ELSE ioFaults
  /\ hashing' = [hashing EXCEPT ![p] = IF good THEN "pass" ELSE "fail"]
  /\ bannedIPs' = bannedIPs \cup (IF good THEN SmartBanned(p) ELSE Blamed(p, ioErr))
  /\ connected' = IF good /\ SmartBanned(p) # {} THEN connected \ bannedIPs' ELSE connected
  /\ recorded' = IF good THEN {r \in recorded : r[2] # p} ELSE recorded
  /\ dirtiers' = IF good \/ (AllDirty(p, dirty) /\ ~ioErr) THEN [dirtiers EXCEPT ![p] = {}] ELSE dirtiers
  /\ UNCHANGED <<onDisk, dirty, writing, queuedHash, completion, stored, disallowed, asked, arrivals, boots>>

(* Storage is told with the client unlocked ... *)
MarkInStorage(p) ==
  /\ Marking(p)
  /\ stored[p] # (IF hashing[p] = "pass" THEN "yes" ELSE "no")
  /\ stored' = [stored EXCEPT ![p] = IF hashing[p] = "pass" THEN "yes" ELSE "no"]
  /\ UNCHANGED <<onDisk, dirty, writing, queuedHash, hashing, completion, dirtiers, recorded, connected,
                 bannedIPs, disallowed, asked, arrivals, ioFaults, boots>>

(* ... and the rest is locked: the chunks are pended again, all of them after a
   pass, and after a failure only when all were in; the hasher takes the next. *)
PendAll(p, pass) == IF pass \/ AllDirty(p, dirty) THEN [dirty EXCEPT ![p] = {}] ELSE dirty
\* Variant for mutation: the completion is taken over while storage is still being told.
TellLater(p, pass) == TRUE
StorageTold(p, pass) == stored[p] = IF pass THEN "yes" ELSE "no"

(* A storage that refuses to keep the mark is logged and changes nothing here. *)
PieceMarked(p, refused) ==
  LET pass == hashing[p] = "pass" IN
  /\ Marking(p)
  /\ IF refused THEN ioFaults < MaxIOFaults /\ ioFaults' = ioFaults + 1
     ELSE StorageTold(p, pass) /\ ioFaults' = ioFaults
  /\ completion' = [completion EXCEPT ![p] = IF pass THEN "yes" ELSE "no"]
  /\ dirty' = PendAll(p, pass)
  /\ StartPieceHashers(queuedHash, [hashing EXCEPT ![p] = "idle"])
  /\ UNCHANGED <<onDisk, writing, stored, dirtiers, recorded, connected, bannedIPs, disallowed, asked,
                 arrivals, boots>>

(* Killed and started again: the files and the completion are what is left. *)
Reboot ==
  /\ boots < MaxBoots /\ boots' = boots + 1
  /\ Opened
  /\ UNCHANGED <<onDisk, stored, arrivals, ioFaults>>

PiecesNext ==
  \/ \E p \in Pieces :
       \/ AskFor(p) \/ MarkInStorage(p)
       \/ \E fails \in BOOLEAN : FinishHash(p, fails) \/ PieceMarked(p, fails)
       \/ \E k \in Senders, c \in Chunks(p), d \in {"good", "bad"} : ReceiveChunk(k, p, c, d)
  \/ \E k \in Senders : ChunkWritten(k) \/ WriteFails(k) \/ SenderLeaves(k)
  \/ AllowDataDownload \/ Reboot
PiecesSpec == PiecesInit /\ [][PiecesNext]_pieceVars
-----------------------------------------------------------------------------
PiecesTypeOK ==
  /\ \A p \in Pieces : dirty[p] \subseteq Chunks(p) /\ dirtiers[p] \subseteq Senders
  /\ hashing \in [Pieces -> {"idle", "hashing", "pass", "fail"}]
  /\ completion \in [Pieces -> {"unknown", "no", "yes"}] /\ stored \in [Pieces -> {"unknown", "no", "yes"}]
  /\ queuedHash \subseteq Pieces /\ asked \subseteq Pieces
  /\ Cardinality({p \in Pieces : hashing[p] # "idle"}) <= PieceHashers

(* What is called complete, to the player and to other peers or in storage after a
   crash, is right on disk: no late chunk of a cancelled request, and no write that
   was under way when the hash was taken, gets in after it. *)
CompleteIsGood ==
  \A p \in Pieces : completion[p] = "yes" \/ stored[p] = "yes" => HashCorrect(p)

(* A piece never gets stuck with all its chunks in and nobody to check it: "we need
   to ensure the piece is only queued once, so only the last chunk writer gets this
   job", while the write of another chunk may fail or end in any order. *)
FullPieceIsChecked ==
  \A p \in Pieces :
    AllDirty(p, dirty) /\ Writes(p, writing) = {} => p \in queuedHash \/ hashing[p] # "idle"

(* Only a peer that sent wrong data is banned, although a failed piece is often the
   work of several, some of them gone by then. *)
OnlyLiarsBanned == bannedIPs \subseteq Liars

(* What is complete is right, what is full is checked, who is banned lied: the parts above. *)
PiecesSafe == PiecesTypeOK /\ CompleteIsGood /\ FullPieceIsChecked /\ OnlyLiarsBanned

(* Seen from outside all this is a PieceStore: a piece is called complete only when it is
   right, and after storage has kept that unless storage refused; neither a late write nor a
   crash at any point takes it back. *)
Store == INSTANCE PieceStore WITH
           StorePieces <- Pieces, good <- {p \in Pieces : HashCorrect(p)},
           complete <- {p \in Pieces : stored[p] = "yes"},
           shown <- {p \in Pieces : completion[p] = "yes"}, faults <- ioFaults
StoresPieces == Store!StoreSpec
=============================================================================
