------------------------------- MODULE PeerWire -------------------------------
(* Chunks asked for over peer connections (bt/peerconn.go, bt/requesting.go): this
   client downloads one piece over several connections, and at the other end of each
   runs the uploading half of the same code.  Messages of one connection arrive in
   order, and cross those of the other direction.

   The piece is what every chunk belongs to; when all are in it is hashed. *)
EXTENDS Naturals, Sequences, FiniteSets
Ext == INSTANCE SequencesExt

CONSTANTS Conns,        \* connections
          FastConns,    \* those with the fast extension at both ends
          WireChunks,   \* chunks of the piece
          Pipeline,     \* nominalMaxRequests
          LocalReqq,    \* localClientReqq
          ReadyMax,     \* MaxAllocPeerRequestDataPerConn, in chunks
          WireFaults    \* bound on steals, failed hashes and reads, pauses, chokes and drops

ASSUME WireAssumption ==
  /\ FastConns \subseteq Conns /\ "none" \notin Conns /\ IsFiniteSet(WireChunks)
  /\ Pipeline \in Nat /\ ReadyMax \in Nat \ {0}

VARIABLES asking,     \* k |-> requestState.Requests, Cancelled, validReceiveChunks, peerChoking, needRequestUpdate
          requester,  \* Torrent.requestState: chunk |-> connection, or "none"
          gotChunks,  \* dirtyChunks
          pieceState, \* "missing", "hashing" or "complete"
          pausedDown, \* dataDownloadDisallowed
          serving,    \* k |-> the other end: choking, unreadPeerRequests, readyPeerRequests, reading, allowed
          out, in,    \* k |-> messages to the other end, and from it
          open,       \* connections not closed
          errors,     \* connections a handler returned an error on
          staleReads, \* connections on which a read failed for a request already gone
          wireFaults
wireVars == <<asking, requester, gotChunks, pieceState, pausedDown, serving, out, in, open, errors, staleReads, wireFaults>>

WireInit ==
  /\ asking = [k \in Conns |-> [reqs |-> {}, cancelled |-> {}, expect |-> [r \in WireChunks |-> 0],
                                choked |-> TRUE, update |-> "other"]]
  /\ requester = [r \in WireChunks |-> "none"]
  /\ gotChunks = {} /\ pieceState = "missing" /\ pausedDown = FALSE
  /\ serving = [k \in Conns |-> [choking |-> TRUE, unread |-> {}, ready |-> {}, reading |-> {}, allowed |-> TRUE]]
  /\ out = [k \in Conns |-> <<>>] /\ in = [k \in Conns |-> <<>>]
  /\ open = Conns /\ errors = {} /\ staleReads = {} /\ wireFaults = 0

Msg(type, r) == [type |-> type, r |-> r]
Fast(k) == k \in FastConns

(* onNeedUpdateRequests: the first reason stands until the update. *)
Need(a, reason) == IF a.update = "" THEN [a EXCEPT !.update = reason] ELSE a
Pending(a) == Cardinality(a.reqs) + Cardinality(a.cancelled)
NeedIfLow(a, reason) == IF 2 * Pending(a) <= Pipeline THEN Need(a, reason) ELSE a

\* Variant for mutation: a cancelled request is forgotten at once.
CancelForgets(k, a, rs) == IF rs = {} THEN a ELSE NeedIfLow([a EXCEPT !.reqs = @ \ rs], "cancel")

(* cancel and handleCancel: with the fast extension an answer is still awaited. *)
CancelAll(k, a, rs) ==
  IF rs = {} THEN a
  ELSE NeedIfLow([a EXCEPT !.reqs = @ \ rs, !.cancelled = IF Fast(k) THEN @ \cup rs ELSE @], "cancel")
Sends(q, type, rs) == q \o Ext!SetToSeq({Msg(type, r) : r \in rs})

Owned(k, rs) == {r \in rs : requester[r] = k}

-----------------------------------------------------------------------------
(* updateRequests: chunks nobody was asked for first, then some of another's; not
   another's after a cancel, none after a reject. *)
Requestable(k) ==
  {r \in WireChunks \ (gotChunks \cup asking[k].cancelled \cup asking[k].reqs) :
     pieceState = "missing" /\ ~pausedDown /\ ~asking[k].choked}
Min2(a, b) == IF a < b THEN a ELSE b

UpdateRequests(k) ==
  LET a == asking[k]
      want == IF a.update = "reject" THEN {} ELSE Requestable(k)
      free == {r \in want : requester[r] = "none"}
      stealable == IF a.update = "cancel" THEN {} ELSE want \ free
      room == IF Pending(a) < Pipeline THEN Pipeline - Pending(a) ELSE 0
  IN /\ k \in open /\ a.update # ""
     /\ \E new \in SUBSET (free \cup stealable) :
          /\ Cardinality(new) <= room
          /\ Cardinality(new \cap free) = Min2(room, Cardinality(free))
          /\ asking' = [o \in Conns |->
               IF o = k THEN [a EXCEPT !.reqs = @ \cup new, !.update = "",
                                       !.expect = [r \in WireChunks |-> IF r \in new THEN @[r] + 1 ELSE @[r]]]
               ELSE CancelAll(o, asking[o], Owned(o, new))]
          /\ out' = [o \in Conns |-> IF o = k THEN Sends(out[k], "request", new)
                                     ELSE Sends(out[o], "cancel", Owned(o, new))]
          /\ requester' = [r \in WireChunks |-> IF r \in new THEN k ELSE requester[r]]
          /\ new \subseteq free \/ wireFaults < WireFaults
          /\ wireFaults' = IF new \subseteq free THEN wireFaults ELSE wireFaults + 1
  /\ UNCHANGED <<gotChunks, pieceState, pausedDown, serving, in, open, errors, staleReads>>

Reading(k, type) == k \in open /\ in[k] # <<>> /\ Head(in[k]).type = type
NextIn(k) == in' = [in EXCEPT ![k] = Tail(@)]

(* A handler that returns an error ends the connection. *)
Ended(k) ==
  /\ open' = open \ {k}
  /\ requester' = [r \in WireChunks |-> IF requester[r] = k THEN "none" ELSE requester[r]]
  /\ asking' = [o \in Conns |-> IF o = k THEN [asking[k] EXCEPT !.reqs = {}]
                                ELSE IF asking[k].reqs = {} THEN asking[o] ELSE NeedIfLow(asking[o], "other")]

(* receiveChunk: expected, then no longer awaited by this connection, then taken
   if we lack it, and cancelled where else it was asked for. *)
GetPiece(k) ==
  LET r == Head(in[k]).r a == asking[k] IN
  /\ Reading(k, "piece") /\ NextIn(k)
  /\ IF a.expect[r] = 0
     THEN Ended(k) /\ errors' = errors \cup {k} /\ UNCHANGED <<gotChunks, pieceState, out>>
     ELSE LET taken == NeedIfLow([a EXCEPT !.expect[r] = @ - 1, !.reqs = @ \ {r}, !.cancelled = @ \ {r}], "other")
              new == r \notin gotChunks /\ pieceState # "complete"
          IN /\ asking' = [o \in Conns |-> IF o = k THEN taken
                             ELSE IF new THEN CancelAll(o, asking[o], Owned(o, {r})) ELSE asking[o]]
             /\ out' = [o \in Conns |-> IF o # k /\ new THEN Sends(out[o], "cancel", Owned(o, {r})) ELSE out[o]]
             /\ requester' = [requester EXCEPT ![r] = IF new \/ @ = k THEN "none" ELSE @]
             /\ gotChunks' = IF new THEN gotChunks \cup {r} ELSE gotChunks
             /\ pieceState' = IF new /\ gotChunks' = WireChunks THEN "hashing" ELSE pieceState
             /\ UNCHANGED <<errors, open>>
  /\ UNCHANGED <<pausedDown, serving, staleReads, wireFaults>>

(* remoteRejectedRequest. *)
GetReject(k) ==
  LET r == Head(in[k]).r a == asking[k] IN
  /\ Reading(k, "reject") /\ NextIn(k)
  /\ IF r \notin a.reqs \cup a.cancelled
     THEN Ended(k) /\ errors' = errors \cup {k}
     ELSE /\ asking' = [asking EXCEPT ![k] =
               NeedIfLow([a EXCEPT !.expect[r] = @ - 1, !.reqs = @ \ {r},
                                   !.cancelled = IF r \in a.reqs THEN @ ELSE @ \ {r}], "reject")]
          /\ requester' = [requester EXCEPT ![r] = IF r \in a.reqs THEN "none" ELSE @]
          /\ UNCHANGED <<errors, open>>
  /\ UNCHANGED <<gotChunks, pieceState, pausedDown, serving, out, staleReads, wireFaults>>

(* Choked without the fast extension, what was asked for is forgotten; with it, it
   is kept until answered. *)
GetChoke(k) ==
  LET a == asking[k] drops == ~a.choked /\ ~Fast(k) IN
  /\ Reading(k, "choke") /\ NextIn(k)
  /\ asking' = [o \in Conns |->
       LET b == IF o = k THEN [asking[o] EXCEPT !.choked = TRUE, !.reqs = IF drops THEN {} ELSE @] ELSE asking[o]
       IN IF drops /\ a.reqs # {} THEN NeedIfLow(b, "other") ELSE b]
  /\ requester' = [r \in WireChunks |-> IF drops /\ requester[r] = k THEN "none" ELSE requester[r]]
  /\ UNCHANGED <<gotChunks, pieceState, pausedDown, serving, out, open, errors, staleReads, wireFaults>>

GetUnchoke(k) ==
  /\ Reading(k, "unchoke") /\ NextIn(k)
  /\ asking' = [asking EXCEPT ![k] =
       IF pieceState = "missing" /\ ~pausedDown THEN Need([asking[k] EXCEPT !.choked = FALSE], "other")
       ELSE [asking[k] EXCEPT !.choked = FALSE]]
  /\ UNCHANGED <<requester, gotChunks, pieceState, pausedDown, serving, out, open, errors, staleReads, wireFaults>>

-----------------------------------------------------------------------------
(* The hash of the whole piece: what failed is asked for again. *)
HashPiece(pass) ==
  /\ pieceState = "hashing"
  /\ ~pass => wireFaults < WireFaults
  /\ wireFaults' = IF pass THEN wireFaults ELSE wireFaults + 1
  /\ pieceState' = IF pass THEN "complete" ELSE "missing"
  /\ gotChunks' = IF pass THEN gotChunks ELSE {}
  /\ asking' = [k \in Conns |-> IF pass THEN asking[k] ELSE Need(asking[k], "other")]
  /\ UNCHANGED <<requester, pausedDown, serving, out, in, open, errors, staleReads>>

(* DisallowDataDownload cancels everything; AllowDataDownload plans anew. *)
DisallowDownload ==
  /\ ~pausedDown /\ pausedDown' = TRUE /\ wireFaults < WireFaults /\ wireFaults' = wireFaults + 1
  /\ asking' = [k \in Conns |-> CancelAll(k, Need(asking[k], "other"), asking[k].reqs)]
  /\ out' = [k \in Conns |-> Sends(out[k], "cancel", asking[k].reqs)]
  /\ requester' = [r \in WireChunks |-> "none"]
  /\ UNCHANGED <<gotChunks, pieceState, serving, in, open, errors, staleReads>>
AllowDownload ==
  /\ pausedDown /\ pausedDown' = FALSE
  /\ asking' = [k \in Conns |-> Need(asking[k], "other")]
  /\ UNCHANGED <<requester, gotChunks, pieceState, serving, out, in, open, errors, staleReads, wireFaults>>

(* dropConnection, for whatever reason. *)
DropConn(k) ==
  /\ k \in open /\ wireFaults < WireFaults /\ wireFaults' = wireFaults + 1
  /\ Ended(k)
  /\ UNCHANGED <<gotChunks, pieceState, pausedDown, serving, out, in, errors, staleReads>>

-----------------------------------------------------------------------------
(* The other end: onReadRequest and onPeerSentCancel. *)
HeldHere(v) == v.unread \cup v.ready
Forget(v, r) == [v EXCEPT !.unread = @ \ {r}, !.ready = @ \ {r}]
Answer(k, type, r) == in' = [in EXCEPT ![k] = Append(@, Msg(type, r))]

ServeMessage(k) ==
  LET m == Head(out[k]) v == serving[k] r == m.r IN
  /\ k \in open /\ out[k] # <<>>
  /\ out' = [out EXCEPT ![k] = Tail(@)]
  /\ \/ /\ m.type = "request" /\ r \in HeldHere(v)
        /\ errors' = IF Fast(k) THEN errors \cup {k} ELSE errors
        /\ UNCHANGED <<serving, in>>
     \/ /\ m.type = "request" /\ r \notin HeldHere(v)
        /\ v.choking \/ Cardinality(HeldHere(v)) >= LocalReqq
        /\ IF Fast(k) THEN Answer(k, "reject", r) ELSE UNCHANGED in
        /\ UNCHANGED <<serving, errors>>
     \/ /\ m.type = "request" /\ r \notin HeldHere(v) /\ ~v.choking /\ Cardinality(HeldHere(v)) < LocalReqq
        /\ serving' = [serving EXCEPT ![k].unread = @ \cup {r}]
        /\ UNCHANGED <<in, errors>>
     \/ /\ m.type = "cancel"
        /\ serving' = [serving EXCEPT ![k] = Forget(v, r)]
        /\ IF r \in HeldHere(v) /\ Fast(k) THEN Answer(k, "reject", r) ELSE UNCHANGED in
        /\ UNCHANGED errors
  /\ UNCHANGED <<asking, requester, gotChunks, pieceState, pausedDown, open, staleReads, wireFaults>>

(* servePeerRequest waits for room, then reads with the client unlocked ... *)
ServeRead(k, r) ==
  /\ k \in open /\ serving[k].reading = {} /\ r \in serving[k].unread
  /\ Cardinality(serving[k].ready) < ReadyMax
  /\ serving' = [serving EXCEPT ![k].reading = {r}]
  /\ UNCHANGED <<asking, requester, gotChunks, pieceState, pausedDown, out, in, open, errors, staleReads, wireFaults>>

(* ... and has it ready if it is still wanted ... *)
ServeReady(k, r) ==
  /\ k \in open /\ serving[k].reading = {r}
  /\ serving' = [serving EXCEPT ![k].reading = {},
                                ![k].ready = IF r \in serving[k].unread THEN @ \cup {r} ELSE @,
                                ![k].unread = @ \ {r}]
  /\ UNCHANGED <<asking, requester, gotChunks, pieceState, pausedDown, out, in, open, errors, staleReads, wireFaults>>

(* ... or failed: useBestReject answers whether or not it is still wanted, by a
   reject, or by choking a peer without the fast extension. *)
Choked(k, v) == IF Fast(k) THEN [v EXCEPT !.choking = TRUE]
                ELSE [v EXCEPT !.choking = TRUE, !.unread = {}, !.ready = {}]
ServeFails(k, r) ==
  LET v == [serving[k] EXCEPT !.reading = {}] IN
  /\ k \in open /\ serving[k].reading = {r} /\ wireFaults < WireFaults /\ wireFaults' = wireFaults + 1
  /\ serving' = [serving EXCEPT ![k] = IF Fast(k) THEN Forget(v, r) ELSE Choked(k, v)]
  /\ IF Fast(k) THEN Answer(k, "reject", r)
     ELSE IF v.choking THEN UNCHANGED in ELSE Answer(k, "choke", r)
  /\ staleReads' = IF r \in v.unread THEN staleReads ELSE staleReads \cup {k}
  /\ UNCHANGED <<asking, requester, gotChunks, pieceState, pausedDown, out, open, errors>>

(* upload: unchoked and sent as much as the limiter lets through ... *)
Upload(k, now) ==
  LET v == serving[k] IN
  /\ k \in open /\ v.allowed /\ now \subseteq v.ready /\ (v.choking \/ now # {})
  /\ in' = [in EXCEPT ![k] = (IF v.choking THEN Append(@, Msg("unchoke", 0)) ELSE @)
                             \o Ext!SetToSeq({Msg("piece", r) : r \in now})]
  /\ serving' = [serving EXCEPT ![k].choking = FALSE, ![k].ready = @ \ now]
  /\ UNCHANGED <<asking, requester, gotChunks, pieceState, pausedDown, out, open, errors, staleReads, wireFaults>>
(* ... or choked once uploading is no longer allowed. *)
UploadStops(k) ==
  /\ k \in open /\ ~serving[k].allowed /\ ~serving[k].choking
  /\ Answer(k, "choke", 0)
  /\ serving' = [serving EXCEPT ![k] = Choked(k, serving[k])]
  /\ UNCHANGED <<asking, requester, gotChunks, pieceState, pausedDown, out, open, errors, staleReads, wireFaults>>
AllowUpload(k) ==
  /\ serving[k].allowed => wireFaults < WireFaults
  /\ wireFaults' = IF serving[k].allowed THEN wireFaults + 1 ELSE wireFaults
  /\ serving' = [serving EXCEPT ![k].allowed = ~@]
  /\ UNCHANGED <<asking, requester, gotChunks, pieceState, pausedDown, out, in, open, errors, staleReads>>

WireNext ==
  \/ \E k \in Conns :
       \/ UpdateRequests(k) \/ GetPiece(k) \/ GetReject(k) \/ GetChoke(k) \/ GetUnchoke(k) \/ DropConn(k)
       \/ ServeMessage(k) \/ UploadStops(k) \/ AllowUpload(k)
       \/ \E r \in WireChunks : ServeRead(k, r) \/ ServeReady(k, r) \/ ServeFails(k, r)
       \/ \E now \in SUBSET serving[k].ready : Upload(k, now)
  \/ \E pass \in BOOLEAN : HashPiece(pass)
  \/ DisallowDownload \/ AllowDownload
WireSpec == WireInit /\ [][WireNext]_wireVars
-----------------------------------------------------------------------------
WireTypeOK ==
  /\ \A k \in Conns :
       /\ asking[k].reqs \cup asking[k].cancelled \subseteq WireChunks
       /\ serving[k].unread \cup serving[k].ready \subseteq WireChunks
       /\ Cardinality(serving[k].ready) <= ReadyMax
  /\ requester \in [WireChunks -> Conns \cup {"none"}]

(* A chunk is asked of one connection at a time, and what the torrent and what the
   connection remember of it agree: deleteRequest and cancelRequest panic otherwise
   ("only one peer should have a given request at a time"), with requests stolen,
   cancelled, rejected and choked away in any order. *)
OneRequester ==
  \A k \in Conns, r \in WireChunks :
    /\ r \in asking[k].reqs <=> requester[r] = k
    /\ r \in asking[k].reqs => r \notin asking[k].cancelled /\ asking[k].expect[r] > 0

(* Two of this client understand each other: no crossing of requests, cancels,
   rejects and chokes makes a handler at either end see a duplicate request, an
   unexpected chunk or an invalid reject and close the connection.  A read that
   fails after its request was cancelled is answered twice, and does. *)
NoQuarrel == errors \subseteq staleReads

(* With the fast extension every request is accounted for: each is on its way,
   held by the other end, or answered on the wire, exactly as often as a chunk is
   still expected. *)
CountMsg(q, type, r) == Cardinality({i \in DOMAIN q : q[i] = Msg(type, r)})
EveryRequestAccounted ==
  \A k \in (FastConns \cap open) \ staleReads, r \in WireChunks :
    asking[k].expect[r] = CountMsg(out[k], "request", r)
                          + (IF r \in HeldHere(serving[k]) THEN 1 ELSE 0)
                          + CountMsg(in[k], "piece", r) + CountMsg(in[k], "reject", r)

(* Both ends of a connection agree on what was asked for: the parts above. *)
WireSafe == WireTypeOK /\ OneRequester /\ NoQuarrel /\ EveryRequestAccounted
=============================================================================
