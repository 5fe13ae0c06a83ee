--------------------------- MODULE WebseedRequests ---------------------------
(* Requests to web seeds (bt/webseed-requesting.go, webseed-peer.go, webseed-request.go, and
   bt/webseed under them): one plan for the whole client, made again on a timer, decides which
   slices of which torrents are being read over HTTP; every request is a goroutine that reads
   its chunks in order and takes itself off the list when it is done, after a rest when it
   failed.  Every torrent has one URL, all on one host, and a piece is one chunk. *)
EXTENDS Integers, FiniteSets, FiniteSetsExt

CONSTANTS WsTorrents,
          WsSize,     \* t |-> how many chunks it has
          WsSlice,    \* chunksPerAlignedWebseedResponse
          WsLimit,    \* webseedHostRequestConcurrency
          WsWindow,   \* maxChunkDiscard
          WsEvents    \* bound on pauses, choices, losses, peers' chunks and wrong data
ASSUME WsAssumption ==
  /\ WsSlice \in Nat \ {0} /\ WsLimit \in Nat \ {0}
  /\ IsFiniteSet(WsTorrents) /\ WsSize \in [WsTorrents -> Nat]

WsC(t) == 0 .. WsSize[t] - 1
WsKeys == UNION {{t} \X (0 .. (WsSize[t] - 1) \div WsSlice) : t \in WsTorrents}
VARIABLES wsHave,    \* t, c |-> "missing"; "url", "peer": received, being hashed; "ok"
          wsPrio,    \* t, c |-> 0 (none), 1 or 2
          wsPaused,  \* dataDownloadDisallowed
          wsClosed,  \* dropped torrents
          wsSusp,    \* torrents whose URL is doing penance
          wsReq,     \* activeWebseedRequests: key |-> the request
          wsNum,     \* numWebSeedRequests of the host
          wsDown,    \* an assertion of the plan failed: the program is gone
          wsEvents
wsVars == <<wsHave, wsPrio, wsPaused, wsClosed, wsSusp, wsReq, wsNum, wsDown, wsEvents>>

NoWsReq == [st |-> "none", begin |-> 0, next |-> 0, end |-> 0, cancelled |-> FALSE]
WsInit ==
  /\ wsHave = [t \in WsTorrents |-> [c \in WsC(t) |-> "missing"]]
  /\ wsPrio = [t \in WsTorrents |-> [c \in WsC(t) |-> 1]]
  /\ wsPaused = {} /\ wsClosed = {} /\ wsSusp = {}
  /\ wsReq = [k \in WsKeys |-> NoWsReq] /\ wsNum = 0 /\ wsDown = FALSE /\ wsEvents = 0

WsUse == wsEvents < WsEvents /\ wsEvents' = wsEvents + 1
WsUp == ~wsDown
ActiveWs == {k \in WsKeys : wsReq[k].st # "none"}

(* wantReceiveChunk: nothing is asked about the priority. *)
WantsChunk(t, c) == c \in WsC(t) /\ t \notin wsPaused /\ wsHave[t][c] = "missing"
EffectivePrio(t, c) == IF WantsChunk(t, c) THEN wsPrio[t][c] ELSE 0
(* endRequestForAlignedWebseedResponse, requestIndexToWebseedSliceIndex. *)
SliceEnd(t, s) == Min({WsSize[t], (s + 1) * WsSlice})
SliceOf(c) == c \div WsSlice
(* getWebseedRequestEnd: as far as every chunk is wanted, within the slice. *)
RequestEnd(t, begin, s) ==
  Min({e \in (begin + 1) .. SliceEnd(t, s) : e = SliceEnd(t, s) \/ ~WantsChunk(t, e)})

(* iterPossibleWebseedRequests: the chunks a key may start at, of the best priority. *)
Startable(k) ==
  LET open == {c \in WsC(k[1]) : SliceOf(c) = k[2] /\ EffectivePrio(k[1], c) > 0}
  IN IF k[1] \in wsClosed \cup wsSusp THEN {}
     ELSE {c \in open : \A d \in open : wsPrio[k[1]][c] >= wsPrio[k[1]][d]}
NewKeys == {k \in WsKeys \ ActiveWs : Startable(k) # {}}
(* yieldKeyAndValue: an existing request is worth what it reads next. *)
KeyPrio(k) ==
  IF k \in ActiveWs
  THEN IF wsReq[k].next < wsReq[k].end THEN EffectivePrio(k[1], wsReq[k].next) ELSE 0
  ELSE wsPrio[k[1]][CHOOSE c \in Startable(k) : TRUE]
(* The heap's order; what comes after these two is left open. *)
WsBefore(k, l) ==
  \/ KeyPrio(k) > KeyPrio(l)
  \/ KeyPrio(k) = KeyPrio(l) /\ k \in ActiveWs /\ l \notin ActiveWs
(* The best of K, as many as n. *)
Best(K, n) ==
  {S \in SUBSET K : /\ Cardinality(S) = Min({n, Cardinality(K)})
                    /\ \A l \in S, k \in K \ S : ~WsBefore(k, l)}

(* underWebSeedHttpRequestLimit: a request that was cancelled keeps its slot until it is gone. *)
FreeSlots == WsLimit - wsNum

(* updateWebseedRequests: the plan keeps the best, cancels the existing it has no room for and
   spawns the new ones the host has slots for.  The client's list and the torrents' lists of
   requests must agree, and a dropped torrent is in the first only. *)
Planned(K) == Best(K \cup {k \in ActiveWs : k[1] \notin wsPaused}, WsLimit)
Spawned(k, c) ==
  [st |-> "reading", begin |-> c, next |-> c, end |-> RequestEnd(k[1], c, k[2]), cancelled |-> FALSE]
UpdateWebseedRequests ==
  /\ WsUp
  /\ \A k \in ActiveWs : k[1] \notin wsClosed
  /\ \E plan \in Planned(NewKeys) : \E spawn \in Best(plan \cap NewKeys, FreeSlots) :
       \E at \in {f \in [spawn -> 0 .. Max({WsSize[t] : t \in WsTorrents}) - 1] :
                   \A k \in spawn : f[k] \in Startable(k)} :
         /\ wsReq' = [k \in WsKeys |->
              IF k \in spawn THEN Spawned(k, at[k])
              ELSE IF k \in ActiveWs \ plan THEN [wsReq[k] EXCEPT !.cancelled = TRUE]
              ELSE wsReq[k]]
         /\ wsNum' = wsNum + Cardinality(spawn)
  /\ UNCHANGED <<wsHave, wsPrio, wsPaused, wsClosed, wsSusp, wsDown, wsEvents>>
UpdatePanics ==
  /\ WsUp /\ \E k \in ActiveWs : k[1] \in wsClosed
  /\ wsDown' = TRUE
  /\ UNCHANGED <<wsHave, wsPrio, wsPaused, wsClosed, wsSusp, wsReq, wsNum, wsEvents>>

(* readChunks: the next chunk of the body; when nothing in the discard window is wanted the
   request is cancelled, and what is buffered is still read. *)
ReadChunk(k) ==
  LET r == wsReq[k]  n == r.next + 1  t == k[1]
      have == IF wsHave[t][r.next] = "missing" THEN [wsHave EXCEPT ![t][r.next] = "url"] ELSE wsHave
      window == {c \in n .. Min({r.end - 1, n + WsWindow}) : WantsChunk(t, c)}
  IN /\ WsUp /\ r.st = "reading" /\ t \notin wsClosed
     /\ wsHave' = have
     /\ wsReq' = [wsReq EXCEPT ![k].next = n,
                               ![k].st = IF n >= r.end THEN "done" ELSE "reading",
                               ![k].cancelled = @ \/ (n < r.end /\ window = {})]
     /\ UNCHANGED <<wsPrio, wsPaused, wsClosed, wsSusp, wsNum, wsDown, wsEvents>>
(* A read that failed, a short or refused answer (recvPartResult), the context of a cancelled
   request or of a dropped torrent: the URL is convicted unless the request was cancelled. *)
ReadFails(k) ==
  /\ WsUp /\ wsReq[k].st = "reading"
  /\ IF wsReq[k].cancelled \/ k[1] \in wsClosed THEN wsEvents' = wsEvents ELSE WsUse
  /\ wsReq' = [wsReq EXCEPT ![k].st = "resting"]
  /\ wsSusp' = IF wsReq[k].cancelled THEN wsSusp ELSE wsSusp \cup {k[1]}
  /\ UNCHANGED <<wsHave, wsPrio, wsPaused, wsClosed, wsNum, wsDown>>
(* sliceProcessor's end, after the rest of one that failed: deleteActiveRequest. *)
RequestEnds(k) ==
  /\ WsUp /\ wsReq[k].st \in {"done", "resting"}
  /\ wsReq' = [wsReq EXCEPT ![k] = NoWsReq] /\ wsNum' = wsNum - 1
  /\ UNCHANGED <<wsHave, wsPrio, wsPaused, wsClosed, wsSusp, wsDown, wsEvents>>

(* A peer's chunk; then the piece's hash, right or wrong (providedBadData convicts the URL). *)
PeerChunk(t, c) ==
  /\ WsUp /\ t \notin wsClosed /\ WantsChunk(t, c) /\ wsPrio[t][c] > 0 /\ WsUse
  /\ wsHave' = [wsHave EXCEPT ![t][c] = "peer"]
  /\ UNCHANGED <<wsPrio, wsPaused, wsClosed, wsSusp, wsReq, wsNum, wsDown>>
HashedGood(t, c) ==
  /\ WsUp /\ t \notin wsClosed /\ wsHave[t][c] \in {"url", "peer"}
  /\ wsHave' = [wsHave EXCEPT ![t][c] = "ok"]
  /\ UNCHANGED <<wsPrio, wsPaused, wsClosed, wsSusp, wsReq, wsNum, wsDown, wsEvents>>
HashedBad(t, c) ==
  /\ WsUp /\ t \notin wsClosed /\ wsHave[t][c] \in {"url", "peer"} /\ WsUse
  /\ wsHave' = [wsHave EXCEPT ![t][c] = "missing"]
  /\ wsSusp' = IF wsHave[t][c] = "url" THEN wsSusp \cup {t} ELSE wsSusp
  /\ UNCHANGED <<wsPrio, wsPaused, wsClosed, wsReq, wsNum, wsDown>>
(* suspended: the term ran out. *)
PenanceOver(t) ==
  /\ WsUp /\ t \in wsSusp /\ wsSusp' = wsSusp \ {t}
  /\ UNCHANGED <<wsHave, wsPrio, wsPaused, wsClosed, wsReq, wsNum, wsDown, wsEvents>>

(* disallowDataDownloadLocked: cancelAllRequests with it. *)
PauseWs(t) ==
  /\ WsUp /\ t \notin wsPaused \cup wsClosed /\ WsUse
  /\ wsPaused' = wsPaused \cup {t}
  /\ wsReq' = [k \in WsKeys |-> IF k[1] = t /\ k \in ActiveWs
                                THEN [wsReq[k] EXCEPT !.cancelled = TRUE] ELSE wsReq[k]]
  /\ UNCHANGED <<wsHave, wsPrio, wsClosed, wsSusp, wsNum, wsDown>>
ResumeWs(t) ==
  /\ WsUp /\ t \in wsPaused \ wsClosed /\ wsPaused' = wsPaused \ {t}
  /\ UNCHANGED <<wsHave, wsPrio, wsClosed, wsSusp, wsReq, wsNum, wsDown, wsEvents>>
ChoosePrio(t, c, p) ==
  /\ WsUp /\ t \notin wsClosed /\ wsPrio[t][c] # p /\ WsUse
  /\ wsPrio' = [wsPrio EXCEPT ![t][c] = p]
  /\ UNCHANGED <<wsHave, wsPaused, wsClosed, wsSusp, wsReq, wsNum, wsDown>>
(* Torrent.close: its pieces leave the order; its requests take themselves off later. *)
DropWs(t) ==
  /\ WsUp /\ t \notin wsClosed /\ WsUse
  /\ wsClosed' = wsClosed \cup {t}
  /\ UNCHANGED <<wsHave, wsPrio, wsPaused, wsSusp, wsReq, wsNum, wsDown>>

WsNext ==
  \/ UpdateWebseedRequests \/ UpdatePanics
  \/ \E k \in WsKeys : ReadChunk(k) \/ ReadFails(k) \/ RequestEnds(k)
  \/ \E t \in WsTorrents : PenanceOver(t) \/ PauseWs(t) \/ ResumeWs(t) \/ DropWs(t)
  \/ \E t \in WsTorrents : \E c \in WsC(t) :
       PeerChunk(t, c) \/ HashedGood(t, c) \/ HashedBad(t, c) \/ \E p \in 0 .. 2 : ChoosePrio(t, c, p)
WsSpec == WsInit /\ [][WsNext]_wsVars

-----------------------------------------------------------------------------
(* The host's count is the requests there are, those resting after an error included, and
   never above the limit: a failing host is not asked more often than a working one. *)
SlotsCounted == wsNum = Cardinality(ActiveWs) /\ wsNum <= WsLimit
(* No chunk is being read by two requests of one torrent, and none beyond its slice: a later
   plan finds the request again by the slice it began in. *)
SlicesDisjoint ==
  \A k \in ActiveWs :
    /\ SliceOf(wsReq[k].begin) = k[2] /\ wsReq[k].begin < wsReq[k].end
    /\ wsReq[k].end <= SliceEnd(k[1], k[2]) /\ wsReq[k].next \in wsReq[k].begin .. wsReq[k].end
(* A paused torrent is read from no web seed: every request of it is cancelled, and the plan
   makes no new one while the pause lasts. *)
PausedIsCancelled == \A k \in ActiveWs : k[1] \in wsPaused => wsReq[k].cancelled
WebseedSafe == SlotsCounted /\ SlicesDisjoint /\ PausedIsCancelled

(* A plan that starts anything leaves no slot of the host idle that some wanted slice could
   use, and starts nothing at a URL that is doing penance. *)
NoSlotIdle ==
  [][wsNum' > wsNum =>
       /\ wsNum' = WsLimit \/ \A k \in WsKeys : Startable(k) # {} => wsReq'[k].st # "none"
       /\ \A k \in WsKeys \ ActiveWs : wsReq'[k].st # "none" => k[1] \notin wsSusp]_wsVars
=============================================================================
