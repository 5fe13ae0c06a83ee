---------------------------------- MODULE Dht ----------------------------------
(* The DHT: one announce of a torrent, and the routing table it starts from. *)
EXTENDS Integers, FiniteSets

(* One announce of a torrent to the DHT (internal/bt/dht/announce.go, traversal/operation.go,
   bt/torrent.go dhtAnnouncer): a traversal asks the closest nodes it knows for peers and
   for closer nodes, a few at a time; when it stalls, the K closest that answered with a
   token are told of this peer.  The traversal's loop, its queries, the announce's own
   goroutine, the reader of its peers and whoever closes it run at once. *)
CONSTANTS DhtNodes,   \* nodes, each the number that is its distance from the infohash
          Table,      \* nodes of the routing table, their ids known
          Bootstrap,  \* the starting nodes when the table is empty: addresses without ids
          KnowsOf,    \* [node -> the nodes it answers with]
          Silent,     \* nodes that do not answer
          Tokenless,  \* nodes that answer without a token
          Alpha, KNearest, MaxTraversals

ASSUME DhtAssumption ==
  /\ DhtNodes \in SUBSET Nat /\ IsFiniteSet(DhtNodes) /\ Table \subseteq DhtNodes /\ Bootstrap \subseteq DhtNodes
  /\ KnowsOf \in [DhtNodes -> SUBSET DhtNodes] /\ Alpha \in Nat /\ KNearest \in Nat \ {0}

VARIABLES unqueried,  \* entries <<node, whether its id is known>>
          queriedAt,  \* addresses asked
          query,      \* [entry -> "none", "asked", "deliver", "add"]
          nearest,    \* the K closest that answered with a token
          loop,       \* run: "check", "fill" (op.mu held), "unlocked", "parked", "ended"
          offer,      \* the loop offers the stalled signal
          woken,      \* the condition it waits on was signalled before it parked
          stopping, stoppedOp,
          ann,        \* the announce: "setup", "waiting", "stopping", "announcing", "finished"
          annClosed, peersClosed,
          told,       \* nodes announce_peer was sent to
          toTell,
          found,      \* nodes whose answer reached the torrent
          hasty,      \* ghost: the stall was taken although nodes had just been added
          traversals
dhtVars == <<unqueried, queriedAt, query, nearest, loop, offer, woken, stopping, stoppedOp, ann,
             annClosed, peersClosed, told, toTell, found, hasty, traversals>>

Entries == DhtNodes \X BOOLEAN
DhtFresh ==
  /\ unqueried = {} /\ queriedAt = {} /\ query = [e \in Entries |-> "none"] /\ nearest = {}
  /\ loop = "check" /\ offer = FALSE /\ woken = FALSE /\ stopping = FALSE /\ stoppedOp = FALSE
  /\ ann = "setup" /\ annClosed = FALSE /\ peersClosed = FALSE /\ told = {} /\ toTell = {}
  /\ found = {} /\ hasty = FALSE
DhtInit == DhtFresh /\ traversals = 0

Outstanding == {e \in Entries : query[e] # "none"}
(* CloserThan: entries with an id come first, by distance. *)
Closest(U) ==
  CHOOSE e \in U : \A f \in U : /\ f[2] => e[2]
                                /\ (f[2] = e[2]) => e[1] <= f[1]
Farthest(S) == CHOOSE n \in S : \A m \in S : m <= n
haveQuery(U) ==
  /\ U # {}
  /\ Cardinality(nearest) >= KNearest =>
       Closest(U)[2] /\ Closest(U)[1] <= Farthest(nearest)

(* addNodeLocked and the condition it signals: a parked loop wakes at once, one that has
   not parked yet finds it signalled when it does. *)
AddedOf(nodes) == {e \in nodes : e[1] \notin queriedAt}
Signals(s) ==
  IF s /\ loop = "parked" THEN loop' = "check" /\ woken' = FALSE
  ELSE loop' = loop /\ woken' = (woken \/ (s /\ loop = "unlocked"))

(* AnnounceTraversal: the traversal is started, and then given its starting nodes. *)
AddStarting ==
  /\ ann = "setup"
  /\ loop # "fill"
  /\ LET new == IF Table # {} THEN {<<n, TRUE>> : n \in Table} ELSE {<<n, FALSE>> : n \in Bootstrap}
     IN unqueried' = unqueried \cup AddedOf(new) /\ Signals(TRUE)
  /\ ann' = "waiting"
  /\ UNCHANGED <<queriedAt, query, nearest, offer, stopping, stoppedOp, annClosed, peersClosed, told, toTell, found, hasty, traversals>>

(* run, op.mu held: the stop is looked at once, then queries start while there is room. *)
LookOp ==
  /\ loop = "check" /\ ~stopping /\ loop' = "fill"
  /\ UNCHANGED <<unqueried, queriedAt, query, nearest, offer, woken, stopping, stoppedOp, ann, annClosed, peersClosed, told, toTell, found, hasty, traversals>>
(* startQuery, of the closest entry; another entry of the same address stays behind. *)
MayStart == Cardinality(Outstanding) < Alpha /\ haveQuery(unqueried)
StartQuery ==
  /\ loop = "fill" /\ MayStart
  /\ LET e == Closest(unqueried)
     IN /\ unqueried' = unqueried \ {e} /\ queriedAt' = queriedAt \cup {e[1]}
        /\ query' = [query EXCEPT ![e] = "asked"]
  /\ UNCHANGED <<nearest, loop, offer, woken, stopping, stoppedOp, ann, annClosed, peersClosed, told, toTell, found, hasty, traversals>>
UnlockOp ==
  /\ loop = "fill" /\ ~MayStart
  /\ loop' = "unlocked" /\ woken' = FALSE
  /\ offer' = (~haveQuery(unqueried) /\ Outstanding = {})
  /\ UNCHANGED <<unqueried, queriedAt, query, nearest, stopping, stoppedOp, ann, annClosed, peersClosed, told, toTell, found, hasty, traversals>>
(* The loop returns and closes the stalled channel, which reads as a stall. *)
RunEnds ==
  /\ loop \in {"check", "parked"} /\ stopping /\ loop' = "ended" /\ offer' = TRUE
  /\ UNCHANGED <<unqueried, queriedAt, query, nearest, woken, stopping, stoppedOp, ann, annClosed, peersClosed, told, toTell, found, hasty, traversals>>
(* select: of what is ready one is chosen, whichever. *)
ParkOp ==
  /\ loop = "unlocked"
  /\ \/ woken /\ loop' = "check"
     \/ stopping /\ loop' = "check"
     \/ ~woken /\ ~stopping /\ loop' = "parked"
  /\ woken' = FALSE
  /\ UNCHANGED <<unqueried, queriedAt, query, nearest, offer, stopping, stoppedOp, ann, annClosed, peersClosed, told, toTell, found, hasty, traversals>>

(* <-Stalled(), then Stop. *)
TakeStall ==
  /\ ann = "waiting" /\ offer /\ loop \in {"unlocked", "parked", "ended"}
  /\ hasty' = (loop = "unlocked" /\ woken)
  /\ loop' = IF loop = "ended" THEN loop ELSE "check"
  /\ offer' = (loop = "ended") /\ woken' = FALSE
  /\ stopping' = TRUE /\ ann' = "stopping"
  /\ UNCHANGED <<unqueried, queriedAt, query, nearest, stoppedOp, annClosed, peersClosed, told, toTell, found, traversals>>

-----------------------------------------------------------------------------
(* DoQuery = getPeers: the answer, the timeout, or the cancellation once stopping is set. *)
AnswerOf(e) ==
  /\ query[e] = "asked" /\ e[1] \notin Silent /\ query' = [query EXCEPT ![e] = "deliver"]
  /\ UNCHANGED <<unqueried, queriedAt, nearest, loop, offer, woken, stopping, stoppedOp, ann, annClosed, peersClosed, told, toTell, found, hasty, traversals>>
NoAnswerOf(e) ==
  /\ query[e] = "asked" /\ (e[1] \in Silent \/ stopping) /\ loop # "fill"
  /\ query' = [query EXCEPT ![e] = "none"] /\ Signals(TRUE)
  /\ UNCHANGED <<unqueried, queriedAt, nearest, offer, stopping, stoppedOp, ann, annClosed, peersClosed, told, toTell, found, hasty, traversals>>
(* The peers go to whoever reads the announce: consumeDhtAnnouncePeers, until it is closed. *)
DeliverPeers(e) ==
  /\ query[e] = "deliver" /\ ~peersClosed
  /\ query' = [query EXCEPT ![e] = "add"] /\ found' = found \cup {e[1]}
  /\ UNCHANGED <<unqueried, queriedAt, nearest, loop, offer, woken, stopping, stoppedOp, ann, annClosed, peersClosed, told, toTell, hasty, traversals>>
(* addClosest (Push keeps the K closest) and AddNodes, and the query is over. *)
PushNearest(n) ==
  LET S == IF n \in Tokenless THEN nearest ELSE nearest \cup {n}
  IN IF Cardinality(S) > KNearest THEN S \ {Farthest(S)} ELSE S
QueryOver(e) ==
  /\ query[e] = "add" /\ loop # "fill"
  /\ nearest' = PushNearest(e[1])
  /\ unqueried' = unqueried \cup AddedOf({<<m, TRUE>> : m \in KnowsOf[e[1]]})
  /\ query' = [query EXCEPT ![e] = "none"] /\ Signals(TRUE)
  /\ UNCHANGED <<queriedAt, offer, stopping, stoppedOp, ann, annClosed, peersClosed, told, toTell, found, hasty, traversals>>

\* Variant for mutation: a stop does not wait for what is under way.
StoppedAtOnce ==
  /\ stopping /\ ~stoppedOp /\ stoppedOp' = TRUE
  /\ UNCHANGED <<unqueried, queriedAt, query, nearest, loop, offer, woken, stopping, ann, annClosed, peersClosed, told, toTell, found, hasty, traversals>>
(* Stop's goroutine: once nothing is outstanding, and not while the loop holds op.mu. *)
StoppedSets ==
  /\ stopping /\ ~stoppedOp /\ Outstanding = {} /\ loop # "fill" /\ stoppedOp' = TRUE
  /\ UNCHANGED <<unqueried, queriedAt, query, nearest, loop, offer, woken, stopping, ann, annClosed, peersClosed, told, toTell, found, hasty, traversals>>

(* announceClosest, each in a goroutine of its own, given up when the announce is closed. *)
BeginTelling ==
  /\ ann = "stopping" /\ stoppedOp
  /\ toTell' = nearest /\ ann' = "announcing"
  /\ UNCHANGED <<unqueried, queriedAt, query, nearest, loop, offer, woken, stopping, stoppedOp, annClosed, peersClosed, told, found, hasty, traversals>>
Tell(n) ==
  /\ n \in toTell /\ toTell' = toTell \ {n} /\ told' = told \cup {n}
  /\ UNCHANGED <<unqueried, queriedAt, query, nearest, loop, offer, woken, stopping, stoppedOp, ann, annClosed, peersClosed, found, hasty, traversals>>
GiveUpTelling(n) ==
  /\ n \in toTell /\ annClosed /\ toTell' = toTell \ {n}
  /\ UNCHANGED <<unqueried, queriedAt, query, nearest, loop, offer, woken, stopping, stoppedOp, ann, annClosed, peersClosed, told, found, hasty, traversals>>
FinishAnnounce ==
  /\ ann = "announcing" /\ toTell = {} /\ ann' = "finished" /\ peersClosed' = TRUE
  /\ UNCHANGED <<unqueried, queriedAt, query, nearest, loop, offer, woken, stopping, stoppedOp, annClosed, told, toTell, found, hasty, traversals>>

(* Close, of the announce's consumer: the fifteen minutes are over or the torrent closed. *)
CloseAnnounce ==
  /\ ~annClosed /\ ann # "setup" /\ annClosed' = TRUE /\ stopping' = TRUE
  /\ UNCHANGED <<unqueried, queriedAt, query, nearest, loop, offer, woken, stoppedOp, ann, peersClosed, told, toTell, found, hasty, traversals>>
(* dhtAnnouncer: the next one. *)
AnnounceAgain ==
  /\ ann = "finished" /\ annClosed /\ loop = "ended" /\ traversals < MaxTraversals /\ traversals' = traversals + 1
  /\ unqueried' = {} /\ queriedAt' = {} /\ query' = [e \in Entries |-> "none"] /\ nearest' = {}
  /\ loop' = "check" /\ offer' = FALSE /\ woken' = FALSE /\ stopping' = FALSE /\ stoppedOp' = FALSE
  /\ ann' = "setup" /\ annClosed' = FALSE /\ peersClosed' = FALSE /\ told' = {} /\ toTell' = {}
  /\ found' = {} /\ hasty' = FALSE

DhtNext ==
  \/ AddStarting \/ LookOp \/ StartQuery \/ UnlockOp \/ RunEnds \/ ParkOp \/ TakeStall \/ StoppedSets
  \/ \E e \in Entries : AnswerOf(e) \/ NoAnswerOf(e) \/ DeliverPeers(e) \/ QueryOver(e)
  \/ \E n \in DhtNodes : Tell(n) \/ GiveUpTelling(n)
  \/ BeginTelling \/ FinishAnnounce \/ CloseAnnounce \/ AnnounceAgain

DhtSpec == DhtInit /\ [][DhtNext]_dhtVars
-----------------------------------------------------------------------------
(* The announce's channel is closed only when no query can still send on it, and no query
   starts after the traversal said it had stopped. *)
NoSendAfterClose == stoppedOp => Outstanding = {}

(* The nodes told are the K closest that answered: a traversal nobody closed has asked
   every node it heard of that is closer than the farthest of them, and all when they are
   fewer than K (unless the stall was taken in a hurry). *)
ToldTheNearest ==
  ann \in {"announcing", "finished"} /\ ~annClosed /\ ~hasty =>
    /\ Cardinality(nearest) >= KNearest \/ unqueried = {}
    /\ \A e \in unqueried : e[2] => e[1] > Farthest(nearest)
    /\ \A n \in found \ Tokenless : n \in nearest \/ (nearest # {} /\ n > Farthest(nearest))

DhtTypeOK ==
  /\ Cardinality(Outstanding) <= Alpha /\ Cardinality(nearest) <= KNearest
  /\ told \cup toTell \subseteq nearest /\ nearest \subseteq found \ Tokenless

DhtSafe == DhtTypeOK /\ NoSendAfterClose /\ ToldTheNearest

-----------------------------------------------------------------------------
(* The DHT server's routing table and the transactions that keep it
   (internal/bt/dht/server.go, table.go, bucket.go, node.go, transaction.go): packets from
   other nodes, replies and timeouts of our own queries, and the maintenance that pings
   questionable nodes. *)
CONSTANTS RtNodes,   \* nodes (address and id)
          BucketOf,  \* [node -> its bucket]
          Insecure,  \* nodes whose id does not match their address
          BucketK,   \* table.k
          PingTries, \* NumTries of a questionable ping
          MaxQueries \* bound
ASSUME RtAssumption == IsFiniteSet(RtNodes) /\ BucketK \in Nat /\ PingTries \in Nat /\ MaxQueries \in Nat

VARIABLES rt,        \* the table: by node, absent or what is known of it
          addrs,     \* the table's index by address
          txns,      \* transactions awaiting a reply: <<number, node>>
          inflight,  \* our queries, by number: node, kind, stage, tries left, reply seen
          rtClosed, rtQueries
rtVars == <<rt, addrs, txns, inflight, rtClosed, rtQueries>>

NoNode == [in |-> FALSE, resp |-> "never", asked |-> "never", failed |-> FALSE]
QNone == [node |-> 0, kind |-> "none", stage |-> "none", tries |-> 0, replied |-> FALSE]
RtInit ==
  /\ rt = [n \in RtNodes |-> NoNode] /\ addrs = {} /\ txns = {}
  /\ inflight = [q \in 1 .. MaxQueries |-> QNone]
  /\ rtClosed = FALSE /\ rtQueries = 0

(* nodeErr, IsGood, IsQuestionable. *)
BadNode(n, r) == n \in Insecure \/ r.failed
GoodNode(n, r) == ~BadNode(n, r) /\ (r.resp = "lately" \/ (r.resp # "never" /\ r.asked = "lately"))
Questionable(n, r) == ~GoodNode(n, r) /\ ~BadNode(n, r)
InBucket(b, R) == {m \in RtNodes : R[m].in /\ BucketOf[m] = b}

(* addNode: in a full bucket one bad node goes, or one that never answered for a good one. *)
Evictable(n, r) ==
  {m \in InBucket(BucketOf[n], rt) : BadNode(m, rt[m]) \/ (GoodNode(n, r) /\ rt[m].resp = "never")}
PutNode(n, r) ==
  IF BadNode(n, r) THEN UNCHANGED <<rt, addrs>>
  ELSE IF Cardinality(InBucket(BucketOf[n], rt)) < BucketK
  THEN rt' = [rt EXCEPT ![n] = r] /\ addrs' = addrs \cup {n}
  ELSE IF Evictable(n, r) = {} THEN UNCHANGED <<rt, addrs>>
  ELSE \E m \in Evictable(n, r) :
         rt' = [rt EXCEPT ![n] = r, ![m] = NoNode] /\ addrs' = (addrs \cup {n}) \ {m}
(* updateNode: what is heard is noted of a known node; an unknown one is added with it. *)
UpdateNode(n, r, tryAdd) ==
  IF rt[n].in THEN rt' = [rt EXCEPT ![n] = r] /\ addrs' = addrs
  ELSE IF tryAdd THEN PutNode(n, [r EXCEPT !.in = TRUE]) ELSE UNCHANGED <<rt, addrs>>

-----------------------------------------------------------------------------
(* processPacket of a query, handleQuery: the sender is noted, whatever it asks and whether or
   not the reply goes out. *)
HandleQuery(n, readOnly) ==
  /\ ~rtClosed /\ UpdateNode(n, [rt[n] EXCEPT !.asked = "lately"], ~readOnly)
  /\ UNCHANGED <<txns, inflight, rtClosed, rtQueries>>

(* Query: the transaction is entered, then the sender runs. *)
TriesOf(kind) == IF kind = "ping" THEN PingTries ELSE 1
StartOf(n, kind) ==
  /\ rtQueries < MaxQueries /\ rtQueries' = rtQueries + 1
  /\ txns' = txns \cup {<<rtQueries + 1, n>>}
  /\ inflight' = [inflight EXCEPT ![rtQueries + 1] =
       [node |-> n, kind |-> kind, stage |-> "sending", tries |-> TriesOf(kind), replied |-> FALSE]]
(* pingQuestionableNodesInBucket, and the traversals' find_node. *)
PingQuestionable(n) ==
  /\ rt[n].in /\ Questionable(n, rt[n]) /\ ~\E q \in DOMAIN inflight : inflight[q].stage # "none" /\ inflight[q].node = n
  /\ StartOf(n, "ping")
  /\ UNCHANGED <<rt, addrs, rtClosed>>
FindNodeQ(n) ==
  /\ StartOf(n, "find")
  /\ UNCHANGED <<rt, addrs, rtClosed>>
(* transactionSender: send, wait resendDelay, send again; a write that fails ends it. *)
SendQuery(q) ==
  /\ inflight[q].stage = "sending"
  /\ inflight' = [inflight EXCEPT ![q] =
       IF rtClosed THEN [@ EXCEPT !.stage = "failed"]
       ELSE [@ EXCEPT !.tries = inflight[q].tries - 1, !.stage = "waiting"]]
  /\ UNCHANGED <<rt, addrs, txns, rtClosed, rtQueries>>
ResendDelay(q) ==
  /\ inflight[q].stage = "waiting"
  /\ inflight' = [inflight EXCEPT ![q].stage = IF inflight[q].tries > 0 THEN "sending" ELSE "failed"]
  /\ UNCHANGED <<rt, addrs, txns, rtClosed, rtQueries>>

(* processPacket of a response: only for a transaction with that address, which it ends. *)
GotResponse(q, readOnly) ==
  LET n == inflight[q].node
  IN /\ ~rtClosed /\ inflight[q].stage \in {"sending", "waiting", "failed"} /\ <<q, n>> \in txns
     /\ inflight[q].tries < TriesOf(inflight[q].kind)
     /\ txns' = txns \ {<<q, n>>}
     /\ inflight' = [inflight EXCEPT ![q].replied = TRUE]
     /\ UpdateNode(n, [rt[n] EXCEPT !.resp = "lately", !.failed = FALSE], ~readOnly)
     /\ UNCHANGED <<rtClosed, rtQueries>>

(* Query returns: with the reply, or with the sender's error; when both are there, either.
   questionableNodePing marks the node on an error. *)
QueryReturns(q, ok) ==
  LET Q == inflight[q]
      n == Q.node
  IN /\ IF ok THEN Q.replied ELSE Q.stage = "failed"
     /\ Q.stage # "none"
     /\ txns' = txns \ {<<q, n>>}
     /\ inflight' = [inflight EXCEPT ![q].stage = "none"]
     /\ IF Q.kind = "ping" /\ ~ok THEN UpdateNode(n, [rt[n] EXCEPT !.failed = TRUE], FALSE)
        ELSE UNCHANGED <<rt, addrs>>
     /\ UNCHANGED <<rtClosed, rtQueries>>

(* Fifteen minutes without a word from it. *)
Quiet15(n) ==
  /\ rt[n].in /\ "lately" \in {rt[n].resp, rt[n].asked}
  /\ rt' = [rt EXCEPT ![n].resp = IF rt[n].resp = "never" THEN "never" ELSE "once",
                      ![n].asked = IF rt[n].asked = "never" THEN "never" ELSE "once"]
  /\ UNCHANGED <<addrs, txns, inflight, rtClosed, rtQueries>>
(* AddNode of a torrent's or a peer's DHT node: known by name only. *)
AddByName(n) ==
  /\ ~rt[n].in /\ PutNode(n, [NoNode EXCEPT !.in = TRUE])
  /\ UNCHANGED <<txns, inflight, rtClosed, rtQueries>>
CloseDht ==
  /\ ~rtClosed /\ rtClosed' = TRUE
  /\ UNCHANGED <<rt, addrs, txns, inflight, rtQueries>>

RtNext ==
  \/ \E n \in RtNodes : \/ HandleQuery(n, TRUE) \/ HandleQuery(n, FALSE)
                        \/ PingQuestionable(n) \/ FindNodeQ(n) \/ Quiet15(n) \/ AddByName(n)
  \/ \E q \in 1 .. MaxQueries : SendQuery(q) \/ ResendDelay(q) \/ \E b \in BOOLEAN : GotResponse(q, b) \/ QueryReturns(q, b)
  \/ CloseDht

RtSpec == RtInit /\ [][RtNext]_rtVars
-----------------------------------------------------------------------------
(* The index by address and the buckets hold the same nodes, no bucket more than k, and
   none whose id is not its address's. *)
TableOK ==
  /\ addrs = {n \in RtNodes : rt[n].in}
  /\ \A n \in addrs : Cardinality(InBucket(BucketOf[n], rt)) <= BucketK
  /\ addrs \cap Insecure = {}
(* A transaction is some query's that has not returned: none is left behind to be answered
   for nobody, however reply, timeout and close meet. *)
NoTxnLeft == \A k \in txns : inflight[k[1]].stage # "none" /\ inflight[k[1]].node = k[2]
(* Nobody who answers is put out of the table: a node leaves it only when it failed its
   last ping, or has never answered and a good one comes. *)
GoodStay ==
  [][\A n \in RtNodes : rt[n].in /\ ~rt'[n].in =>
       /\ ~GoodNode(n, rt[n])
       /\ rt[n].resp = "never" \/ rt[n].failed]_rtVars

RtSafe == [](TableOK /\ NoTxnLeft) /\ GoodStay
=============================================================================
