----------------------------- MODULE ProtocolProofs ---------------------------
(***************************************************************************)
(* Proofs about what the BitTorrent client says to peers, trackers, web    *)
(* seeds and the DHT, one section per component.                           *)
(*   Dht: the routing table, whatever nodes answer.                        *)
(*   PeerWire: the requests of any connections, and what they are sent.    *)
(*   SwarmInfo: what the peers have and the info made of their chunks.     *)
(*   WebseedRequests: the plan of requests to web seeds.                   *)
(*   ConnPool: attempts and connections within their limits.               *)
(*   TrackerAnnounce: what each tracker is told, and when.                 *)
(* The last section puts them together: they are the components of         *)
(* MCSwarm, each of which the client runs beside the others.               *)
(***************************************************************************)
EXTENDS MCSwarm, FiniteSetTheorems, SequenceTheorems, WellFoundedInduction, TLAPS

-----------------------------------------------------------------------------
(* The routing table.                                                      *)

RtRec == [in : BOOLEAN, resp : {"never", "once", "lately"}, asked : {"never", "once", "lately"},
          failed : BOOLEAN]
RtQuery == [node : RtNodes \cup {0}, kind : {"none", "ping", "find"},
            stage : {"none", "sending", "waiting", "failed"}, tries : Int, replied : BOOLEAN]

\* A transaction is of a query that was started, to a node.
Asking ==
  /\ rtQueries \in 0 .. MaxQueries
  /\ inflight \in [1 .. MaxQueries -> RtQuery]
  /\ \A q \in 1 .. MaxQueries : inflight[q].stage # "none" => inflight[q].node \in RtNodes
  /\ txns \subseteq (1 .. rtQueries) \X RtNodes
  /\ NoTxnLeft
Listed == rt \in [RtNodes -> RtRec] /\ TableOK
RtInv == Asking /\ Listed

\* What every step keeps of the table: its shape, and who answers.
Leavers ==
  \A n \in RtNodes : rt[n].in /\ ~rt'[n].in => ~GoodNode(n, rt[n]) /\ (rt[n].resp = "never" \/ rt[n].failed)
ListKept == Listed' /\ Leavers

LEMMA BucketFinite ==
  ASSUME NEW b, NEW R
  PROVE  IsFiniteSet(InBucket(b, R)) /\ Cardinality(InBucket(b, R)) \in Nat
<1>1. InBucket(b, R) \subseteq RtNodes
  BY DEF InBucket
<1> QED BY <1>1, RtAssumption, FS_Subset, FS_CardinalityType

LEMMA SameTable ==
  ASSUME Listed, UNCHANGED <<rt, addrs>>
  PROVE  ListKept
BY DEF Listed, TableOK, ListKept, Leavers, InBucket

\* What is known of a node of the table changes.
LEMMA NotesKeep ==
  ASSUME Listed, NEW n \in RtNodes, NEW r \in RtRec, r.in = rt[n].in,
         rt' = [rt EXCEPT ![n] = r], addrs' = addrs
  PROVE  ListKept
<1>1. rt \in [RtNodes -> RtRec] /\ rt' \in [RtNodes -> RtRec] /\ TableOK
  BY DEF Listed
<1>2. \A m \in RtNodes : rt'[m].in = rt[m].in
  BY <1>1
<1>3. \A b : InBucket(b, rt') = InBucket(b, rt)
  BY <1>2 DEF InBucket
<1>4. TableOK'
  <2>1. addrs' = {m \in RtNodes : rt'[m].in}
    BY <1>1, <1>2 DEF TableOK
  <2>2. \A m \in addrs' : Cardinality(InBucket(BucketOf[m], rt')) <= BucketK
    BY <1>1, <1>3 DEF TableOK
  <2> QED BY <1>1, <2>1, <2>2 DEF TableOK
<1>5. Leavers
  BY <1>2 DEF Leavers
<1> QED BY <1>1, <1>4, <1>5 DEF Listed, ListKept

\* A node comes, in place of another or of none.
LEMMA PutKeeps ==
  ASSUME Listed, NEW n \in RtNodes, ~rt[n].in, NEW r \in RtRec, r.in, PutNode(n, r)
  PROVE  ListKept
<1> DEFINE b == BucketOf[n]
<1>0. rt \in [RtNodes -> RtRec] /\ TableOK
  BY DEF Listed
<1>1. CASE UNCHANGED <<rt, addrs>>
  BY <1>1, SameTable
<1>2. CASE ~BadNode(n, r) /\ Cardinality(InBucket(b, rt)) < BucketK
           /\ rt' = [rt EXCEPT ![n] = r] /\ addrs' = addrs \cup {n}
  <2>1. rt' \in [RtNodes -> RtRec] /\ rt'[n].in /\ \A m \in RtNodes \ {n} : rt'[m] = rt[m]
    BY <1>0, <1>2
  <2>2. InBucket(b, rt') = InBucket(b, rt) \cup {n} /\ n \notin InBucket(b, rt)
    BY <2>1 DEF InBucket
  <2>3. Cardinality(InBucket(b, rt')) = Cardinality(InBucket(b, rt)) + 1
    BY <2>2, BucketFinite, FS_AddElement
  <2>4. Cardinality(InBucket(b, rt')) <= BucketK
    BY <1>2, <2>3, BucketFinite, RtAssumption
  <2>5. \A m \in RtNodes : BucketOf[m] # b => InBucket(BucketOf[m], rt') = InBucket(BucketOf[m], rt)
    BY <2>1 DEF InBucket
  <2>6. TableOK'
    <3>1. addrs' = {m \in RtNodes : rt'[m].in}
      BY <1>0, <1>2, <2>1 DEF TableOK
    <3>2. \A m \in addrs' : Cardinality(InBucket(BucketOf[m], rt')) <= BucketK
      <4> TAKE m \in addrs'
      <4>1. CASE BucketOf[m] = b
        BY <4>1, <2>4
      <4>2. CASE BucketOf[m] # b
        <5>1. m \in RtNodes /\ m \in addrs
          BY <1>2, <3>1, <4>2
        <5> QED BY <5>1, <4>2, <2>5, <1>0 DEF TableOK
      <4> QED BY <4>1, <4>2
    <3>3. addrs' \cap Insecure = {}
      BY <1>0, <1>2 DEF TableOK, BadNode
    <3> QED BY <3>1, <3>2, <3>3 DEF TableOK
  <2>7. Leavers
    BY <2>1 DEF Leavers
  <2> QED BY <2>1, <2>6, <2>7 DEF Listed, ListKept
<1>3. ASSUME NEW m \in Evictable(n, r), ~BadNode(n, r),
             rt' = [rt EXCEPT ![n] = r, ![m] = NoNode], addrs' = (addrs \cup {n}) \ {m}
      PROVE  ListKept
  <2>1. m \in RtNodes /\ rt[m].in /\ BucketOf[m] = b /\ m # n /\ m \in addrs
        /\ (BadNode(m, rt[m]) \/ rt[m].resp = "never")
    BY <1>0 DEF Evictable, InBucket, TableOK
  <2>2. NoNode \in RtRec /\ ~NoNode.in
    BY DEF NoNode, RtRec
  <2>3. rt' \in [RtNodes -> RtRec] /\ rt'[n].in /\ ~rt'[m].in
        /\ \A x \in RtNodes \ {n, m} : rt'[x] = rt[x]
    BY <1>0, <1>3, <2>1, <2>2
  <2> DEFINE B == InBucket(b, rt)
  <2>4. InBucket(b, rt') = (B \ {m}) \cup {n} /\ n \notin B /\ m \in B
    BY <2>1, <2>3 DEF InBucket
  <2>5. Cardinality(B) <= BucketK
    BY <1>0, <2>1 DEF TableOK
  <2>6. Cardinality(InBucket(b, rt')) <= BucketK
    <3>1. IsFiniteSet(B) /\ Cardinality(B) \in Nat
      BY BucketFinite
    <3> HIDE DEF B
    <3>2. IsFiniteSet(B \ {m}) /\ Cardinality(B \ {m}) = Cardinality(B) - 1
      BY <2>4, <3>1, FS_RemoveElement
    <3>3. Cardinality((B \ {m}) \cup {n}) = Cardinality(B \ {m}) + 1
      BY <2>4, <3>2, FS_AddElement
    <3> QED BY <2>4, <2>5, <3>1, <3>2, <3>3
  <2>7. \A x \in RtNodes : BucketOf[x] # b => InBucket(BucketOf[x], rt') = InBucket(BucketOf[x], rt)
    BY <2>1, <2>3 DEF InBucket
  <2>8. TableOK'
    <3>1. addrs' = {x \in RtNodes : rt'[x].in}
      BY <1>0, <1>3, <2>1, <2>3 DEF TableOK
    <3>2. \A x \in addrs' : Cardinality(InBucket(BucketOf[x], rt')) <= BucketK
      <4> TAKE x \in addrs'
      <4>1. CASE BucketOf[x] = b
        BY <4>1, <2>6
      <4>2. CASE BucketOf[x] # b
        <5>1. x \in RtNodes /\ x \in addrs
          BY <1>3, <3>1, <4>2
        <5> QED BY <5>1, <4>2, <2>7, <1>0 DEF TableOK
      <4> QED BY <4>1, <4>2
    <3>3. addrs' \cap Insecure = {}
      BY <1>0, <1>3 DEF TableOK, BadNode
    <3> QED BY <3>1, <3>2, <3>3 DEF TableOK
  <2>9. Leavers
    <3> SUFFICES ASSUME NEW x \in RtNodes, rt[x].in, ~rt'[x].in
                 PROVE  ~GoodNode(x, rt[x]) /\ (rt[x].resp = "never" \/ rt[x].failed)
      BY DEF Leavers
    <3>1. x = m
      BY <2>3
    <3>2. m \notin Insecure
      BY <1>0, <2>1 DEF TableOK
    <3> QED BY <3>1, <3>2, <2>1 DEF BadNode, GoodNode
  <2> QED BY <2>3, <2>8, <2>9 DEF Listed, ListKept
<1> QED BY <1>1, <1>2, <1>3 DEF PutNode

LEMMA UpdateKeeps ==
  ASSUME Listed, NEW n \in RtNodes, NEW r \in RtRec, r.in = rt[n].in, NEW add \in BOOLEAN,
         UpdateNode(n, r, add)
  PROVE  ListKept
<1>1. CASE rt[n].in
  BY <1>1, NotesKeep DEF UpdateNode
<1>2. CASE ~rt[n].in /\ add
  <2> DEFINE s == [r EXCEPT !.in = TRUE]
  <2>1. s \in RtRec /\ s.in
    BY DEF RtRec
  <2>2. PutNode(n, s)
    BY <1>2 DEF UpdateNode
  <2> HIDE DEF s
  <2> QED BY <1>2, <2>1, <2>2, PutKeeps
<1>3. CASE ~rt[n].in /\ ~add
  BY <1>3, SameTable DEF UpdateNode
<1> QED BY <1>1, <1>2, <1>3

LEMMA NotedRec ==
  ASSUME NEW r \in RtRec
  PROVE  /\ [r EXCEPT !.asked = "lately"] \in RtRec /\ [r EXCEPT !.asked = "lately"].in = r.in
         /\ [r EXCEPT !.resp = "lately", !.failed = FALSE] \in RtRec
         /\ [r EXCEPT !.resp = "lately", !.failed = FALSE].in = r.in
         /\ [r EXCEPT !.failed = TRUE] \in RtRec /\ [r EXCEPT !.failed = TRUE].in = r.in
BY DEF RtRec

\* Every action's effect on the table.
LEMMA TableStep ==
  ASSUME RtInv, RtNext
  PROVE  ListKept
<1>0. Listed /\ Asking /\ rt \in [RtNodes -> RtRec]
  BY DEF RtInv, Listed
<1>1. ASSUME NEW n \in RtNodes, NEW b \in BOOLEAN, HandleQuery(n, b) PROVE ListKept
  <2>1. rt[n] \in RtRec
    BY <1>0
  <2> DEFINE r == [rt[n] EXCEPT !.asked = "lately"]
  <2>2. r \in RtRec /\ r.in = rt[n].in /\ UpdateNode(n, r, ~b) /\ (~b) \in BOOLEAN
    BY <1>1, <2>1, NotedRec DEF HandleQuery
  <2> HIDE DEF r
  <2> QED BY <1>0, <2>2, UpdateKeeps
<1>2. ASSUME NEW n \in RtNodes, PingQuestionable(n) \/ FindNodeQ(n) PROVE ListKept
  BY <1>0, <1>2, SameTable DEF PingQuestionable, FindNodeQ
<1>3. ASSUME NEW n \in RtNodes, Quiet15(n) PROVE ListKept
  <2>1. rt[n] \in RtRec
    BY <1>0
  <2> DEFINE p == IF rt[n].resp = "never" THEN "never" ELSE "once"
             a == IF rt[n].asked = "never" THEN "never" ELSE "once"
             r == [rt[n] EXCEPT !.resp = p, !.asked = a]
  <2>2. p \in {"never", "once"} /\ a \in {"never", "once"}
    OBVIOUS
  <2>3. rt' = [rt EXCEPT ![n] = r] /\ addrs' = addrs
    BY <1>0, <1>3 DEF Quiet15
  <2> HIDE DEF p, a
  <2>4. r \in RtRec /\ r.in = rt[n].in
    BY <2>1, <2>2 DEF RtRec
  <2> HIDE DEF r
  <2> QED BY <1>0, <2>3, <2>4, NotesKeep
<1>4. ASSUME NEW n \in RtNodes, AddByName(n) PROVE ListKept
  <2> DEFINE r == [NoNode EXCEPT !.in = TRUE]
  <2>1. r \in RtRec /\ r.in /\ PutNode(n, r) /\ ~rt[n].in
    BY <1>4 DEF AddByName, NoNode, RtRec
  <2> HIDE DEF r
  <2> QED BY <1>0, <2>1, PutKeeps
<1>5. ASSUME NEW q \in 1 .. MaxQueries, SendQuery(q) \/ ResendDelay(q) PROVE ListKept
  BY <1>0, <1>5, SameTable DEF SendQuery, ResendDelay
<1>6. ASSUME NEW q \in 1 .. MaxQueries, NEW b \in BOOLEAN, GotResponse(q, b) PROVE ListKept
  <2> DEFINE n == inflight[q].node
             r == [rt[n] EXCEPT !.resp = "lately", !.failed = FALSE]
  <2>1. n \in RtNodes
    BY <1>0, <1>6 DEF GotResponse, Asking
  <2>2. rt[n] \in RtRec /\ UpdateNode(n, r, ~b)
    BY <1>0, <1>6, <2>1 DEF GotResponse
  <2>3. r \in RtRec /\ r.in = rt[n].in /\ (~b) \in BOOLEAN
    BY <2>2, NotedRec
  <2> HIDE DEF n, r
  <2> QED BY <1>0, <2>1, <2>2, <2>3, UpdateKeeps
<1>7. ASSUME NEW q \in 1 .. MaxQueries, NEW ok \in BOOLEAN, QueryReturns(q, ok) PROVE ListKept
  <2> DEFINE n == inflight[q].node
             r == [rt[n] EXCEPT !.failed = TRUE]
  <2>1. n \in RtNodes
    BY <1>0, <1>7 DEF QueryReturns, Asking
  <2>2. CASE inflight[q].kind = "ping" /\ ~ok
    <3>1. rt[n] \in RtRec /\ UpdateNode(n, r, FALSE)
      BY <1>0, <1>7, <2>1, <2>2 DEF QueryReturns
    <3>2. r \in RtRec /\ r.in = rt[n].in
      BY <3>1, NotedRec
    <3> HIDE DEF n, r
    <3> QED BY <1>0, <2>1, <3>1, <3>2, UpdateKeeps
  <2>3. CASE ~(inflight[q].kind = "ping" /\ ~ok)
    <3>1. UNCHANGED <<rt, addrs>>
      BY <1>7, <2>3 DEF QueryReturns
    <3> QED BY <1>0, <3>1, SameTable
  <2> QED BY <2>2, <2>3
<1>8. CASE CloseDht
  BY <1>0, <1>8, SameTable DEF CloseDht
<1> QED BY <1>1, <1>2, <1>3, <1>4, <1>5, <1>6, <1>7, <1>8 DEF RtNext

\* One query changes: transactions go, and none is left with a query that is over.
LEMMA QueryChanges ==
  ASSUME Asking, NEW q \in 1 .. MaxQueries, NEW Q \in RtQuery, Q.node = inflight[q].node,
         inflight[q].stage # "none",
         inflight' = [inflight EXCEPT ![q] = Q], rtQueries' = rtQueries, txns' \subseteq txns,
         Q.stage = "none" => <<q, Q.node>> \notin txns'
  PROVE  Asking'
<1>1. inflight \in [1 .. MaxQueries -> RtQuery] /\ inflight' \in [1 .. MaxQueries -> RtQuery]
      /\ inflight'[q] = Q /\ \A p \in (1 .. MaxQueries) \ {q} : inflight'[p] = inflight[p]
  BY DEF Asking
<1>2. \A p \in 1 .. MaxQueries : inflight'[p].stage # "none" => inflight'[p].node \in RtNodes
  BY <1>1 DEF Asking
<1>3. NoTxnLeft'
  <2> SUFFICES ASSUME NEW k \in txns' PROVE inflight'[k[1]].stage # "none" /\ inflight'[k[1]].node = k[2]
    BY DEF NoTxnLeft
  <2>1. k \in txns /\ k \in (1 .. rtQueries) \X RtNodes /\ inflight[k[1]].stage # "none"
        /\ inflight[k[1]].node = k[2]
    BY DEF Asking, NoTxnLeft
  <2>2. k[1] \in 1 .. MaxQueries /\ k = <<k[1], k[2]>>
    BY <2>1, RtAssumption DEF Asking
  <2>3. CASE k[1] = q
    BY <2>1, <2>2, <2>3, <1>1
  <2>4. CASE k[1] # q
    BY <2>1, <2>2, <2>4, <1>1
  <2> QED BY <2>3, <2>4
<1> QED BY <1>1, <1>2, <1>3 DEF Asking

LEMMA StartKeeps ==
  ASSUME Asking, NEW n \in RtNodes, NEW kind \in {"ping", "find"}, StartOf(n, kind)
  PROVE  Asking'
<1> DEFINE i == rtQueries + 1
           Q == [node |-> n, kind |-> kind, stage |-> "sending", tries |-> TriesOf(kind), replied |-> FALSE]
<1>1. rtQueries \in Nat /\ i \in 1 .. MaxQueries /\ rtQueries' = i /\ txns' = txns \cup {<<i, n>>}
      /\ inflight' = [inflight EXCEPT ![i] = Q]
  BY RtAssumption DEF StartOf, Asking
<1>2. Q \in RtQuery /\ Q.stage # "none" /\ Q.node = n
  BY RtAssumption DEF RtQuery, TriesOf
<1> HIDE DEF Q
<1>3. inflight' \in [1 .. MaxQueries -> RtQuery] /\ inflight'[i] = Q
      /\ \A p \in (1 .. MaxQueries) \ {i} : inflight'[p] = inflight[p]
  BY <1>1, <1>2 DEF Asking
<1>4. \A p \in 1 .. MaxQueries : inflight'[p].stage # "none" => inflight'[p].node \in RtNodes
  BY <1>2, <1>3 DEF Asking
<1>5. txns' \subseteq (1 .. rtQueries') \X RtNodes /\ rtQueries' \in 0 .. MaxQueries
  BY <1>1, RtAssumption DEF Asking
<1>6. NoTxnLeft'
  <2> SUFFICES ASSUME NEW k \in txns' PROVE inflight'[k[1]].stage # "none" /\ inflight'[k[1]].node = k[2]
    BY DEF NoTxnLeft
  <2>1. CASE k = <<i, n>>
    BY <2>1, <1>2, <1>3
  <2>2. CASE k \in txns
    <3>1. k[1] \in 1 .. rtQueries /\ inflight[k[1]].stage # "none" /\ inflight[k[1]].node = k[2]
      BY <2>2 DEF Asking, NoTxnLeft
    <3>2. k[1] \in (1 .. MaxQueries) \ {i}
      BY <3>1, <1>1, RtAssumption
    <3> QED BY <3>1, <3>2, <1>3
  <2> QED BY <2>1, <2>2, <1>1
<1> QED BY <1>3, <1>4, <1>5, <1>6 DEF Asking

LEMMA SameAsking ==
  ASSUME Asking, UNCHANGED <<txns, inflight, rtQueries>>
  PROVE  Asking'
BY DEF Asking, NoTxnLeft

LEMMA AskingStep ==
  ASSUME RtInv, RtNext
  PROVE  Asking'
<1>0. Asking /\ inflight \in [1 .. MaxQueries -> RtQuery]
  BY DEF RtInv, Asking
<1>1. ASSUME NEW n \in RtNodes, HandleQuery(n, TRUE) \/ HandleQuery(n, FALSE) \/ Quiet15(n) \/ AddByName(n)
      PROVE  Asking'
  BY <1>0, <1>1, SameAsking DEF HandleQuery, Quiet15, AddByName
<1>2. ASSUME NEW n \in RtNodes, PingQuestionable(n) \/ FindNodeQ(n) PROVE Asking'
  <2>1. PICK kind \in {"ping", "find"} : StartOf(n, kind)
    BY <1>2 DEF PingQuestionable, FindNodeQ
  <2> QED BY <1>0, <2>1, StartKeeps
<1>3. ASSUME NEW q \in 1 .. MaxQueries, SendQuery(q) PROVE Asking'
  <2> DEFINE F == [inflight[q] EXCEPT !.stage = "failed"]
             W == [inflight[q] EXCEPT !.tries = inflight[q].tries - 1, !.stage = "waiting"]
  <2>1. inflight[q] \in RtQuery
    BY <1>0
  <2>2. F \in RtQuery /\ F.stage = "failed" /\ F.node = inflight[q].node
        /\ W \in RtQuery /\ W.stage = "waiting" /\ W.node = inflight[q].node
    <3>1. F \in RtQuery /\ F.stage = "failed" /\ F.node = inflight[q].node
      BY <2>1 DEF RtQuery
    <3>2. inflight[q].tries - 1 \in Int
      BY <2>1 DEF RtQuery
    <3>3. W \in RtQuery
      BY <2>1, <3>2 DEF RtQuery
    <3>4. W.stage = "waiting" /\ W.node = inflight[q].node
      BY <2>1 DEF RtQuery
    <3> QED BY <3>1, <3>3, <3>4
  <2>3. inflight' = [inflight EXCEPT ![q] = F] \/ inflight' = [inflight EXCEPT ![q] = W]
    BY <1>3 DEF SendQuery
  <2>4. inflight[q].stage # "none" /\ rtQueries' = rtQueries /\ txns' \subseteq txns
    BY <1>3 DEF SendQuery
  <2> HIDE DEF F, W
  <2> QED BY <1>0, <2>2, <2>3, <2>4, QueryChanges
<1>4. ASSUME NEW q \in 1 .. MaxQueries, ResendDelay(q) PROVE Asking'
  <2> DEFINE s == IF inflight[q].tries > 0 THEN "sending" ELSE "failed"
             Q == [inflight[q] EXCEPT !.stage = s]
  <2>1. inflight[q] \in RtQuery /\ s \in {"sending", "failed"}
    BY <1>0
  <2>2. inflight' = [inflight EXCEPT ![q] = Q]
    BY <1>0, <1>4 DEF ResendDelay
  <2> HIDE DEF s
  <2>3. Q \in RtQuery /\ Q.stage # "none" /\ Q.node = inflight[q].node
    BY <2>1 DEF RtQuery
  <2>4. inflight[q].stage # "none" /\ rtQueries' = rtQueries /\ txns' \subseteq txns
    BY <1>4 DEF ResendDelay
  <2> HIDE DEF Q
  <2> QED BY <1>0, <2>2, <2>3, <2>4, QueryChanges
<1>5. ASSUME NEW q \in 1 .. MaxQueries, NEW b \in BOOLEAN, GotResponse(q, b) PROVE Asking'
  <2> DEFINE Q == [inflight[q] EXCEPT !.replied = TRUE]
  <2>1. inflight[q] \in RtQuery
    BY <1>0
  <2>2. inflight' = [inflight EXCEPT ![q] = Q] /\ inflight[q].stage # "none"
        /\ rtQueries' = rtQueries /\ txns' \subseteq txns
    BY <1>0, <1>5 DEF GotResponse
  <2>3. Q \in RtQuery /\ Q.stage = inflight[q].stage /\ Q.node = inflight[q].node
    BY <2>1 DEF RtQuery
  <2> HIDE DEF Q
  <2> QED BY <1>0, <2>2, <2>3, QueryChanges
<1>6. ASSUME NEW q \in 1 .. MaxQueries, NEW ok \in BOOLEAN, QueryReturns(q, ok) PROVE Asking'
  <2> DEFINE Q == [inflight[q] EXCEPT !.stage = "none"]
  <2>1. inflight[q] \in RtQuery
    BY <1>0
  <2>2. inflight' = [inflight EXCEPT ![q] = Q] /\ inflight[q].stage # "none"
        /\ rtQueries' = rtQueries /\ txns' = txns \ {<<q, inflight[q].node>>}
    BY <1>0, <1>6 DEF QueryReturns
  <2>3. Q \in RtQuery /\ Q.node = inflight[q].node
    BY <2>1 DEF RtQuery
  <2> HIDE DEF Q
  <2> QED BY <1>0, <2>2, <2>3, QueryChanges
<1>7. CASE CloseDht
  BY <1>0, <1>7, SameAsking DEF CloseDht
<1> QED BY <1>1, <1>2, <1>3, <1>4, <1>5, <1>6, <1>7 DEF RtNext

LEMMA RtInvInit == RtInit => RtInv
<1> SUFFICES ASSUME RtInit PROVE RtInv
  OBVIOUS
<1>1. NoNode \in RtRec /\ ~NoNode.in /\ QNone \in RtQuery /\ QNone.stage = "none"
  BY DEF NoNode, RtRec, QNone, RtQuery
<1>2. Asking
  BY <1>1, RtAssumption DEF RtInit, Asking, NoTxnLeft
<1>3. Listed
  BY <1>1 DEF RtInit, Listed, TableOK
<1> QED BY <1>2, <1>3 DEF RtInv

LEMMA RtInvNext == RtInv /\ [RtNext]_rtVars => RtInv' /\ Leavers
<1>1. RtInv /\ RtNext => RtInv' /\ Leavers
  BY TableStep, AskingStep DEF ListKept, RtInv
<1>2. RtInv /\ UNCHANGED rtVars => RtInv' /\ Leavers
  BY SameTable, SameAsking DEF rtVars, RtInv, ListKept
<1> QED BY <1>1, <1>2

(* The table of the DHT server (dht/table.go, server.go): the index and the buckets agree, no
   transaction outlives its query, and nobody who answers is put out, for any nodes. *)
THEOREM TableStaysSafe == RtSpec => RtSafe
<1>1. RtInv /\ [RtNext]_rtVars => RtInv'
  BY RtInvNext
<1>2. RtInv /\ [RtNext]_rtVars =>
        [\A n \in RtNodes : rt[n].in /\ ~rt'[n].in =>
       /\ ~GoodNode(n, rt[n])
       /\ rt[n].resp = "never" \/ rt[n].failed]_rtVars
  BY RtInvNext DEF Leavers
<1>3. RtInv => TableOK /\ NoTxnLeft
  BY DEF RtInv, Asking, Listed
<1> QED BY <1>1, <1>2, <1>3, RtInvInit, PTL DEF RtSpec, RtSafe, GoodStay

-----------------------------------------------------------------------------
(* Counting the messages of a queue.                                       *)

Hits(q, m) == {i \in DOMAIN q : q[i] = m}

\* What is counted is a number, and two queues one after the other add up.
LEMMA HitsFinite ==
  ASSUME NEW T, NEW q \in Seq(T), NEW m
  PROVE  IsFiniteSet(Hits(q, m)) /\ Cardinality(Hits(q, m)) \in Nat
<1>1. IsFiniteSet(1 .. Len(q)) /\ Hits(q, m) \in SUBSET (1 .. Len(q))
  BY FS_Interval DEF Hits
<1> QED BY <1>1, FS_Subset, FS_CardinalityType

LEMMA HitsConcat ==
  ASSUME NEW T, NEW q \in Seq(T), NEW s \in Seq(T), NEW m
  PROVE  Cardinality(Hits(q \o s, m)) = Cardinality(Hits(q, m)) + Cardinality(Hits(s, m))
<1> DEFINE n == Len(q)
           S == Hits(s, m)
           U == {i \in DOMAIN (q \o s) : i > n /\ (q \o s)[i] = m}
           f == [i \in S |-> i + n]
<1>0. n \in Nat /\ Len(s) \in Nat /\ DOMAIN q = 1 .. n /\ DOMAIN s = 1 .. Len(s)
      /\ DOMAIN (q \o s) = 1 .. (n + Len(s))
  BY LenProperties, ConcatProperties
<1>1. \A i \in 1 .. n : (q \o s)[i] = q[i]
  BY ConcatProperties
<1>2. \A i \in 1 .. Len(s) : (q \o s)[i + n] = s[i]
  <2> TAKE i \in 1 .. Len(s)
  <2>1. i + n \in 1 .. (n + Len(s)) /\ ~(i + n <= n) /\ (i + n) - n = i
    BY <1>0
  <2> QED BY <2>1, <1>0, ConcatProperties
<1>3. f \in Bijection(S, U)
  <2>1. f \in [S -> U]
    <3> SUFFICES ASSUME NEW i \in S PROVE i + n \in U
      OBVIOUS
    <3>1. i \in 1 .. Len(s) /\ s[i] = m
      BY <1>0 DEF Hits
    <3> QED BY <3>1, <1>0, <1>2
  <2>2. \A a, b \in S : f[a] = f[b] => a = b
    BY <1>0 DEF Hits
  <2>3. \A u \in U : \E i \in S : f[i] = u
    <3> TAKE u \in U
    <3>1. u - n \in 1 .. Len(s) /\ (u - n) + n = u
      BY <1>0
    <3>2. u - n \in S
      BY <3>1, <1>0, <1>2 DEF Hits
    <3> QED BY <3>1, <3>2
  <2> QED BY <2>1, <2>2, <2>3 DEF Bijection, Injection, Surjection, IsInjective
<1>4. IsFiniteSet(S) /\ IsFiniteSet(U) /\ Cardinality(U) = Cardinality(S)
  BY <1>3, HitsFinite, FS_Bijection DEF ExistsBijection
<1>5. Hits(q \o s, m) = Hits(q, m) \cup U /\ Hits(q, m) \cap U = {}
  <2>1. ASSUME NEW i \in Hits(q \o s, m) PROVE i \in Hits(q, m) \cup U
    <3>1. i \in 1 .. (n + Len(s)) /\ (q \o s)[i] = m
      BY <1>0 DEF Hits
    <3>2. CASE i <= n
      BY <3>1, <3>2, <1>0, <1>1 DEF Hits
    <3>3. CASE ~(i <= n)
      BY <3>1, <3>3, <1>0
    <3> QED BY <3>2, <3>3
  <2>2. ASSUME NEW i \in Hits(q, m) PROVE i \in Hits(q \o s, m) /\ i \notin U
    BY <1>0, <1>1 DEF Hits
  <2>3. U \subseteq Hits(q \o s, m)
    BY DEF Hits
  <2> QED BY <2>1, <2>2, <2>3
<1>6. IsFiniteSet(Hits(q, m)) /\ Cardinality(Hits(q, m)) \in Nat /\ Cardinality(S) \in Nat
  BY HitsFinite
<1> HIDE DEF S, U, n
<1>7. Cardinality(Hits(q, m) \cup U) = Cardinality(Hits(q, m)) + Cardinality(U) - Cardinality(Hits(q, m) \cap U)
  BY <1>4, <1>6, FS_Union
<1>8. Cardinality(Hits(q, m) \cap U) = 0
  BY <1>5, FS_EmptySet
<1>9. Cardinality(Hits(q \o s, m)) = Cardinality(Hits(q, m)) + Cardinality(U) - 0
  BY <1>5, <1>7, <1>8
<1>10. Cardinality(U) = Cardinality(Hits(s, m)) /\ Cardinality(Hits(s, m)) \in Nat
  BY <1>4, <1>6 DEF S
<1> QED BY <1>6, <1>9, <1>10

\* One message, and the messages of a set.
LEMMA HitsOne ==
  ASSUME NEW x, NEW m
  PROVE  Cardinality(Hits(<<x>>, m)) = IF x = m THEN 1 ELSE 0
<1>1. CASE x = m
  <2>1. Hits(<<x>>, m) = {1}
    BY <1>1 DEF Hits
  <2> QED BY <1>1, <2>1, FS_Singleton
<1>2. CASE x # m
  <2>1. Hits(<<x>>, m) = {}
    BY <1>2 DEF Hits
  <2> QED BY <1>2, <2>1, FS_EmptySet
<1> QED BY <1>1, <1>2

LEMMA SetToSeqIs ==
  ASSUME NEW S, IsFiniteSet(S)
  PROVE  /\ Ext!SetToSeq(S) \in [1..Cardinality(S) -> S]
         /\ \A i, j \in DOMAIN Ext!SetToSeq(S) : Ext!SetToSeq(S)[i] = Ext!SetToSeq(S)[j] => i = j
<1>1. PICK f \in [1..Cardinality(S) -> S] : \A i, j \in 1..Cardinality(S) : f[i] = f[j] => i = j
  <2>1. ExistsBijection(1..Cardinality(S), S)
    BY FS_CardinalityType
  <2> QED BY <2>1 DEF ExistsBijection, Bijection, Injection, IsInjective
<1>2. Ext!Cardinality(S) = Cardinality(S)
  BY DEF Ext!Cardinality, Cardinality
<1>3. Ext!SetToSeq(S) = CHOOSE g \in [1..Cardinality(S) -> S] : \A i, j \in DOMAIN g : g[i] = g[j] => i = j
  BY <1>2, Zenon DEF Ext!SetToSeq, Ext!IsInjective
<1>4. \E g \in [1..Cardinality(S) -> S] : \A i, j \in DOMAIN g : g[i] = g[j] => i = j
  BY <1>1
<1> QED BY <1>3, <1>4, Zenon

LEMMA HitsSet ==
  ASSUME NEW S, IsFiniteSet(S), NEW m
  PROVE  /\ Ext!SetToSeq(S) \in Seq(S)
         /\ Cardinality(Hits(Ext!SetToSeq(S), m)) = IF m \in S THEN 1 ELSE 0
<1> DEFINE s == Ext!SetToSeq(S)
           n == Cardinality(S)
<1>1. n \in Nat
  BY FS_CardinalityType
<1>2. s \in [1 .. n -> S] /\ \A i, j \in 1 .. n : s[i] = s[j] => i = j
  BY SetToSeqIs
<1>3. s \in Seq(S)
  BY <1>1, <1>2, IsASeq
<1>4. \A x \in S : \E i \in 1 .. n : s[i] = x
  <2>1. s \in Injection(1 .. n, S)
    BY <1>2 DEF Injection, IsInjective
  <2>2. Cardinality(1 .. n) = n
    BY <1>1, FS_Interval
  <2>3. s \in Surjection(1 .. n, S)
    BY <2>1, <2>2, FS_Injection
  <2> QED BY <2>3 DEF Surjection
<1>5. CASE m \in S
  <2>1. PICK i \in 1 .. n : s[i] = m
    BY <1>4, <1>5
  <2>2. Hits(s, m) = {i}
    BY <1>2, <2>1 DEF Hits
  <2> QED BY <1>3, <1>5, <2>2, FS_Singleton
<1>6. CASE m \notin S
  <2>1. Hits(s, m) = {}
    BY <1>2, <1>6 DEF Hits
  <2> QED BY <1>3, <1>6, <2>1, FS_EmptySet
<1> QED BY <1>5, <1>6

\* CountMsg of a queue with more behind it, and of one with its head read.
LEMMA CountIs ==
  ASSUME NEW T, NEW q \in Seq(T), NEW type, NEW r
  PROVE  CountMsg(q, type, r) \in Nat /\ CountMsg(q, type, r) = Cardinality(Hits(q, Msg(type, r)))
BY HitsFinite DEF CountMsg, Hits

LEMMA CountAppend ==
  ASSUME NEW T, NEW q \in Seq(T), NEW x \in T, NEW type, NEW r
  PROVE  /\ Append(q, x) \in Seq(T)
         /\ CountMsg(Append(q, x), type, r) = CountMsg(q, type, r) + (IF x = Msg(type, r) THEN 1 ELSE 0)
<1>1. <<x>> \in Seq(T) /\ Append(q, x) = q \o <<x>> /\ Append(q, x) \in Seq(T)
  BY AppendIsConcat, AppendProperties
<1>2. Cardinality(Hits(Append(q, x), Msg(type, r))) = Cardinality(Hits(q, Msg(type, r))) + Cardinality(Hits(<<x>>, Msg(type, r)))
  <2> DEFINE m == Msg(type, r)
  <2>1. <<x>> \in Seq(T)
    BY <1>1
  <2>2. Cardinality(Hits(q \o <<x>>, m)) = Cardinality(Hits(q, m)) + Cardinality(Hits(<<x>>, m))
    <3> HIDE DEF m
    <3> QED BY <2>1, HitsConcat, Zenon
  <2> QED BY <1>1, <2>2
<1>3. Cardinality(Hits(<<x>>, Msg(type, r))) = IF x = Msg(type, r) THEN 1 ELSE 0
  BY HitsOne
<1>4. CountMsg(Append(q, x), type, r) = Cardinality(Hits(Append(q, x), Msg(type, r)))
      /\ CountMsg(q, type, r) = Cardinality(Hits(q, Msg(type, r)))
  BY <1>1, CountIs
<1> QED BY <1>1, <1>2, <1>3, <1>4

LEMMA CountHead ==
  ASSUME NEW T, NEW q \in Seq(T), q # <<>>, NEW type, NEW r
  PROVE  /\ Head(q) \in T /\ Tail(q) \in Seq(T)
         /\ CountMsg(q, type, r) = CountMsg(Tail(q), type, r) + (IF Head(q) = Msg(type, r) THEN 1 ELSE 0)
<1>1. Head(q) \in T /\ Tail(q) \in Seq(T) /\ <<Head(q)>> \in Seq(T)
  BY HeadTailProperties
<1>2. q = <<Head(q)>> \o Tail(q)
  BY <1>1, HeadTailProperties, ConcatProperties, SeqEqual
<1>3. Cardinality(Hits(q, Msg(type, r))) = Cardinality(Hits(<<Head(q)>>, Msg(type, r))) + Cardinality(Hits(Tail(q), Msg(type, r)))
  <2> DEFINE m == Msg(type, r)
             h == <<Head(q)>>
             t == Tail(q)
  <2>1. h \in Seq(T) /\ t \in Seq(T)
    BY <1>1
  <2>2. Cardinality(Hits(h \o t, m)) = Cardinality(Hits(h, m)) + Cardinality(Hits(t, m))
    <3> HIDE DEF m, h, t
    <3> QED BY <2>1, HitsConcat, Zenon
  <2> QED BY <1>2, <2>2
<1>4. /\ CountMsg(Tail(q), type, r) \in Nat
      /\ CountMsg(Tail(q), type, r) = Cardinality(Hits(Tail(q), Msg(type, r)))
      /\ CountMsg(q, type, r) = Cardinality(Hits(q, Msg(type, r)))
  BY <1>1, CountIs
<1>5. Cardinality(Hits(<<Head(q)>>, Msg(type, r))) = IF Head(q) = Msg(type, r) THEN 1 ELSE 0
  BY HitsOne
<1> QED BY <1>1, <1>3, <1>4, <1>5

LEMMA CountSends ==
  ASSUME NEW T, NEW q \in Seq(T), NEW t, NEW rs, IsFiniteSet(rs), \A r \in rs : Msg(t, r) \in T,
         NEW type, NEW r
  PROVE  /\ Sends(q, t, rs) \in Seq(T)
         /\ CountMsg(Sends(q, t, rs), type, r)
            = CountMsg(q, type, r) + (IF t = type /\ r \in rs THEN 1 ELSE 0)
<1> DEFINE M == {Msg(t, x) : x \in rs}
           s == Ext!SetToSeq(M)
<1>1. IsFiniteSet(M)
  <2> DEFINE f == [x \in rs |-> Msg(t, x)]
  <2>1. f \in Surjection(rs, M)
    BY DEF Surjection
  <2> HIDE DEF f, M
  <2> QED BY <2>1, FS_Surjection
<1>2. s \in Seq(M) /\ Cardinality(Hits(s, Msg(type, r))) = IF Msg(type, r) \in M THEN 1 ELSE 0
  <2> HIDE DEF M
  <2> QED BY <1>1, HitsSet
<1>3. M \subseteq T
  OBVIOUS
<1>4. s \in Seq(T) /\ q \o s \in Seq(T)
  <2>1. s \in Seq(T)
    BY <1>2, <1>3, SeqMonotonic
  <2> QED BY <2>1, ConcatProperties
<1>5. Msg(type, r) \in M <=> t = type /\ r \in rs
  BY DEF Msg
<1> HIDE DEF M, s
<1>6. Cardinality(Hits(q \o s, Msg(type, r))) = Cardinality(Hits(q, Msg(type, r))) + Cardinality(Hits(s, Msg(type, r)))
  BY <1>4, HitsConcat
<1>7. CountMsg(q \o s, type, r) = CountMsg(q, type, r) + (IF t = type /\ r \in rs THEN 1 ELSE 0)
  BY <1>2, <1>4, <1>5, <1>6, CountIs
<1> QED BY <1>4, <1>7 DEF s, M, Sends

-----------------------------------------------------------------------------
(* The inductive invariant.                                                *)

AskRec == [reqs : SUBSET WireChunks, cancelled : SUBSET WireChunks, expect : [WireChunks -> Nat],
           choked : BOOLEAN, update : {"", "other", "cancel", "reject"}]
ServeRec == [choking : BOOLEAN, unread : SUBSET WireChunks, ready : SUBSET WireChunks,
             reading : SUBSET WireChunks, allowed : BOOLEAN]
ToServer == [type : {"request", "cancel"}, r : WireChunks]
FromServer == [type : {"piece", "reject"}, r : WireChunks]
              \cup [type : {"choke", "unchoke"}, r : WireChunks \cup {0}]

WireShape ==
  /\ asking \in [Conns -> AskRec] /\ serving \in [Conns -> ServeRec]
  /\ out \in [Conns -> Seq(ToServer)] /\ in \in [Conns -> Seq(FromServer)]
  /\ requester \in [WireChunks -> Conns \cup {"none"}]
  /\ open \subseteq Conns

\* The other end holds a request once, and reads one at a time, with room for it.
Serves(v) ==
  /\ v.unread \cap v.ready = {}
  /\ Cardinality(v.ready) <= ReadyMax
  /\ v.reading # {} => Cardinality(v.ready) < ReadyMax /\ \E r \in WireChunks : v.reading = {r}

\* What is on its way, there, or on its way back.
OnWay(r, v, o, i) ==
  CountMsg(o, "request", r) + (IF r \in HeldHere(v) THEN 1 ELSE 0)
  + CountMsg(i, "piece", r) + CountMsg(i, "reject", r)

\* With the fast extension a chunk is expected once while it is asked for or cancelled, and is
\* on its way as often; without it no answer comes that is not expected.
Reckoned(k, a, v, o, i, S) ==
  \A r \in WireChunks :
    /\ Fast(k) => /\ a.expect[r] = IF r \in a.reqs \cup a.cancelled THEN 1 ELSE 0
                  /\ k \in S \/ a.expect[r] = OnWay(r, v, o, i)
    /\ ~Fast(k) => /\ r \notin a.cancelled /\ (r \in a.reqs => a.expect[r] > 0)
                   /\ a.expect[r] >= OnWay(r, v, o, i) /\ CountMsg(i, "reject", r) = 0

Agreed == \A k \in Conns, r \in WireChunks : r \in asking[k].reqs <=> requester[r] = k
Apart == \A k \in Conns : asking[k].reqs \cap asking[k].cancelled = {}
ClosedAskNothing == \A k \in Conns \ open : asking[k].reqs = {}
AllReckoned ==
  \A k \in open : Reckoned(k, asking[k], serving[k], out[k], in[k], staleReads)

WireInv ==
  /\ WireShape /\ (\A k \in Conns : Serves(serving[k])) /\ Agreed /\ Apart
  /\ ClosedAskNothing /\ AllReckoned /\ NoQuarrel

-----------------------------------------------------------------------------
(* What the steps do to one connection.                                    *)

LEMMA AskIs ==
  ASSUME NEW a \in AskRec
  PROVE  /\ a.expect \in [WireChunks -> Nat] /\ \A r \in WireChunks : a.expect[r] \in Nat
         /\ a.reqs \subseteq WireChunks /\ a.cancelled \subseteq WireChunks
BY DEF AskRec

LEMMA OneLess ==
  ASSUME NEW e \in [WireChunks -> Nat], NEW r \in WireChunks, e[r] > 0
  PROVE  [e EXCEPT ![r] = e[r] - 1] \in [WireChunks -> Nat]
OBVIOUS

\* Another reason to plan changes nothing else.
Alike(b, a) ==
  /\ b \in AskRec /\ b.reqs = a.reqs /\ b.cancelled = a.cancelled /\ b.expect = a.expect

LEMMA NeedKeeps ==
  ASSUME NEW a \in AskRec, NEW reason \in {"other", "cancel", "reject"}
  PROVE  Alike(Need(a, reason), a) /\ Alike(NeedIfLow(a, reason), a)
<1>1. Alike(Need(a, reason), a) /\ Alike(a, a)
  BY DEF Need, Alike, AskRec
<1> QED BY <1>1 DEF NeedIfLow

LEMMA AlikeReckoned ==
  ASSUME NEW k, NEW a, NEW b, Alike(b, a), NEW v, NEW o, NEW i, NEW S
  PROVE  Reckoned(k, b, v, o, i, S) <=> Reckoned(k, a, v, o, i, S)
BY DEF Alike, Reckoned

Dropped(b, k, a, rs) ==
  /\ b \in AskRec /\ b.reqs = a.reqs \ rs /\ b.expect = a.expect
  /\ b.cancelled = IF Fast(k) THEN a.cancelled \cup rs ELSE a.cancelled

LEMMA CancelIs ==
  ASSUME NEW k, NEW a \in AskRec, NEW rs, rs \subseteq a.reqs
  PROVE  Dropped(CancelAll(k, a, rs), k, a, rs)
<1>1. CASE rs = {}
  BY <1>1 DEF CancelAll, AskRec, Dropped
<1>2. CASE rs # {}
  <2> DEFINE c == [a EXCEPT !.reqs = @ \ rs, !.cancelled = IF Fast(k) THEN @ \cup rs ELSE @]
  <2>1. Dropped(c, k, a, rs) /\ c \in AskRec
    BY DEF AskRec, Dropped
  <2>2. CancelAll(k, a, rs) = NeedIfLow(c, "cancel")
    BY <1>2 DEF CancelAll
  <2> HIDE DEF c
  <2>3. Alike(NeedIfLow(c, "cancel"), c)
    BY <2>1, NeedKeeps
  <2> QED BY <2>1, <2>2, <2>3 DEF Alike, Dropped
<1> QED BY <1>1, <1>2

LEMMA ChunksFinite ==
  ASSUME NEW rs \in SUBSET WireChunks
  PROVE  IsFiniteSet(rs)
BY WireAssumption, FS_Subset

\* What is sent to the other end.
LEMMA SendsIs ==
  ASSUME NEW q \in Seq(ToServer), NEW t \in {"request", "cancel"}, NEW rs \in SUBSET WireChunks
  PROVE  /\ Sends(q, t, rs) \in Seq(ToServer)
         /\ \A r : CountMsg(Sends(q, t, rs), "request", r)
                  = CountMsg(q, "request", r) + (IF t = "request" /\ r \in rs THEN 1 ELSE 0)
<1>1. IsFiniteSet(rs) /\ \A r \in rs : Msg(t, r) \in ToServer
  BY ChunksFinite DEF Msg, ToServer
<1> QED BY <1>1, CountSends

LEMMA CountsAre ==
  ASSUME NEW o \in Seq(ToServer), NEW i \in Seq(FromServer), NEW r
  PROVE  /\ CountMsg(o, "request", r) \in Nat /\ CountMsg(i, "piece", r) \in Nat
         /\ CountMsg(i, "reject", r) \in Nat
BY CountIs

LEMMA CancelReckoned ==
  ASSUME NEW k, NEW a \in AskRec, NEW v, NEW o \in Seq(ToServer), NEW i \in Seq(FromServer),
         NEW S, NEW rs, rs \subseteq a.reqs, Reckoned(k, a, v, o, i, S)
  PROVE  Reckoned(k, CancelAll(k, a, rs), v, Sends(o, "cancel", rs), i, S)
<1> DEFINE b == CancelAll(k, a, rs)
           s == Sends(o, "cancel", rs)
<1>1. Dropped(b, k, a, rs)
  BY CancelIs
<1>2. rs \in SUBSET WireChunks
  BY DEF AskRec
<1>3. \A r : CountMsg(s, "request", r) = CountMsg(o, "request", r)
  <2> TAKE r
  <2>1. CountMsg(s, "request", r) = CountMsg(o, "request", r) + 0
    BY <1>2, SendsIs
  <2> QED BY <2>1, CountsAre
<1> HIDE DEF b, s
<1>4. \A r : OnWay(r, v, s, i) = OnWay(r, v, o, i)
  BY <1>3 DEF OnWay
<1>5. Reckoned(k, b, v, s, i, S)
  BY <1>1, <1>4 DEF Reckoned, Dropped
<1> QED BY <1>5 DEF b, s

LEMMA RequestReckoned ==
  ASSUME NEW k, NEW a \in AskRec, NEW b \in AskRec, NEW v, NEW o \in Seq(ToServer),
         NEW i \in Seq(FromServer), NEW S, Reckoned(k, a, v, o, i, S),
         NEW new \in SUBSET WireChunks, new \cap (a.reqs \cup a.cancelled) = {},
         b.reqs = a.reqs \cup new, b.cancelled = a.cancelled,
         b.expect = [r \in WireChunks |-> IF r \in new THEN a.expect[r] + 1 ELSE a.expect[r]]
  PROVE  Reckoned(k, b, v, Sends(o, "request", new), i, S)
<1> DEFINE s == Sends(o, "request", new)
<1> SUFFICES ASSUME NEW r \in WireChunks
             PROVE  /\ Fast(k) => /\ b.expect[r] = IF r \in b.reqs \cup b.cancelled THEN 1 ELSE 0
                                  /\ k \in S \/ b.expect[r] = OnWay(r, v, s, i)
                    /\ ~Fast(k) => /\ r \notin b.cancelled /\ (r \in b.reqs => b.expect[r] > 0)
                                   /\ b.expect[r] >= OnWay(r, v, s, i) /\ CountMsg(i, "reject", r) = 0
  BY DEF Reckoned
<1>1. CountMsg(s, "request", r) = CountMsg(o, "request", r) + (IF r \in new THEN 1 ELSE 0)
  BY SendsIs
<1> HIDE DEF s
<1>2. /\ CountMsg(o, "request", r) \in Nat /\ CountMsg(i, "piece", r) \in Nat
      /\ CountMsg(i, "reject", r) \in Nat
  BY CountsAre
<1>3. OnWay(r, v, o, i) \in Nat /\ OnWay(r, v, s, i) = OnWay(r, v, o, i) + (IF r \in new THEN 1 ELSE 0)
  <2> DEFINE h == IF r \in HeldHere(v) THEN 1 ELSE 0
  <2>1. h \in Nat
    OBVIOUS
  <2>2. OnWay(r, v, o, i) = CountMsg(o, "request", r) + h + CountMsg(i, "piece", r) + CountMsg(i, "reject", r)
        /\ OnWay(r, v, s, i) = CountMsg(s, "request", r) + h + CountMsg(i, "piece", r) + CountMsg(i, "reject", r)
    BY DEF OnWay
  <2> HIDE DEF h
  <2>3. CASE r \in new
    BY <2>1, <2>2, <2>3, <1>1, <1>2
  <2>4. CASE r \notin new
    BY <2>1, <2>2, <2>4, <1>1, <1>2
  <2> QED BY <2>3, <2>4
<1>4. a.expect[r] \in Nat
  BY DEF AskRec
<1>5. b.expect[r] = a.expect[r] + (IF r \in new THEN 1 ELSE 0)
  BY <1>4
<1> QED BY <1>3, <1>4, <1>5 DEF Reckoned

-----------------------------------------------------------------------------
(* The downloading end.                                                    *)

LEMMA UpdateStep ==
  ASSUME WireInv, NEW k \in Conns, UpdateRequests(k)
  PROVE  WireInv'
<1> USE DEF WireInv
<1> DEFINE a == asking[k]
<1>1. PICK new \in SUBSET Requestable(k) :
        /\ asking' = [o \in Conns |->
             IF o = k THEN [a EXCEPT !.reqs = @ \cup new, !.update = "",
                                     !.expect = [r \in WireChunks |-> IF r \in new THEN @[r] + 1 ELSE @[r]]]
             ELSE CancelAll(o, asking[o], Owned(o, new))]
        /\ out' = [o \in Conns |-> IF o = k THEN Sends(out[k], "request", new)
                                   ELSE Sends(out[o], "cancel", Owned(o, new))]
        /\ requester' = [r \in WireChunks |-> IF r \in new THEN k ELSE requester[r]]
  BY DEF UpdateRequests
<1>2. k \in open /\ UNCHANGED <<serving, in, open, errors, staleReads>>
  BY DEF UpdateRequests
<1>3. new \in SUBSET WireChunks /\ new \cap (a.reqs \cup a.cancelled) = {}
  BY <1>1 DEF Requestable
<1>4. \A o \in Conns : Owned(o, new) \subseteq asking[o].reqs /\ Owned(o, new) \subseteq new
  BY <1>3 DEF Owned, Agreed
<1>5. \A o \in Conns : asking[o] \in AskRec /\ out[o] \in Seq(ToServer) /\ in[o] \in Seq(FromServer)
  BY DEF WireShape
<1>6. /\ asking'[k] \in AskRec /\ asking'[k].reqs = a.reqs \cup new
      /\ asking'[k].cancelled = a.cancelled
      /\ asking'[k].expect = [r \in WireChunks |-> IF r \in new THEN a.expect[r] + 1 ELSE a.expect[r]]
  <2> DEFINE e == [r \in WireChunks |-> IF r \in new THEN a.expect[r] + 1 ELSE a.expect[r]]
  <2>1. asking'[k] = [a EXCEPT !.reqs = a.reqs \cup new, !.update = "", !.expect = e]
    BY <1>1
  <2>2. a \in AskRec /\ a.expect \in [WireChunks -> Nat]
    BY <1>5 DEF AskRec
  <2>3. e \in [WireChunks -> Nat]
    BY <2>2
  <2> HIDE DEF e, a
  <2>4. /\ asking'[k] \in AskRec /\ asking'[k].reqs = a.reqs \cup new
        /\ asking'[k].cancelled = a.cancelled /\ asking'[k].expect = e
    BY <2>1, <2>2, <2>3, <1>3 DEF AskRec
  <2> QED BY <2>4 DEF e
<1>7. \A o \in Conns \ {k} : Dropped(asking'[o], o, asking[o], Owned(o, new))
  BY <1>1, <1>4, <1>5, CancelIs
<1>8. out'[k] = Sends(out[k], "request", new)
      /\ \A o \in Conns \ {k} : out'[o] = Sends(out[o], "cancel", Owned(o, new))
  BY <1>1
<1>9. WireShape'
  <2>1. \A o \in Conns : asking'[o] \in AskRec
    BY <1>6, <1>7 DEF Dropped
  <2>5. \A o \in Conns : Owned(o, new) \in SUBSET WireChunks
    BY <1>3, <1>4
  <2>6. \A o \in Conns : out'[o] \in Seq(ToServer)
    BY <1>3, <1>5, <1>8, <2>5, SendsIs
  <2>2. DOMAIN asking' = Conns /\ DOMAIN out' = Conns
    BY <1>1
  <2>3. asking' \in [Conns -> AskRec] /\ out' \in [Conns -> Seq(ToServer)]
    BY <1>1, <2>1, <2>6
  <2>4. requester' \in [WireChunks -> Conns \cup {"none"}]
    BY <1>1 DEF WireShape
  <2> QED BY <1>2, <2>3, <2>4 DEF WireShape
<1>10. Agreed'
  <2> SUFFICES ASSUME NEW o \in Conns, NEW r \in WireChunks
               PROVE  r \in asking'[o].reqs <=> requester'[r] = o
    BY DEF Agreed
  <2>1. requester'[r] = IF r \in new THEN k ELSE requester[r]
    BY <1>1
  <2>4. r \in asking[o].reqs <=> requester[r] = o
    BY DEF Agreed
  <2>2. CASE o = k
    BY <1>6, <2>1, <2>2, <2>4
  <2>3. CASE o # k
    <3>1. asking'[o].reqs = asking[o].reqs \ Owned(o, new)
      BY <1>7, <2>3 DEF Dropped
    <3>2. r \in Owned(o, new) <=> r \in new /\ requester[r] = o
      BY DEF Owned
    <3> QED BY <2>1, <2>3, <2>4, <3>1, <3>2
  <2> QED BY <2>2, <2>3
<1>11. Apart'
  <2> SUFFICES ASSUME NEW o \in Conns
               PROVE  asking'[o].reqs \cap asking'[o].cancelled = {}
    BY DEF Apart
  <2>1. CASE o = k
    BY <1>3, <1>6, <2>1 DEF Apart
  <2>2. CASE o # k
    BY <1>7, <2>2 DEF Apart, Dropped
  <2> QED BY <2>1, <2>2
<1>12. ClosedAskNothing'
  BY <1>2, <1>7 DEF ClosedAskNothing, Dropped
<1>13. AllReckoned'
  <2> SUFFICES ASSUME NEW o \in open
               PROVE  Reckoned(o, asking'[o], serving[o], out'[o], in[o], staleReads)
    BY <1>2 DEF AllReckoned
  <2>1. o \in Conns /\ Reckoned(o, asking[o], serving[o], out[o], in[o], staleReads)
    BY DEF AllReckoned, WireShape
  <2>2. CASE o = k
    BY <2>1, <2>2, <1>3, <1>5, <1>6, <1>8, RequestReckoned
  <2>3. CASE o # k
    <3>1. asking'[o] = CancelAll(o, asking[o], Owned(o, new))
      BY <1>1, <2>1, <2>3
    <3> QED BY <2>1, <2>3, <3>1, <1>4, <1>5, <1>8, CancelReckoned
  <2> QED BY <2>2, <2>3
<1> QED BY <1>2, <1>9, <1>10, <1>11, <1>12, <1>13 DEF NoQuarrel

\* The connection whose handler returned an error, or that is dropped, is gone.
LEMMA EndedKeeps ==
  ASSUME WireInv, NEW k \in Conns, Ended(k),
         UNCHANGED <<serving, out, staleReads>>, in' \in [Conns -> Seq(FromServer)],
         \A o \in Conns \ {k} : in'[o] = in[o], NoQuarrel'
  PROVE  WireInv'
<1> USE DEF WireInv
<1>1. open' = open \ {k}
      /\ requester' = [r \in WireChunks |-> IF requester[r] = k THEN "none" ELSE requester[r]]
      /\ asking' = [o \in Conns |-> IF o = k THEN [asking[k] EXCEPT !.reqs = {}]
                      ELSE IF asking[k].reqs = {} THEN asking[o] ELSE NeedIfLow(asking[o], "other")]
  BY DEF Ended
<1>2. \A o \in Conns : asking[o] \in AskRec
  BY DEF WireShape
<1>3. \A o \in Conns \ {k} : Alike(asking'[o], asking[o])
  <2> TAKE o \in Conns \ {k}
  <2>1. asking'[o] = IF asking[k].reqs = {} THEN asking[o] ELSE NeedIfLow(asking[o], "other")
    BY <1>1
  <2>2. Alike(asking[o], asking[o]) /\ Alike(NeedIfLow(asking[o], "other"), asking[o])
    BY <1>2, NeedKeeps DEF Alike
  <2> QED BY <2>1, <2>2
<1>4. asking'[k] \in AskRec /\ asking'[k].reqs = {} /\ asking'[k].cancelled = asking[k].cancelled
  BY <1>1, <1>2 DEF AskRec
<1>5. WireShape'
  <2>1. asking' \in [Conns -> AskRec]
    <3>1. \A o \in Conns : asking'[o] \in AskRec
      BY <1>3, <1>4 DEF Alike
    <3> QED BY <1>1, <3>1
  <2>2. requester' \in [WireChunks -> Conns \cup {"none"}]
    BY <1>1 DEF WireShape
  <2> QED BY <1>1, <2>1, <2>2 DEF WireShape
<1>6. Agreed'
  <2> SUFFICES ASSUME NEW o \in Conns, NEW r \in WireChunks
               PROVE  r \in asking'[o].reqs <=> requester'[r] = o
    BY DEF Agreed
  <2>1. requester'[r] = IF requester[r] = k THEN "none" ELSE requester[r]
    BY <1>1
  <2>2. CASE o = k
    BY <1>4, <2>1, <2>2, WireAssumption DEF Agreed
  <2>3. CASE o # k
    BY <1>3, <2>1, <2>3, WireAssumption DEF Agreed, Alike
  <2> QED BY <2>2, <2>3
<1>7. Apart'
  BY <1>3, <1>4 DEF Apart, Alike
<1>8. ClosedAskNothing'
  BY <1>1, <1>3, <1>4 DEF ClosedAskNothing, Alike
<1>9. AllReckoned'
  <2> SUFFICES ASSUME NEW o \in open \ {k}
               PROVE  Reckoned(o, asking'[o], serving[o], out[o], in'[o], staleReads)
    BY <1>1 DEF AllReckoned
  <2>1. o \in Conns \ {k} /\ Reckoned(o, asking[o], serving[o], out[o], in[o], staleReads)
    BY DEF AllReckoned, WireShape
  <2> QED BY <1>3, <2>1, AlikeReckoned
<1> QED BY <1>5, <1>6, <1>7, <1>8, <1>9

\* The message that is read, and what is left of the queue.
LEMMA ReadIs ==
  ASSUME WireShape, NEW k \in Conns, NEW type, Reading(k, type), NextIn(k)
  PROVE  /\ k \in open /\ in[k] \in Seq(FromServer) /\ in[k] # <<>>
         /\ Head(in[k]) \in FromServer /\ Head(in[k]).type = type
         /\ in' \in [Conns -> Seq(FromServer)] /\ in'[k] = Tail(in[k])
         /\ \A o \in Conns \ {k} : in'[o] = in[o]
<1>1. k \in open /\ in[k] \in Seq(FromServer) /\ in[k] # <<>> /\ Head(in[k]).type = type
      /\ in \in [Conns -> Seq(FromServer)] /\ in' = [in EXCEPT ![k] = Tail(in[k])]
  BY DEF WireShape, Reading, NextIn
<1>2. Head(in[k]) \in FromServer /\ Tail(in[k]) \in Seq(FromServer)
  BY <1>1, CountHead
<1> QED BY <1>1, <1>2

\* An answer that was expected; a message that is no answer.
LEMMA AnswerReckoned ==
  ASSUME NEW k, NEW a \in AskRec, NEW b \in AskRec, NEW v, NEW o \in Seq(ToServer),
         NEW i \in Seq(FromServer), NEW S, Reckoned(k, a, v, o, i, S),
         i # <<>>, NEW r \in WireChunks, Head(i) \in {Msg("piece", r), Msg("reject", r)},
         a.expect[r] > 0, b.expect = [a.expect EXCEPT ![r] = @ - 1],
         b.reqs = a.reqs \ {r}, b.cancelled = a.cancelled \ {r}
  PROVE  Reckoned(k, b, v, o, Tail(i), S)
<1> SUFFICES ASSUME NEW x \in WireChunks
             PROVE  /\ Fast(k) => /\ b.expect[x] = IF x \in b.reqs \cup b.cancelled THEN 1 ELSE 0
                                  /\ k \in S \/ b.expect[x] = OnWay(x, v, o, Tail(i))
                    /\ ~Fast(k) => /\ x \notin b.cancelled /\ (x \in b.reqs => b.expect[x] > 0)
                                   /\ b.expect[x] >= OnWay(x, v, o, Tail(i)) /\ CountMsg(Tail(i), "reject", x) = 0
  BY DEF Reckoned
<1>1. /\ CountMsg(i, "piece", x) = CountMsg(Tail(i), "piece", x) + (IF Head(i) = Msg("piece", x) THEN 1 ELSE 0)
      /\ CountMsg(i, "reject", x) = CountMsg(Tail(i), "reject", x) + (IF Head(i) = Msg("reject", x) THEN 1 ELSE 0)
      /\ Tail(i) \in Seq(FromServer)
  BY CountHead
<1>2. /\ CountMsg(o, "request", x) \in Nat /\ CountMsg(Tail(i), "piece", x) \in Nat
      /\ CountMsg(Tail(i), "reject", x) \in Nat
  BY <1>1, CountsAre
<1>3. \/ (Head(i) = Msg("piece", x) /\ Head(i) # Msg("reject", x) /\ x = r)
      \/ (Head(i) # Msg("piece", x) /\ Head(i) = Msg("reject", x) /\ x = r)
      \/ (Head(i) # Msg("piece", x) /\ Head(i) # Msg("reject", x) /\ x # r)
  BY DEF Msg
<1>4. OnWay(x, v, o, Tail(i)) \in Nat /\ OnWay(x, v, o, i) = OnWay(x, v, o, Tail(i)) + (IF x = r THEN 1 ELSE 0)
  <2> DEFINE h == IF x \in HeldHere(v) THEN 1 ELSE 0
  <2>1. h \in Nat
    OBVIOUS
  <2>2. OnWay(x, v, o, i) = CountMsg(o, "request", x) + h + CountMsg(i, "piece", x) + CountMsg(i, "reject", x)
        /\ OnWay(x, v, o, Tail(i)) = CountMsg(o, "request", x) + h + CountMsg(Tail(i), "piece", x) + CountMsg(Tail(i), "reject", x)
    BY DEF OnWay
  <2> HIDE DEF h
  <2>3. CASE Head(i) = Msg("piece", x) /\ Head(i) # Msg("reject", x) /\ x = r
    <3>1. CountMsg(i, "piece", x) = CountMsg(Tail(i), "piece", x) + 1 /\ CountMsg(i, "reject", x) = CountMsg(Tail(i), "reject", x)
      BY <2>3, <1>1, <1>2
    <3> QED BY <3>1, <2>1, <2>2, <2>3, <1>2
  <2>4. CASE Head(i) # Msg("piece", x) /\ Head(i) = Msg("reject", x) /\ x = r
    <3>1. CountMsg(i, "piece", x) = CountMsg(Tail(i), "piece", x) /\ CountMsg(i, "reject", x) = CountMsg(Tail(i), "reject", x) + 1
      BY <2>4, <1>1, <1>2
    <3> QED BY <3>1, <2>1, <2>2, <2>4, <1>2
  <2>5. CASE Head(i) # Msg("piece", x) /\ Head(i) # Msg("reject", x) /\ x # r
    <3>1. CountMsg(i, "piece", x) = CountMsg(Tail(i), "piece", x) /\ CountMsg(i, "reject", x) = CountMsg(Tail(i), "reject", x)
      BY <2>5, <1>1, <1>2
    <3> QED BY <3>1, <2>1, <2>2, <2>5, <1>2
  <2> QED BY <1>3, <2>3, <2>4, <2>5
<1>5. a.expect \in [WireChunks -> Nat] /\ a.expect[x] \in Nat
  BY DEF AskRec
<1>6. b.expect[x] = IF x = r THEN a.expect[r] - 1 ELSE a.expect[x]
  BY <1>5
<1>7. CountMsg(i, "reject", x) = 0 => CountMsg(Tail(i), "reject", x) = 0
  BY <1>1, <1>2
<1>8. CASE x = r
  BY <1>4, <1>5, <1>6, <1>7, <1>8 DEF Reckoned
<1>9. CASE x # r
  BY <1>4, <1>5, <1>6, <1>7, <1>9 DEF Reckoned
<1> QED BY <1>8, <1>9

LEMMA SkipReckoned ==
  ASSUME NEW k, NEW a, NEW v, NEW o, NEW i \in Seq(FromServer), NEW S, Reckoned(k, a, v, o, i, S),
         i # <<>>, Head(i).type \notin {"piece", "reject"}
  PROVE  Reckoned(k, a, v, o, Tail(i), S)
<1>1. ASSUME NEW r
      PROVE  /\ CountMsg(Tail(i), "piece", r) = CountMsg(i, "piece", r)
             /\ CountMsg(Tail(i), "reject", r) = CountMsg(i, "reject", r)
  <2>1. Head(i) # Msg("piece", r) /\ Head(i) # Msg("reject", r)
    BY DEF Msg
  <2>2. /\ CountMsg(i, "piece", r) = CountMsg(Tail(i), "piece", r) + 0
        /\ CountMsg(i, "reject", r) = CountMsg(Tail(i), "reject", r) + 0
        /\ Tail(i) \in Seq(FromServer)
    BY <2>1, CountHead
  <2>3. CountMsg(Tail(i), "piece", r) \in Nat /\ CountMsg(Tail(i), "reject", r) \in Nat
    BY <2>2, CountIs
  <2> QED BY <2>2, <2>3
<1>2. \A r : OnWay(r, v, o, Tail(i)) = OnWay(r, v, o, i)
  BY <1>1 DEF OnWay
<1> QED BY <1>1, <1>2 DEF Reckoned

\* An answer at the head of the queue was expected, unless a read failed too late.
LEMMA HeadExpected ==
  ASSUME WireInv, NEW k \in open, in[k] # <<>>, NEW r \in WireChunks,
         Head(in[k]) \in {Msg("piece", r), Msg("reject", r)}, k \notin staleReads
  PROVE  /\ asking[k].expect[r] > 0
         /\ Fast(k) => r \in asking[k].reqs \cup asking[k].cancelled
         /\ ~Fast(k) => Head(in[k]) = Msg("piece", r)
<1>1. /\ k \in Conns /\ asking[k] \in AskRec /\ in[k] \in Seq(FromServer) /\ out[k] \in Seq(ToServer)
      /\ Reckoned(k, asking[k], serving[k], out[k], in[k], staleReads)
  BY DEF WireInv, WireShape, AllReckoned
<1> DEFINE i == in[k]
<1>2. /\ CountMsg(i, "piece", r) = CountMsg(Tail(i), "piece", r) + (IF Head(i) = Msg("piece", r) THEN 1 ELSE 0)
      /\ CountMsg(i, "reject", r) = CountMsg(Tail(i), "reject", r) + (IF Head(i) = Msg("reject", r) THEN 1 ELSE 0)
      /\ Tail(i) \in Seq(FromServer)
  BY <1>1, CountHead
<1>3. /\ CountMsg(out[k], "request", r) \in Nat /\ CountMsg(i, "piece", r) \in Nat
      /\ CountMsg(i, "reject", r) \in Nat
      /\ CountMsg(Tail(i), "piece", r) \in Nat /\ CountMsg(Tail(i), "reject", r) \in Nat
  BY <1>1, <1>2, CountIs
<1>4. OnWay(r, serving[k], out[k], i) \in Nat /\ OnWay(r, serving[k], out[k], i) >= 1
  <2> DEFINE h == IF r \in HeldHere(serving[k]) THEN 1 ELSE 0
  <2>1. h \in Nat
    OBVIOUS
  <2>2. OnWay(r, serving[k], out[k], i)
        = CountMsg(out[k], "request", r) + h + CountMsg(i, "piece", r) + CountMsg(i, "reject", r)
    BY DEF OnWay
  <2> HIDE DEF h
  <2>3. CountMsg(i, "piece", r) >= 1 \/ CountMsg(i, "reject", r) >= 1
    BY <1>2, <1>3
  <2> QED BY <2>1, <2>2, <2>3, <1>3
<1>5. asking[k].expect[r] \in Nat
  BY <1>1 DEF AskRec
<1>6. asking[k].expect[r] > 0
  BY <1>1, <1>4, <1>5 DEF Reckoned
<1>7. ASSUME Fast(k) PROVE r \in asking[k].reqs \cup asking[k].cancelled
  BY <1>1, <1>6, <1>7 DEF Reckoned
<1>8. ASSUME ~Fast(k) PROVE Head(i) = Msg("piece", r)
  <2>1. CountMsg(i, "reject", r) = 0
    BY <1>1, <1>8 DEF Reckoned
  <2> QED BY <2>1, <1>2, <1>3
<1> QED BY <1>6, <1>7, <1>8

LEMMA GetPieceStep ==
  ASSUME WireInv, NEW k \in Conns, GetPiece(k)
  PROVE  WireInv'
<1> USE DEF WireInv
<1> DEFINE a == asking[k]
           r == Head(in[k]).r
           new == r \notin gotChunks /\ pieceState # "complete"
           b == [a EXCEPT !.expect[r] = @ - 1, !.reqs = @ \ {r}, !.cancelled = @ \ {r}]
<1>1. /\ k \in open /\ in[k] \in Seq(FromServer) /\ in[k] # <<>>
      /\ Head(in[k]) \in FromServer /\ Head(in[k]).type = "piece"
      /\ in' \in [Conns -> Seq(FromServer)] /\ in'[k] = Tail(in[k])
      /\ \A o \in Conns \ {k} : in'[o] = in[o]
  BY ReadIs DEF GetPiece
<1>2. r \in WireChunks /\ Head(in[k]) = Msg("piece", r)
  BY <1>1 DEF FromServer, Msg
<1>3. UNCHANGED <<serving, staleReads>>
  BY DEF GetPiece
<1>4. CASE a.expect[r] = 0
  <2>1. Ended(k) /\ errors' = errors \cup {k} /\ UNCHANGED out
    BY <1>4 DEF GetPiece
  <2>2. k \in staleReads
    BY <1>1, <1>2, <1>4, HeadExpected
  <2>3. NoQuarrel'
    BY <1>3, <2>1, <2>2 DEF NoQuarrel
  <2> QED BY <1>1, <1>3, <2>1, <2>3, EndedKeeps
<1>5. CASE a.expect[r] # 0
  <2>1. /\ asking' = [o \in Conns |-> IF o = k THEN NeedIfLow(b, "other")
                        ELSE IF new THEN CancelAll(o, asking[o], Owned(o, {r})) ELSE asking[o]]
        /\ out' = [o \in Conns |-> IF o # k /\ new THEN Sends(out[o], "cancel", Owned(o, {r})) ELSE out[o]]
        /\ requester' = [requester EXCEPT ![r] = IF new \/ @ = k THEN "none" ELSE @]
        /\ UNCHANGED <<errors, open>>
    BY <1>5 DEF GetPiece
  <2>2. \A o \in Conns : asking[o] \in AskRec /\ out[o] \in Seq(ToServer) /\ in[o] \in Seq(FromServer)
    BY DEF WireShape
  <2>3. a.expect[r] \in Nat /\ a.expect[r] > 0 /\ a.expect \in [WireChunks -> Nat]
    <3>1. a.expect[r] \in Nat /\ a.expect \in [WireChunks -> Nat]
      BY <1>2, <2>2, AskIs
    <3> QED BY <1>5, <3>1
  <2>4. /\ b \in AskRec /\ b.reqs = a.reqs \ {r} /\ b.cancelled = a.cancelled \ {r}
        /\ b.expect = [a.expect EXCEPT ![r] = @ - 1]
    <3>1. [a.expect EXCEPT ![r] = @ - 1] \in [WireChunks -> Nat]
      BY <1>2, <2>3, OneLess
    <3>2. a \in AskRec
      BY <2>2
    <3> HIDE DEF a, r
    <3> QED BY <3>1, <3>2 DEF AskRec
  <2> HIDE DEF b
  <2>5. asking'[k] = NeedIfLow(b, "other") /\ Alike(asking'[k], b)
    BY <2>1, <2>4, NeedKeeps
  <2>6. \A o \in Conns : Owned(o, {r}) \subseteq asking[o].reqs /\ Owned(o, {r}) \in SUBSET WireChunks
    BY <1>2 DEF Owned, Agreed
  <2>7. \A o \in Conns \ {k} : /\ new => asking'[o] = CancelAll(o, asking[o], Owned(o, {r}))
                               /\ ~new => asking'[o] = asking[o]
    BY <2>1
  <2>8. \A o \in Conns \ {k} : /\ new => Dropped(asking'[o], o, asking[o], Owned(o, {r}))
                               /\ ~new => Alike(asking'[o], asking[o])
    BY <2>2, <2>6, <2>7, CancelIs DEF Alike
  <2>9. /\ out'[k] = out[k]
        /\ \A o \in Conns \ {k} : /\ new => out'[o] = Sends(out[o], "cancel", Owned(o, {r}))
                                  /\ ~new => out'[o] = out[o]
    BY <2>1
  <2>10. WireShape'
    <3>1. \A o \in Conns : asking'[o] \in AskRec
      BY <2>5, <2>8 DEF Dropped, Alike
    <3>2. \A o \in Conns : out'[o] \in Seq(ToServer)
      <4>1. \A o \in Conns : Sends(out[o], "cancel", Owned(o, {r})) \in Seq(ToServer)
        BY <2>2, <2>6, SendsIs
      <4> QED BY <2>2, <2>9, <4>1
    <3>3. asking' \in [Conns -> AskRec] /\ out' \in [Conns -> Seq(ToServer)]
      BY <2>1, <3>1, <3>2
    <3>4. requester' \in [WireChunks -> Conns \cup {"none"}]
      BY <2>1, <1>2 DEF WireShape
    <3> QED BY <1>1, <1>3, <2>1, <3>3, <3>4 DEF WireShape
  <2>11. Agreed'
    <3> SUFFICES ASSUME NEW o \in Conns, NEW x \in WireChunks
                 PROVE  x \in asking'[o].reqs <=> requester'[x] = o
      BY DEF Agreed
    <3>1. requester'[x] = IF x = r /\ (new \/ requester[x] = k) THEN "none" ELSE requester[x]
      BY <2>1, <1>2 DEF WireShape
    <3>2. x \in asking[o].reqs <=> requester[x] = o
      BY DEF Agreed
    <3>3. CASE o = k
      <4>1. asking'[k].reqs = a.reqs \ {r}
        BY <2>4, <2>5 DEF Alike
      <4> QED BY <3>1, <3>2, <3>3, <4>1, WireAssumption
    <3>4. CASE o # k /\ new
      <4>1. asking'[o].reqs = asking[o].reqs \ Owned(o, {r})
        BY <2>8, <3>4 DEF Dropped
      <4>2. x \in Owned(o, {r}) <=> x = r /\ requester[x] = o
        BY DEF Owned
      <4> QED BY <3>1, <3>2, <3>4, <4>1, <4>2, WireAssumption
    <3>5. CASE o # k /\ ~new
      <4>1. asking'[o].reqs = asking[o].reqs
        BY <2>8, <3>5 DEF Alike
      <4> QED BY <3>1, <3>2, <3>5, <4>1, WireAssumption
    <3> QED BY <3>3, <3>4, <3>5
  <2>12. Apart'
    <3> SUFFICES ASSUME NEW o \in Conns
                 PROVE  asking'[o].reqs \cap asking'[o].cancelled = {}
      BY DEF Apart
    <3>1. CASE o = k
      BY <2>4, <2>5, <3>1 DEF Apart, Alike
    <3>2. CASE o # k
      BY <2>8, <3>2 DEF Apart, Alike, Dropped
    <3> QED BY <3>1, <3>2
  <2>13. ClosedAskNothing'
    BY <1>1, <2>1, <2>8 DEF ClosedAskNothing, Dropped, Alike
  <2>14. AllReckoned'
    <3> SUFFICES ASSUME NEW o \in open
                 PROVE  Reckoned(o, asking'[o], serving[o], out'[o], in'[o], staleReads)
      BY <1>3, <2>1 DEF AllReckoned
    <3>1. o \in Conns /\ Reckoned(o, asking[o], serving[o], out[o], in[o], staleReads)
      BY DEF AllReckoned, WireShape
    <3>2. CASE o = k
      <4>1. Reckoned(k, b, serving[k], out[k], Tail(in[k]), staleReads)
        BY <3>1, <3>2, <1>1, <1>2, <2>2, <2>3, <2>4, AnswerReckoned
      <4> QED BY <3>2, <4>1, <1>1, <2>5, <2>9, AlikeReckoned
    <3>3. CASE o # k /\ new
      <4>1. /\ asking'[o] = CancelAll(o, asking[o], Owned(o, {r})) /\ in'[o] = in[o]
            /\ out'[o] = Sends(out[o], "cancel", Owned(o, {r}))
        BY <3>1, <3>3, <1>1, <2>7, <2>9
      <4> HIDE DEF r
      <4>2. Reckoned(o, CancelAll(o, asking[o], Owned(o, {r})), serving[o],
                     Sends(out[o], "cancel", Owned(o, {r})), in[o], staleReads)
        BY <3>1, <2>2, <2>6, CancelReckoned
      <4> QED BY <4>1, <4>2
    <3>4. CASE o # k /\ ~new
      BY <3>1, <3>4, <1>1, <2>7, <2>9
    <3> QED BY <3>2, <3>3, <3>4
  <2> QED BY <1>3, <2>1, <2>10, <2>11, <2>12, <2>13, <2>14 DEF NoQuarrel
<1> QED BY <1>4, <1>5

LEMMA GetRejectStep ==
  ASSUME WireInv, NEW k \in Conns, GetReject(k)
  PROVE  WireInv'
<1> USE DEF WireInv
<1> DEFINE a == asking[k]
           r == Head(in[k]).r
           b == [a EXCEPT !.expect[r] = @ - 1, !.reqs = @ \ {r},
                          !.cancelled = IF r \in a.reqs THEN @ ELSE @ \ {r}]
<1>1. /\ k \in open /\ in[k] \in Seq(FromServer) /\ in[k] # <<>>
      /\ Head(in[k]) \in FromServer /\ Head(in[k]).type = "reject"
      /\ in' \in [Conns -> Seq(FromServer)] /\ in'[k] = Tail(in[k])
      /\ \A o \in Conns \ {k} : in'[o] = in[o]
  BY ReadIs DEF GetReject
<1>2. r \in WireChunks /\ Head(in[k]) = Msg("reject", r)
  BY <1>1 DEF FromServer, Msg
<1>3. UNCHANGED <<serving, staleReads, out>>
  BY DEF GetReject
<1>6. \A o \in Conns : asking[o] \in AskRec /\ out[o] \in Seq(ToServer) /\ in[o] \in Seq(FromServer)
  BY DEF WireShape
<1>4. CASE r \notin a.reqs \cup a.cancelled
  <2>1. Ended(k) /\ errors' = errors \cup {k}
    BY <1>4 DEF GetReject
  <2>2. k \in staleReads
    <3> SUFFICES ASSUME k \notin staleReads PROVE FALSE
      OBVIOUS
    <3>1. ~Fast(k) => Msg("reject", r) = Msg("piece", r)
      BY <1>1, <1>2, HeadExpected
    <3>2. Fast(k)
      BY <3>1 DEF Msg
    <3> QED BY <3>2, <1>1, <1>2, <1>4, HeadExpected
  <2>3. NoQuarrel'
    BY <1>3, <2>1, <2>2 DEF NoQuarrel
  <2> QED BY <1>1, <1>3, <2>1, <2>3, EndedKeeps
<1>5. CASE r \in a.reqs \cup a.cancelled
  <2>1. /\ asking' = [asking EXCEPT ![k] = NeedIfLow(b, "reject")]
        /\ requester' = [requester EXCEPT ![r] = IF r \in a.reqs THEN "none" ELSE @]
        /\ UNCHANGED <<errors, open>>
    BY <1>5 DEF GetReject
  <2>2. Reckoned(k, a, serving[k], out[k], in[k], staleReads)
    BY <1>1 DEF AllReckoned
  <2>3. a.expect[r] \in Nat /\ a.expect[r] > 0 /\ a.expect \in [WireChunks -> Nat]
    <3>1. a.expect[r] \in Nat /\ a.expect \in [WireChunks -> Nat]
      BY <1>2, <1>6, AskIs
    <3>2. a.expect[r] > 0
      BY <1>2, <1>5, <2>2 DEF Reckoned
    <3> QED BY <3>1, <3>2
  <2>4. /\ b \in AskRec /\ b.reqs = a.reqs \ {r} /\ b.cancelled = a.cancelled \ {r}
        /\ b.expect = [a.expect EXCEPT ![r] = @ - 1]
    <3>1. [a.expect EXCEPT ![r] = @ - 1] \in [WireChunks -> Nat]
      BY <1>2, <2>3, OneLess
    <3>2. a \in AskRec /\ a.reqs \cap a.cancelled = {}
      BY <1>6 DEF Apart
    <3>3. a.cancelled \ {r} = IF r \in a.reqs THEN a.cancelled ELSE a.cancelled \ {r}
      BY <3>2
    <3> HIDE DEF a, r
    <3> QED BY <3>1, <3>2, <3>3 DEF AskRec
  <2> HIDE DEF b
  <2>5. asking'[k] = NeedIfLow(b, "reject") /\ Alike(asking'[k], b)
    BY <2>1, <2>4, NeedKeeps DEF WireShape
  <2>7. \A o \in Conns \ {k} : asking'[o] = asking[o]
    BY <2>1 DEF WireShape
  <2>10. WireShape'
    <3>1. asking' \in [Conns -> AskRec]
      BY <2>1, <2>5 DEF Alike, WireShape
    <3>4. requester' \in [WireChunks -> Conns \cup {"none"}]
      BY <2>1, <1>2 DEF WireShape
    <3> QED BY <1>1, <1>3, <2>1, <3>1, <3>4 DEF WireShape
  <2>11. Agreed'
    <3> SUFFICES ASSUME NEW o \in Conns, NEW x \in WireChunks
                 PROVE  x \in asking'[o].reqs <=> requester'[x] = o
      BY DEF Agreed
    <3>1. requester'[x] = IF x = r /\ r \in a.reqs THEN "none" ELSE requester[x]
      BY <2>1, <1>2 DEF WireShape
    <3>2. (x \in asking[o].reqs <=> requester[x] = o) /\ (r \in a.reqs <=> requester[r] = k)
      BY <1>2 DEF Agreed
    <3>3. CASE o = k
      <4>1. asking'[k].reqs = a.reqs \ {r}
        BY <2>4, <2>5 DEF Alike
      <4> QED BY <3>1, <3>2, <3>3, <4>1, WireAssumption
    <3>4. CASE o # k
      BY <2>7, <3>1, <3>2, <3>4, WireAssumption
    <3> QED BY <3>3, <3>4
  <2>12. Apart'
    BY <2>4, <2>5, <2>7 DEF Apart, Alike
  <2>13. ClosedAskNothing'
    BY <1>1, <2>1, <2>7 DEF ClosedAskNothing
  <2>14. AllReckoned'
    <3> SUFFICES ASSUME NEW o \in open
                 PROVE  Reckoned(o, asking'[o], serving[o], out[o], in'[o], staleReads)
      BY <1>3, <2>1 DEF AllReckoned
    <3>1. o \in Conns /\ Reckoned(o, asking[o], serving[o], out[o], in[o], staleReads)
      BY DEF AllReckoned, WireShape
    <3>2. CASE o = k
      <4>1. Reckoned(k, b, serving[k], out[k], Tail(in[k]), staleReads)
        BY <2>2, <1>1, <1>2, <1>6, <2>3, <2>4, AnswerReckoned
      <4> QED BY <3>2, <4>1, <1>1, <2>5, AlikeReckoned
    <3>4. CASE o # k
      BY <3>1, <3>4, <1>1, <2>7
    <3> QED BY <3>2, <3>4
  <2> QED BY <1>3, <2>1, <2>10, <2>11, <2>12, <2>13, <2>14 DEF NoQuarrel
<1> QED BY <1>4, <1>5

\* Nothing but the reason to plan changes at this end.
LEMMA AskAgain ==
  ASSUME WireInv, asking' \in [Conns -> AskRec], \A o \in Conns : Alike(asking'[o], asking[o]),
         UNCHANGED <<requester, serving, out, open, errors, staleReads>>,
         in' \in [Conns -> Seq(FromServer)],
         \A o \in open : Reckoned(o, asking[o], serving[o], out[o], in'[o], staleReads)
  PROVE  WireInv'
<1> USE DEF WireInv
<1>1. WireShape'
  BY DEF WireShape
<1>2. Agreed' /\ Apart' /\ ClosedAskNothing'
  BY DEF Agreed, Apart, ClosedAskNothing, Alike
<1>3. AllReckoned'
  <2> SUFFICES ASSUME NEW o \in open
               PROVE  Reckoned(o, asking'[o], serving[o], out[o], in'[o], staleReads)
    BY DEF AllReckoned
  <2>1. o \in Conns
    BY DEF WireShape
  <2> QED BY <2>1, AlikeReckoned
<1> QED BY <1>1, <1>2, <1>3 DEF NoQuarrel

LEMMA GetUnchokeStep ==
  ASSUME WireInv, NEW k \in Conns, GetUnchoke(k)
  PROVE  WireInv'
<1> DEFINE b == [asking[k] EXCEPT !.choked = FALSE]
<1>1. /\ k \in open /\ in[k] \in Seq(FromServer) /\ in[k] # <<>> /\ Head(in[k]).type = "unchoke"
      /\ in' \in [Conns -> Seq(FromServer)] /\ in'[k] = Tail(in[k])
      /\ \A o \in Conns \ {k} : in'[o] = in[o]
  BY ReadIs DEF GetUnchoke, WireInv
<1>2. asking \in [Conns -> AskRec] /\ asking[k] \in AskRec
  BY DEF WireInv, WireShape
<1>3. b \in AskRec /\ Alike(b, asking[k])
  BY <1>2 DEF AskRec, Alike
<1>4. asking' = [asking EXCEPT ![k] = b] \/ asking' = [asking EXCEPT ![k] = Need(b, "other")]
  BY DEF GetUnchoke
<1> HIDE DEF b
<1>5. Alike(Need(b, "other"), b)
  BY <1>3, NeedKeeps
<1>6. asking' \in [Conns -> AskRec] /\ \A o \in Conns : Alike(asking'[o], asking[o])
  BY <1>2, <1>3, <1>4, <1>5 DEF Alike
<1>7. ASSUME NEW o \in open
      PROVE  Reckoned(o, asking[o], serving[o], out[o], in'[o], staleReads)
  <2>1. o \in Conns /\ Reckoned(o, asking[o], serving[o], out[o], in[o], staleReads)
    BY DEF WireInv, AllReckoned, WireShape
  <2>2. CASE o = k
    BY <1>1, <2>1, <2>2, SkipReckoned
  <2>3. CASE o # k
    BY <1>1, <2>1, <2>3
  <2> QED BY <2>2, <2>3
<1>8. UNCHANGED <<requester, serving, out, open, errors, staleReads>>
  BY DEF GetUnchoke
<1> QED BY <1>1, <1>6, <1>7, <1>8, AskAgain

LEMMA PlanAgainStep ==
  ASSUME WireInv, (\E pass \in BOOLEAN : HashPiece(pass)) \/ AllowDownload
  PROVE  WireInv'
<1>1. asking \in [Conns -> AskRec] /\ in \in [Conns -> Seq(FromServer)]
  BY DEF WireInv, WireShape
<1>2. /\ asking' = asking \/ asking' = [k \in Conns |-> Need(asking[k], "other")]
      /\ UNCHANGED <<requester, serving, out, open, errors, staleReads, in>>
  <2>1. CASE AllowDownload
    BY <2>1 DEF AllowDownload
  <2>2. ASSUME NEW pass \in BOOLEAN, HashPiece(pass)
        PROVE  /\ asking' = asking \/ asking' = [k \in Conns |-> Need(asking[k], "other")]
               /\ UNCHANGED <<requester, serving, out, open, errors, staleReads, in>>
    <3>1. asking' = [k \in Conns |-> IF pass THEN asking[k] ELSE Need(asking[k], "other")]
      BY <2>2 DEF HashPiece
    <3>2. CASE pass
      BY <1>1, <2>2, <3>1, <3>2 DEF HashPiece
    <3>3. CASE ~pass
      BY <2>2, <3>1, <3>3 DEF HashPiece
    <3> QED BY <3>2, <3>3
  <2> QED BY <2>1, <2>2
<1>3. \A k \in Conns : Alike(asking[k], asking[k]) /\ Alike(Need(asking[k], "other"), asking[k])
  BY <1>1, NeedKeeps DEF Alike
<1>4. asking' \in [Conns -> AskRec] /\ \A o \in Conns : Alike(asking'[o], asking[o])
  BY <1>1, <1>2, <1>3 DEF Alike
<1>5. \A o \in open : Reckoned(o, asking[o], serving[o], out[o], in'[o], staleReads)
  BY <1>2 DEF WireInv, AllReckoned
<1> QED BY <1>1, <1>2, <1>4, <1>5, AskAgain

LEMMA GetChokeStep ==
  ASSUME WireInv, NEW k \in Conns, GetChoke(k)
  PROVE  WireInv'
<1> USE DEF WireInv
<1> DEFINE a == asking[k]
           drops == ~a.choked /\ ~Fast(k)
           b == [a EXCEPT !.choked = TRUE, !.reqs = IF drops THEN {} ELSE @]
<1>1. /\ k \in open /\ in[k] \in Seq(FromServer) /\ in[k] # <<>> /\ Head(in[k]).type = "choke"
      /\ in' \in [Conns -> Seq(FromServer)] /\ in'[k] = Tail(in[k])
      /\ \A o \in Conns \ {k} : in'[o] = in[o]
  BY ReadIs DEF GetChoke
<1>2. UNCHANGED <<serving, out, open, errors, staleReads>>
  BY DEF GetChoke
<1>3. \A o \in Conns : asking[o] \in AskRec
  BY DEF WireShape
<1>4. asking' = [o \in Conns |-> IF drops /\ a.reqs # {}
                                  THEN NeedIfLow(IF o = k THEN b ELSE asking[o], "other")
                                  ELSE IF o = k THEN b ELSE asking[o]]
  BY DEF GetChoke
<1>5. requester' = [r \in WireChunks |-> IF drops /\ requester[r] = k THEN "none" ELSE requester[r]]
  BY DEF GetChoke
<1>6. /\ b \in AskRec /\ b.cancelled = a.cancelled /\ b.expect = a.expect
      /\ drops => b.reqs = {}
      /\ ~drops => b.reqs = a.reqs
  <2>1. a \in AskRec
    BY <1>3
  <2> QED BY <2>1 DEF AskRec
<1> HIDE DEF b
<1>7. Alike(asking'[k], b) /\ \A o \in Conns \ {k} : Alike(asking'[o], asking[o])
  <2>1. Alike(NeedIfLow(b, "other"), b) /\ Alike(b, b)
    BY <1>6, NeedKeeps DEF Alike
  <2>2. \A o \in Conns : Alike(NeedIfLow(asking[o], "other"), asking[o]) /\ Alike(asking[o], asking[o])
    BY <1>3, NeedKeeps DEF Alike
  <2>3. asking'[k] = NeedIfLow(b, "other") \/ asking'[k] = b
    BY <1>4
  <2>4. \A o \in Conns \ {k} : asking'[o] = NeedIfLow(asking[o], "other") \/ asking'[o] = asking[o]
    BY <1>4
  <2> QED BY <2>1, <2>2, <2>3, <2>4
<1>8. WireShape'
  <2>1. \A o \in Conns : asking'[o] \in AskRec
    BY <1>7 DEF Alike
  <2>2. asking' \in [Conns -> AskRec]
    BY <1>4, <2>1
  <2>3. requester' \in [WireChunks -> Conns \cup {"none"}]
    BY <1>5 DEF WireShape
  <2> QED BY <1>1, <1>2, <2>2, <2>3 DEF WireShape
<1>9. Agreed'
  <2> SUFFICES ASSUME NEW o \in Conns, NEW x \in WireChunks
               PROVE  x \in asking'[o].reqs <=> requester'[x] = o
    BY DEF Agreed
  <2>1. (x \in asking[o].reqs <=> requester[x] = o)
    BY DEF Agreed
  <2>2. requester'[x] = IF drops /\ requester[x] = k THEN "none" ELSE requester[x]
    BY <1>5
  <2>3. CASE o = k
    <3>1. asking'[o].reqs = b.reqs
      BY <1>7, <2>3 DEF Alike
    <3> QED BY <2>1, <2>2, <2>3, <3>1, <1>6, WireAssumption
  <2>4. CASE o # k
    <3>1. asking'[o].reqs = asking[o].reqs
      BY <1>7, <2>4 DEF Alike
    <3> QED BY <2>1, <2>2, <2>4, <3>1, WireAssumption
  <2> QED BY <2>3, <2>4
<1>10. Apart' /\ ClosedAskNothing'
  <2>1. Apart'
    BY <1>6, <1>7 DEF Apart, Alike
  <2>2. ClosedAskNothing'
    BY <1>1, <1>2, <1>7 DEF ClosedAskNothing, Alike
  <2> QED BY <2>1, <2>2
<1>11. AllReckoned'
  <2> SUFFICES ASSUME NEW o \in open
               PROVE  Reckoned(o, asking'[o], serving[o], out[o], in'[o], staleReads)
    BY <1>2 DEF AllReckoned
  <2>1. o \in Conns /\ Reckoned(o, asking[o], serving[o], out[o], in[o], staleReads)
    BY DEF AllReckoned, WireShape
  <2>2. CASE o = k
    <3>1. Reckoned(k, a, serving[k], out[k], Tail(in[k]), staleReads)
      BY <1>1, <2>1, <2>2, SkipReckoned
    <3>2. Reckoned(k, b, serving[k], out[k], Tail(in[k]), staleReads)
      BY <3>1, <1>6 DEF Reckoned
    <3> QED BY <2>2, <3>2, <1>1, <1>7, AlikeReckoned
  <2>3. CASE o # k
    BY <1>1, <1>7, <2>1, <2>3, AlikeReckoned
  <2> QED BY <2>2, <2>3
<1> QED BY <1>2, <1>8, <1>9, <1>10, <1>11 DEF NoQuarrel

LEMMA DisallowStep ==
  ASSUME WireInv, DisallowDownload
  PROVE  WireInv'
<1> USE DEF WireInv
<1>1. /\ asking' = [k \in Conns |-> CancelAll(k, Need(asking[k], "other"), asking[k].reqs)]
      /\ out' = [k \in Conns |-> Sends(out[k], "cancel", asking[k].reqs)]
      /\ requester' = [r \in WireChunks |-> "none"]
      /\ UNCHANGED <<serving, in, open, errors, staleReads>>
  BY DEF DisallowDownload
<1>2. \A k \in Conns : asking[k] \in AskRec /\ out[k] \in Seq(ToServer) /\ in[k] \in Seq(FromServer)
  BY DEF WireShape
<1>3. \A k \in Conns : /\ Alike(Need(asking[k], "other"), asking[k])
                       /\ asking[k].reqs \in SUBSET WireChunks
  BY <1>2, NeedKeeps, AskIs
<1>4. \A k \in Conns : /\ Need(asking[k], "other") \in AskRec
                       /\ asking[k].reqs = Need(asking[k], "other").reqs
  BY <1>3 DEF Alike
<1>5. ASSUME NEW k \in Conns
      PROVE  Dropped(asking'[k], k, Need(asking[k], "other"), asking[k].reqs)
  <2>1. asking'[k] = CancelAll(k, Need(asking[k], "other"), asking[k].reqs)
    BY <1>1
  <2> QED BY <1>4, <2>1, CancelIs
<1>6. \A k \in Conns : asking'[k] \in AskRec /\ asking'[k].reqs = {}
  BY <1>4, <1>5 DEF Dropped
<1>7. WireShape'
  <2>1. asking' \in [Conns -> AskRec]
    BY <1>1, <1>6
  <2>2. \A k \in Conns : Sends(out[k], "cancel", asking[k].reqs) \in Seq(ToServer)
    BY <1>2, <1>3, SendsIs
  <2>3. out' \in [Conns -> Seq(ToServer)]
    BY <1>1, <2>2
  <2> QED BY <1>1, <2>1, <2>3 DEF WireShape
<1>8. Agreed'
  BY <1>1, <1>6, WireAssumption DEF Agreed
<1>9. Apart' /\ ClosedAskNothing'
  BY <1>1, <1>6 DEF Apart, ClosedAskNothing
<1>10. AllReckoned'
  <2> SUFFICES ASSUME NEW o \in open
               PROVE  Reckoned(o, asking'[o], serving[o], out'[o], in[o], staleReads)
    BY <1>1 DEF AllReckoned
  <2>1. o \in Conns /\ Reckoned(o, asking[o], serving[o], out[o], in[o], staleReads)
    BY DEF AllReckoned, WireShape
  <2>2. Reckoned(o, Need(asking[o], "other"), serving[o], out[o], in[o], staleReads)
    BY <1>3, <2>1, AlikeReckoned
  <2>3. asking'[o] = CancelAll(o, Need(asking[o], "other"), asking[o].reqs)
        /\ out'[o] = Sends(out[o], "cancel", asking[o].reqs)
    BY <1>1, <2>1
  <2>4. asking[o].reqs \subseteq Need(asking[o], "other").reqs
    BY <1>4, <2>1
  <2> QED BY <1>2, <1>4, <2>1, <2>2, <2>3, <2>4, CancelReckoned
<1> QED BY <1>1, <1>7, <1>8, <1>9, <1>10 DEF NoQuarrel

LEMMA DropStep ==
  ASSUME WireInv, NEW k \in Conns, DropConn(k)
  PROVE  WireInv'
<1>1. Ended(k) /\ UNCHANGED <<serving, out, in, errors, staleReads>>
  BY DEF DropConn
<1>2. in' \in [Conns -> Seq(FromServer)] /\ (\A o \in Conns \ {k} : in'[o] = in[o]) /\ NoQuarrel'
  BY <1>1 DEF WireInv, WireShape, NoQuarrel
<1> QED BY <1>1, <1>2, EndedKeeps

-----------------------------------------------------------------------------
(* The uploading end.                                                      *)

\* What is on its way is a number, made of four.
LEMMA WayIs ==
  ASSUME NEW r, NEW v, NEW o \in Seq(ToServer), NEW i \in Seq(FromServer)
  PROVE  /\ CountMsg(o, "request", r) \in Nat /\ CountMsg(i, "piece", r) \in Nat
         /\ CountMsg(i, "reject", r) \in Nat /\ OnWay(r, v, o, i) \in Nat
         /\ r \in HeldHere(v) => OnWay(r, v, o, i) = CountMsg(o, "request", r) + 1
                                    + CountMsg(i, "piece", r) + CountMsg(i, "reject", r)
         /\ r \notin HeldHere(v) => OnWay(r, v, o, i) = CountMsg(o, "request", r)
                                    + CountMsg(i, "piece", r) + CountMsg(i, "reject", r)
<1>1. /\ CountMsg(o, "request", r) \in Nat /\ CountMsg(i, "piece", r) \in Nat
      /\ CountMsg(i, "reject", r) \in Nat
  BY CountsAre
<1>2. CASE r \in HeldHere(v)
  <2>1. OnWay(r, v, o, i) = CountMsg(o, "request", r) + 1 + CountMsg(i, "piece", r) + CountMsg(i, "reject", r)
    BY <1>2 DEF OnWay
  <2> QED BY <1>1, <1>2, <2>1
<1>3. CASE r \notin HeldHere(v)
  <2>1. OnWay(r, v, o, i) = CountMsg(o, "request", r) + 0 + CountMsg(i, "piece", r) + CountMsg(i, "reject", r)
    BY <1>3 DEF OnWay
  <2> QED BY <1>1, <1>3, <2>1
<1> QED BY <1>2, <1>3

Here(r, v) == IF r \in HeldHere(v) THEN 1 ELSE 0
LEMMA HereIs ==
  ASSUME NEW r, NEW v
  PROVE  Here(r, v) \in {0, 1} /\ (Here(r, v) = 1 <=> r \in HeldHere(v))
BY DEF Here

LEMMA WayMoves ==
  ASSUME NEW r, NEW v, NEW o, NEW i, NEW w, NEW p, NEW j
  PROVE  /\ CountMsg(p, "request", r) + Here(r, w) + CountMsg(j, "piece", r) + CountMsg(j, "reject", r)
            = CountMsg(o, "request", r) + Here(r, v) + CountMsg(i, "piece", r) + CountMsg(i, "reject", r)
            => OnWay(r, w, p, j) = OnWay(r, v, o, i)
         /\ CountMsg(p, "request", r) + Here(r, w) + CountMsg(j, "piece", r) + CountMsg(j, "reject", r)
            <= CountMsg(o, "request", r) + Here(r, v) + CountMsg(i, "piece", r) + CountMsg(i, "reject", r)
            => OnWay(r, w, p, j) <= OnWay(r, v, o, i)
BY DEF Here, OnWay

\* With the fast extension nothing is lost on the way; without it nothing is made up.
Conserves(k, v, o, i, w, p, j, S) ==
  /\ Fast(k) => k \in S \/ \A r \in WireChunks : OnWay(r, w, p, j) = OnWay(r, v, o, i)
  /\ ~Fast(k) => \A r \in WireChunks : /\ OnWay(r, w, p, j) <= OnWay(r, v, o, i)
                                       /\ CountMsg(j, "reject", r) = CountMsg(i, "reject", r)

LEMMA OtherEnd ==
  ASSUME WireInv, NEW k \in Conns, NEW w \in ServeRec, Serves(w),
         NEW p \in Seq(ToServer), NEW j \in Seq(FromServer),
         k \in open => Conserves(k, serving[k], out[k], in[k], w, p, j, staleReads'),
         serving' = [serving EXCEPT ![k] = w], out' = [out EXCEPT ![k] = p],
         in' = [in EXCEPT ![k] = j], staleReads \subseteq staleReads', NoQuarrel',
         UNCHANGED <<asking, requester, open>>
  PROVE  WireInv'
<1> USE DEF WireInv
<1>1. WireShape'
  BY DEF WireShape
<1>2. \A o \in Conns : Serves(serving'[o])
  BY DEF WireShape
<1>3. Agreed' /\ Apart' /\ ClosedAskNothing'
  BY DEF Agreed, Apart, ClosedAskNothing
<1>4. AllReckoned'
  <2> SUFFICES ASSUME NEW o \in open
               PROVE  Reckoned(o, asking[o], serving'[o], out'[o], in'[o], staleReads')
    BY DEF AllReckoned
  <2>1. o \in Conns /\ Reckoned(o, asking[o], serving[o], out[o], in[o], staleReads) /\ asking[o] \in AskRec
        /\ out[o] \in Seq(ToServer) /\ in[o] \in Seq(FromServer)
    BY DEF AllReckoned, WireShape
  <2>2. CASE o # k
    <3>1. serving'[o] = serving[o] /\ out'[o] = out[o] /\ in'[o] = in[o]
      BY <2>1, <2>2 DEF WireShape
    <3> QED BY <2>1, <3>1 DEF Reckoned
  <2>3. CASE o = k
    <3>1. serving'[k] = w /\ out'[k] = p /\ in'[k] = j
      BY DEF WireShape
    <3>2. \A r \in WireChunks : OnWay(r, w, p, j) \in Nat /\ OnWay(r, serving[k], out[k], in[k]) \in Nat
      BY <2>1, <2>3, WayIs
    <3>3. \A r \in WireChunks : asking[k].expect[r] \in Nat
      BY <2>1, <2>3, AskIs
    <3>4. Reckoned(k, asking[k], w, p, j, staleReads')
      <4> SUFFICES ASSUME NEW r \in WireChunks
                   PROVE  /\ Fast(k) => /\ asking[k].expect[r] = IF r \in asking[k].reqs \cup asking[k].cancelled THEN 1 ELSE 0
                                        /\ k \in staleReads' \/ asking[k].expect[r] = OnWay(r, w, p, j)
                          /\ ~Fast(k) => /\ r \notin asking[k].cancelled /\ (r \in asking[k].reqs => asking[k].expect[r] > 0)
                                         /\ asking[k].expect[r] >= OnWay(r, w, p, j) /\ CountMsg(j, "reject", r) = 0
        BY DEF Reckoned
      <4>1. CASE Fast(k)
        BY <2>1, <2>3, <4>1 DEF Reckoned, Conserves
      <4>2. CASE ~Fast(k)
        <5>1. asking[k].expect[r] >= OnWay(r, serving[k], out[k], in[k])
          BY <2>1, <2>3, <4>2 DEF Reckoned
        <5>2. OnWay(r, w, p, j) <= OnWay(r, serving[k], out[k], in[k])
          BY <2>3, <4>2 DEF Conserves
        <5> QED BY <2>1, <2>3, <3>2, <3>3, <4>2, <5>1, <5>2 DEF Reckoned, Conserves
      <4> QED BY <4>1, <4>2
    <3> QED BY <2>3, <3>1, <3>4
  <2> QED BY <2>2, <2>3
<1> QED BY <1>1, <1>2, <1>3, <1>4

LEMMA AnswerIs ==
  ASSUME NEW i \in Seq(FromServer), NEW m \in FromServer
  PROVE  /\ Append(i, m) \in Seq(FromServer)
         /\ \A r : /\ CountMsg(Append(i, m), "piece", r) = CountMsg(i, "piece", r) + (IF m = Msg("piece", r) THEN 1 ELSE 0)
                   /\ CountMsg(Append(i, m), "reject", r) = CountMsg(i, "reject", r) + (IF m = Msg("reject", r) THEN 1 ELSE 0)
BY CountAppend

LEMMA ServeRecIs ==
  ASSUME WireInv, NEW k \in Conns
  PROVE  /\ serving[k] \in ServeRec /\ Serves(serving[k]) /\ serving \in [Conns -> ServeRec]
         /\ out[k] \in Seq(ToServer) /\ in[k] \in Seq(FromServer)
         /\ out = [out EXCEPT ![k] = out[k]] /\ in = [in EXCEPT ![k] = in[k]]
         /\ IsFiniteSet(serving[k].ready) /\ IsFiniteSet(serving[k].unread)
         /\ Cardinality(serving[k].ready) \in Nat
<1>1. serving[k] \in ServeRec
  BY DEF WireInv, WireShape
<1>2. serving[k].ready \in SUBSET WireChunks /\ serving[k].unread \in SUBSET WireChunks
  BY <1>1 DEF ServeRec
<1>3. IsFiniteSet(serving[k].ready) /\ IsFiniteSet(serving[k].unread)
  BY <1>2, ChunksFinite
<1> QED BY <1>1, <1>3, FS_CardinalityType DEF WireInv, WireShape

LEMMA OneMore ==
  ASSUME NEW S, IsFiniteSet(S), NEW x
  PROVE  /\ IsFiniteSet(S \cup {x}) /\ Cardinality(S \cup {x}) \in Nat /\ Cardinality(S) \in Nat
         /\ Cardinality(S \cup {x}) <= Cardinality(S) + 1
         /\ x \notin S => Cardinality(S \cup {x}) = Cardinality(S) + 1
<1>1. IsFiniteSet(S \cup {x})
      /\ Cardinality(S \cup {x}) = IF x \in S THEN Cardinality(S) ELSE Cardinality(S) + 1
  BY FS_AddElement
<1>2. Cardinality(S) \in Nat /\ Cardinality(S \cup {x}) \in Nat
  BY <1>1, FS_CardinalityType
<1> QED BY <1>1, <1>2

LEMMA ServeReadStep ==
  ASSUME WireInv, NEW k \in Conns, NEW r \in WireChunks, ServeRead(k, r) \/ ServeReady(k, r)
  PROVE  WireInv'
<1> DEFINE v == serving[k]
           w == [v EXCEPT !.reading = {r}]
           x == [v EXCEPT !.reading = {}, !.ready = IF r \in v.unread THEN @ \cup {r} ELSE @, !.unread = @ \ {r}]
<1>1. /\ v \in ServeRec /\ Serves(v) /\ serving \in [Conns -> ServeRec]
      /\ out[k] \in Seq(ToServer) /\ in[k] \in Seq(FromServer)
      /\ out = [out EXCEPT ![k] = out[k]] /\ in = [in EXCEPT ![k] = in[k]]
      /\ IsFiniteSet(v.ready) /\ Cardinality(v.ready) \in Nat
  BY ServeRecIs
<1>2. /\ UNCHANGED <<asking, requester, open, staleReads>> /\ out' = [out EXCEPT ![k] = out[k]]
      /\ in' = [in EXCEPT ![k] = in[k]] /\ NoQuarrel' /\ k \in open
  BY <1>1 DEF ServeRead, ServeReady, WireInv, NoQuarrel
<1>3. CASE ServeRead(k, r)
  <2>1. serving' = [serving EXCEPT ![k] = w] /\ Cardinality(v.ready) < ReadyMax
    BY <1>1, <1>3 DEF ServeRead
  <2>2. /\ w \in ServeRec /\ w.ready = v.ready /\ w.unread = v.unread /\ w.reading = {r}
    BY <1>1 DEF ServeRec
  <2> HIDE DEF w
  <2>3. Serves(w)
    BY <1>1, <2>1, <2>2 DEF Serves
  <2>4. HeldHere(w) = HeldHere(v)
    BY <2>2 DEF HeldHere
  <2>5. Conserves(k, v, out[k], in[k], w, out[k], in[k], staleReads')
    <3>1. \A y : OnWay(y, w, out[k], in[k]) = OnWay(y, v, out[k], in[k]) /\ OnWay(y, v, out[k], in[k]) \in Nat
      BY <1>1, <2>4, WayIs DEF OnWay
    <3> QED BY <3>1 DEF Conserves
  <2> QED BY <1>1, <1>2, <2>1, <2>2, <2>3, <2>5, OtherEnd
<1>4. CASE ServeReady(k, r)
  <2>1. serving' = [serving EXCEPT ![k] = x] /\ v.reading = {r}
    BY <1>1, <1>4 DEF ServeReady
  <2>2. /\ x \in ServeRec /\ x.ready = (IF r \in v.unread THEN v.ready \cup {r} ELSE v.ready)
        /\ x.unread = v.unread \ {r} /\ x.reading = {}
    BY <1>1 DEF ServeRec
  <2> HIDE DEF x
  <2>3. Serves(x)
    <3>1. Cardinality(v.ready) < ReadyMax /\ v.unread \cap v.ready = {}
      BY <1>1, <2>1 DEF Serves
    <3>2. Cardinality(v.ready \cup {r}) <= Cardinality(v.ready) + 1
      BY <1>1, OneMore
    <3>3. Cardinality(v.ready \cup {r}) \in Nat
      BY <1>1, OneMore
    <3>4. Cardinality(x.ready) <= ReadyMax
      BY <1>1, <2>2, <3>1, <3>2, <3>3, WireAssumption
    <3> QED BY <2>2, <3>1, <3>4 DEF Serves
  <2>4. HeldHere(x) = HeldHere(v)
    BY <2>2 DEF HeldHere
  <2>5. Conserves(k, v, out[k], in[k], x, out[k], in[k], staleReads')
    <3>1. \A y : OnWay(y, x, out[k], in[k]) = OnWay(y, v, out[k], in[k]) /\ OnWay(y, v, out[k], in[k]) \in Nat
      BY <1>1, <2>4, WayIs DEF OnWay
    <3> QED BY <3>1 DEF Conserves
  <2> QED BY <1>1, <1>2, <2>1, <2>2, <2>3, <2>5, OtherEnd
<1> QED BY <1>3, <1>4

\* A request less to answer.
LEMMA ForgetIs ==
  ASSUME NEW v \in ServeRec, Serves(v), NEW r
  PROVE  /\ Forget(v, r) \in ServeRec /\ Serves(Forget(v, r))
         /\ HeldHere(Forget(v, r)) = HeldHere(v) \ {r}
<1>1. /\ Forget(v, r) \in ServeRec /\ Forget(v, r).unread = v.unread \ {r}
      /\ Forget(v, r).ready = v.ready \ {r} /\ Forget(v, r).reading = v.reading
  BY DEF Forget, ServeRec
<1>2. v.ready \in SUBSET WireChunks
  BY DEF ServeRec
<1>3. IsFiniteSet(v.ready) /\ Cardinality(v.ready) \in Nat
  BY <1>2, ChunksFinite, FS_CardinalityType
<1>4. Cardinality(v.ready \ {r}) <= Cardinality(v.ready) /\ Cardinality(v.ready \ {r}) \in Nat
  BY <1>3, FS_Subset, FS_CardinalityType
<1>5. Serves(Forget(v, r))
  BY <1>1, <1>3, <1>4, WireAssumption DEF Serves
<1> QED BY <1>1, <1>5 DEF HeldHere

LEMMA ServeMessageStep ==
  ASSUME WireInv, NEW k \in Conns, ServeMessage(k)
  PROVE  WireInv'
<1> DEFINE v == serving[k]
           m == Head(out[k])
           r == m.r
           p == Tail(out[k])
<1>1. /\ v \in ServeRec /\ Serves(v) /\ serving \in [Conns -> ServeRec]
      /\ out[k] \in Seq(ToServer) /\ in[k] \in Seq(FromServer)
      /\ in = [in EXCEPT ![k] = in[k]] /\ serving = [serving EXCEPT ![k] = v]
      /\ IsFiniteSet(v.ready) /\ Cardinality(v.ready) \in Nat
  BY ServeRecIs
<1>2. /\ k \in open /\ out[k] # <<>> /\ out' = [out EXCEPT ![k] = p]
      /\ UNCHANGED <<asking, requester, open, staleReads>>
  BY DEF ServeMessage
<1>3. m \in ToServer /\ p \in Seq(ToServer) /\ r \in WireChunks /\ m = Msg(m.type, r)
  <2>1. m \in ToServer /\ p \in Seq(ToServer)
    BY <1>1, <1>2, CountHead
  <2> QED BY <2>1 DEF ToServer, Msg
<1>4. \A x : CountMsg(out[k], "request", x) = CountMsg(p, "request", x) + (IF m = Msg("request", x) THEN 1 ELSE 0)
  BY <1>1, <1>2, CountHead
<1>5. \A x : m = Msg("request", x) <=> m.type = "request" /\ x = r
  BY <1>3 DEF Msg
<1>6. \A x : /\ CountMsg(out[k], "request", x) \in Nat /\ CountMsg(p, "request", x) \in Nat
             /\ CountMsg(in[k], "piece", x) \in Nat /\ CountMsg(in[k], "reject", x) \in Nat
  BY <1>1, <1>3, CountIs
<1>7. \A x : /\ (m.type = "request" /\ x = r) => CountMsg(out[k], "request", x) = CountMsg(p, "request", x) + 1
             /\ (m.type # "request" \/ x # r) => CountMsg(out[k], "request", x) = CountMsg(p, "request", x)
  BY <1>4, <1>5, <1>6
<1>8. errors \subseteq staleReads /\ k \in open
  BY <1>2 DEF WireInv, NoQuarrel
\* The reject, where there is one.
<1> DEFINE j == Append(in[k], Msg("reject", r))
<1>9. /\ j \in Seq(FromServer)
      /\ \A x : /\ CountMsg(j, "piece", x) = CountMsg(in[k], "piece", x)
                /\ x = r => CountMsg(j, "reject", x) = CountMsg(in[k], "reject", x) + 1
                /\ x # r => CountMsg(j, "reject", x) = CountMsg(in[k], "reject", x)
  <2>1. Msg("reject", r) \in FromServer
    BY <1>3 DEF FromServer, Msg
  <2>2. \A x : Msg("reject", r) # Msg("piece", x) /\ (Msg("reject", r) = Msg("reject", x) <=> x = r)
    BY DEF Msg
  <2> DEFINE n == Msg("reject", r)
             a == Append(in[k], n)
  <2>3. /\ a \in Seq(FromServer)
        /\ \A x : /\ CountMsg(a, "piece", x) = CountMsg(in[k], "piece", x) + (IF n = Msg("piece", x) THEN 1 ELSE 0)
                  /\ CountMsg(a, "reject", x) = CountMsg(in[k], "reject", x) + (IF n = Msg("reject", x) THEN 1 ELSE 0)
    <3>1. in[k] \in Seq(FromServer) /\ n \in FromServer
      BY <1>1, <2>1
    <3> HIDE DEF n
    <3> QED BY <3>1, AnswerIs
  <2>4. j = a
    OBVIOUS
  <2> HIDE DEF j, a
  <2> QED BY <1>6, <2>2, <2>3, <2>4
<1> HIDE DEF j, p, r
<1>10. CASE m.type = "request" /\ r \in HeldHere(v) /\ UNCHANGED <<serving, in>>
            /\ errors' = IF Fast(k) THEN errors \cup {k} ELSE errors
  <2>1. ASSUME Fast(k) PROVE k \in staleReads
    <3> SUFFICES ASSUME k \notin staleReads PROVE FALSE
      OBVIOUS
    <3>1. Reckoned(k, asking[k], v, out[k], in[k], staleReads) /\ asking[k] \in AskRec
      BY <1>2 DEF WireInv, AllReckoned, WireShape
    <3>2. asking[k].expect[r] <= 1 /\ asking[k].expect[r] = OnWay(r, v, out[k], in[k])
      BY <1>3, <2>1, <3>1 DEF Reckoned
    <3>3. OnWay(r, v, out[k], in[k]) = CountMsg(out[k], "request", r) + 1 + CountMsg(in[k], "piece", r) + CountMsg(in[k], "reject", r)
      BY <1>1, <1>10, WayIs
    <3>4. CountMsg(out[k], "request", r) >= 1
      BY <1>6, <1>7, <1>10
    <3> QED BY <1>6, <3>2, <3>3, <3>4
  <2>2. Conserves(k, v, out[k], in[k], v, p, in[k], staleReads')
    <3>1. ASSUME NEW x \in WireChunks PROVE OnWay(x, v, p, in[k]) <= OnWay(x, v, out[k], in[k])
      <4>1. CountMsg(p, "request", x) <= CountMsg(out[k], "request", x)
        BY <1>6, <1>7
      <4>2. CountMsg(p, "request", x) + Here(x, v) + CountMsg(in[k], "piece", x) + CountMsg(in[k], "reject", x)
            <= CountMsg(out[k], "request", x) + Here(x, v) + CountMsg(in[k], "piece", x) + CountMsg(in[k], "reject", x)
        BY <1>6, <4>1, HereIs
      <4> QED BY <4>2, WayMoves
    <3> QED BY <1>2, <2>1, <3>1 DEF Conserves
  <2>3. NoQuarrel'
    BY <1>2, <1>8, <1>10, <2>1 DEF NoQuarrel
  <2> QED BY <1>1, <1>2, <1>3, <1>10, <2>2, <2>3, OtherEnd
<1>11. CASE m.type = "request" /\ r \notin HeldHere(v) /\ UNCHANGED <<serving, errors>>
            /\ IF Fast(k) THEN in' = [in EXCEPT ![k] = j] ELSE UNCHANGED in
  <2>1. NoQuarrel'
    BY <1>2, <1>8, <1>11 DEF NoQuarrel
  <2>2. CASE Fast(k)
    <3>1. ASSUME NEW x \in WireChunks PROVE OnWay(x, v, p, j) = OnWay(x, v, out[k], in[k])
      <4>1. CASE x = r
        BY <4>1, <1>1, <1>3, <1>6, <1>7, <1>9, <1>11, WayMoves, HereIs
      <4>2. CASE x # r
        BY <4>2, <1>1, <1>3, <1>6, <1>7, <1>9, <1>11, WayMoves, HereIs
      <4> QED BY <4>1, <4>2
    <3>2. Conserves(k, v, out[k], in[k], v, p, j, staleReads')
      BY <2>2, <3>1 DEF Conserves
    <3> QED BY <1>1, <1>2, <1>3, <1>9, <1>11, <2>1, <2>2, <3>2, OtherEnd
  <2>3. CASE ~Fast(k)
    <3>1. ASSUME NEW x \in WireChunks PROVE OnWay(x, v, p, in[k]) <= OnWay(x, v, out[k], in[k])
      <4>1. CountMsg(p, "request", x) <= CountMsg(out[k], "request", x)
        BY <1>6, <1>7
      <4>2. CountMsg(p, "request", x) + Here(x, v) + CountMsg(in[k], "piece", x) + CountMsg(in[k], "reject", x)
            <= CountMsg(out[k], "request", x) + Here(x, v) + CountMsg(in[k], "piece", x) + CountMsg(in[k], "reject", x)
        BY <1>6, <4>1, HereIs
      <4> QED BY <4>2, WayMoves
    <3>2. Conserves(k, v, out[k], in[k], v, p, in[k], staleReads')
      BY <2>3, <3>1 DEF Conserves
    <3> QED BY <1>1, <1>2, <1>3, <1>11, <2>1, <2>3, <3>2, OtherEnd
  <2> QED BY <2>2, <2>3
<1>12. CASE m.type = "request" /\ r \notin HeldHere(v) /\ UNCHANGED <<in, errors>>
            /\ serving' = [serving EXCEPT ![k].unread = @ \cup {r}]
  <2> DEFINE w == [v EXCEPT !.unread = v.unread \cup {r}]
  <2>1. NoQuarrel'
    BY <1>2, <1>8, <1>12 DEF NoQuarrel
  <2>2. serving' = [serving EXCEPT ![k] = w]
    BY <1>1, <1>12
  <2>3. /\ w \in ServeRec /\ w.unread = v.unread \cup {r} /\ w.ready = v.ready /\ w.reading = v.reading
    BY <1>1, <1>3 DEF ServeRec
  <2> HIDE DEF w
  <2>4. Serves(w) /\ HeldHere(w) = HeldHere(v) \cup {r}
    BY <1>1, <1>12, <2>3 DEF Serves, HeldHere
  <2>5. ASSUME NEW x \in WireChunks PROVE OnWay(x, w, p, in[k]) = OnWay(x, v, out[k], in[k])
    <3>1. CASE x = r
      BY <3>1, <1>1, <1>3, <1>6, <1>7, <1>12, <2>4, WayMoves, HereIs
    <3>2. CASE x # r
      BY <3>2, <1>1, <1>3, <1>6, <1>7, <1>12, <2>4, WayMoves, HereIs
    <3> QED BY <3>1, <3>2
  <2>6. \A x : OnWay(x, v, out[k], in[k]) \in Nat
    BY <1>1, WayIs
  <2>7. Conserves(k, v, out[k], in[k], w, p, in[k], staleReads')
    BY <2>5, <2>6 DEF Conserves
  <2> QED BY <1>1, <1>2, <1>3, <1>12, <2>1, <2>2, <2>3, <2>4, <2>7, OtherEnd
<1>13. CASE m.type = "cancel" /\ UNCHANGED errors /\ serving' = [serving EXCEPT ![k] = Forget(v, r)]
            /\ IF r \in HeldHere(v) /\ Fast(k) THEN in' = [in EXCEPT ![k] = j] ELSE UNCHANGED in
  <2> DEFINE w == Forget(v, r)
  <2>1. NoQuarrel'
    BY <1>2, <1>8, <1>13 DEF NoQuarrel
  <2>2. w \in ServeRec /\ Serves(w) /\ HeldHere(w) = HeldHere(v) \ {r}
    BY <1>1, ForgetIs
  <2> HIDE DEF w
  <2>3. CASE r \in HeldHere(v) /\ Fast(k)
    <3>1. ASSUME NEW x \in WireChunks PROVE OnWay(x, w, p, j) = OnWay(x, v, out[k], in[k])
      <4>1. CASE x = r
        <5>1. Here(x, w) = 0 /\ Here(x, v) = 1
          BY <4>1, <2>2, <2>3, HereIs
        <5>2. CountMsg(p, "request", x) + Here(x, w) + CountMsg(j, "piece", x) + CountMsg(j, "reject", x)
              = CountMsg(out[k], "request", x) + Here(x, v) + CountMsg(in[k], "piece", x) + CountMsg(in[k], "reject", x)
          <6>1. CountMsg(p, "request", x) = CountMsg(out[k], "request", x)
            BY <1>7, <1>13
          <6>2. /\ CountMsg(j, "piece", x) = CountMsg(in[k], "piece", x)
                /\ CountMsg(j, "reject", x) = CountMsg(in[k], "reject", x) + 1
            BY <4>1, <1>9
          <6>3. /\ CountMsg(out[k], "request", x) \in Nat /\ CountMsg(in[k], "piece", x) \in Nat
                /\ CountMsg(in[k], "reject", x) \in Nat
            BY <1>6
          <6> QED BY <5>1, <6>1, <6>2, <6>3
        <5> QED BY <5>2, WayMoves
      <4>2. CASE x # r
        <5>1. CountMsg(p, "request", x) = CountMsg(out[k], "request", x)
          BY <1>7, <1>13
        <5>2. /\ CountMsg(j, "piece", x) = CountMsg(in[k], "piece", x)
              /\ CountMsg(j, "reject", x) = CountMsg(in[k], "reject", x)
          BY <4>2, <1>9
        <5>3. Here(x, w) = Here(x, v)
          BY <4>2, <2>2 DEF Here
        <5> QED BY <5>1, <5>2, <5>3, WayMoves
      <4> QED BY <4>1, <4>2
    <3>2. Conserves(k, v, out[k], in[k], w, p, j, staleReads')
      BY <2>3, <3>1 DEF Conserves
    <3> QED BY <1>1, <1>2, <1>3, <1>9, <1>13, <2>1, <2>2, <2>3, <3>2, OtherEnd DEF w
  <2>4. CASE r \notin HeldHere(v)
    <3>1. HeldHere(w) = HeldHere(v)
      BY <2>2, <2>4
    <3>2. ASSUME NEW x \in WireChunks PROVE OnWay(x, w, p, in[k]) = OnWay(x, v, out[k], in[k])
      <4>1. CountMsg(p, "request", x) = CountMsg(out[k], "request", x)
        BY <1>7, <1>13
      <4>2. Here(x, w) = Here(x, v)
        BY <3>1 DEF Here
      <4> QED BY <4>1, <4>2, WayMoves
    <3>3. \A x : OnWay(x, v, out[k], in[k]) \in Nat
      BY <1>1, WayIs
    <3>4. Conserves(k, v, out[k], in[k], w, p, in[k], staleReads')
      BY <3>2, <3>3 DEF Conserves
    <3> QED BY <1>1, <1>2, <1>3, <1>13, <2>1, <2>2, <2>4, <3>4, OtherEnd DEF w
  <2>5. CASE ~Fast(k)
    <3>1. ASSUME NEW x \in WireChunks PROVE OnWay(x, w, p, in[k]) <= OnWay(x, v, out[k], in[k])
      <4>1. x \in HeldHere(w) => x \in HeldHere(v)
        BY <2>2
      <4>2. CountMsg(out[k], "request", x) = CountMsg(p, "request", x)
        BY <1>7, <1>13
      <4> QED BY <1>1, <1>3, <1>6, <4>1, <4>2, WayMoves, HereIs
    <3>2. Conserves(k, v, out[k], in[k], w, p, in[k], staleReads')
      BY <2>5, <3>1 DEF Conserves
    <3> QED BY <1>1, <1>2, <1>3, <1>13, <2>1, <2>2, <2>5, <3>2, OtherEnd DEF w
  <2> QED BY <2>3, <2>4, <2>5
<1> QED
  <2>1. \/ m.type = "request" /\ r \in HeldHere(v) /\ UNCHANGED <<serving, in>>
           /\ errors' = IF Fast(k) THEN errors \cup {k} ELSE errors
        \/ m.type = "request" /\ r \notin HeldHere(v) /\ UNCHANGED <<serving, errors>>
           /\ IF Fast(k) THEN in' = [in EXCEPT ![k] = j] ELSE UNCHANGED in
        \/ m.type = "request" /\ r \notin HeldHere(v) /\ UNCHANGED <<in, errors>>
           /\ serving' = [serving EXCEPT ![k].unread = @ \cup {r}]
        \/ m.type = "cancel" /\ UNCHANGED errors /\ serving' = [serving EXCEPT ![k] = Forget(v, r)]
           /\ IF r \in HeldHere(v) /\ Fast(k) THEN in' = [in EXCEPT ![k] = j] ELSE UNCHANGED in
    BY DEF ServeMessage, Answer, j, r
  <2> QED BY <2>1, <1>10, <1>11, <1>12, <1>13

\* Choked: without the fast extension what was held is forgotten.
LEMMA ChokedIs ==
  ASSUME NEW k, NEW v \in ServeRec, Serves(v)
  PROVE  /\ Choked(k, v) \in ServeRec /\ Serves(Choked(k, v))
         /\ Fast(k) => HeldHere(Choked(k, v)) = HeldHere(v)
         /\ ~Fast(k) => HeldHere(Choked(k, v)) = {}
<1>1. CASE Fast(k)
  <2>1. /\ Choked(k, v) \in ServeRec /\ Choked(k, v).unread = v.unread
        /\ Choked(k, v).ready = v.ready /\ Choked(k, v).reading = v.reading
    BY <1>1 DEF Choked, ServeRec
  <2> QED BY <1>1, <2>1 DEF Serves, HeldHere
<1>2. CASE ~Fast(k)
  <2>1. /\ Choked(k, v) \in ServeRec /\ Choked(k, v).unread = {}
        /\ Choked(k, v).ready = {} /\ Choked(k, v).reading = v.reading
    BY <1>2 DEF Choked, ServeRec
  <2>2. Cardinality({}) = 0
    BY FS_EmptySet
  <2> QED BY <1>2, <2>1, <2>2, WireAssumption DEF Serves, HeldHere
<1> QED BY <1>1, <1>2

\* A message that answers no request.
LEMMA NoAnswer ==
  ASSUME NEW i \in Seq(FromServer), NEW t \in {"choke", "unchoke"}, NEW r \in WireChunks \cup {0}
  PROVE  /\ Append(i, Msg(t, r)) \in Seq(FromServer)
         /\ \A x : /\ CountMsg(Append(i, Msg(t, r)), "piece", x) = CountMsg(i, "piece", x)
                   /\ CountMsg(Append(i, Msg(t, r)), "reject", x) = CountMsg(i, "reject", x)
<1>1. Msg(t, r) \in FromServer
  BY DEF Msg, FromServer
<1>2. \A x : Msg(t, r) # Msg("piece", x) /\ Msg(t, r) # Msg("reject", x)
  BY DEF Msg
<1>3. \A x : CountMsg(i, "piece", x) \in Nat /\ CountMsg(i, "reject", x) \in Nat
  BY CountIs
<1> QED BY <1>1, <1>2, <1>3, AnswerIs

LEMMA UploadStopsStep ==
  ASSUME WireInv, NEW k \in Conns, UploadStops(k)
  PROVE  WireInv'
<1> DEFINE v == serving[k]
           w == Choked(k, v)
           j == Append(in[k], Msg("choke", 0))
<1>1. /\ v \in ServeRec /\ Serves(v) /\ serving \in [Conns -> ServeRec]
      /\ out[k] \in Seq(ToServer) /\ in[k] \in Seq(FromServer)
      /\ out = [out EXCEPT ![k] = out[k]]
  BY ServeRecIs
<1>2. /\ UNCHANGED <<asking, requester, open, staleReads, errors>> /\ out' = [out EXCEPT ![k] = out[k]]
      /\ serving' = [serving EXCEPT ![k] = w] /\ in' = [in EXCEPT ![k] = j]
  BY <1>1 DEF UploadStops, Answer
<1>3. NoQuarrel'
  BY <1>2 DEF WireInv, NoQuarrel
<1>4. w \in ServeRec /\ Serves(w) /\ (Fast(k) => HeldHere(w) = HeldHere(v)) /\ (~Fast(k) => HeldHere(w) = {})
  BY <1>1, ChokedIs
<1>5. j \in Seq(FromServer) /\ \A x : CountMsg(j, "piece", x) = CountMsg(in[k], "piece", x)
                                      /\ CountMsg(j, "reject", x) = CountMsg(in[k], "reject", x)
  BY <1>1, NoAnswer
<1> HIDE DEF w, j
<1>6. Conserves(k, v, out[k], in[k], w, out[k], j, staleReads')
  <2>1. ASSUME NEW x \in WireChunks, Fast(k) PROVE OnWay(x, w, out[k], j) = OnWay(x, v, out[k], in[k])
    BY <1>4, <1>5, <2>1 DEF OnWay
  <2>2. ASSUME NEW x \in WireChunks, ~Fast(k) PROVE OnWay(x, w, out[k], j) <= OnWay(x, v, out[k], in[k])
    <3>1. Here(x, w) = 0 /\ Here(x, v) \in {0, 1}
      BY <1>4, <2>2, HereIs
    <3>2. /\ CountMsg(out[k], "request", x) \in Nat /\ CountMsg(in[k], "piece", x) \in Nat
          /\ CountMsg(in[k], "reject", x) \in Nat
      BY <1>1, CountsAre
    <3>3. CountMsg(out[k], "request", x) + Here(x, w) + CountMsg(j, "piece", x) + CountMsg(j, "reject", x)
          <= CountMsg(out[k], "request", x) + Here(x, v) + CountMsg(in[k], "piece", x) + CountMsg(in[k], "reject", x)
      BY <1>5, <3>1, <3>2
    <3> QED BY <3>3, WayMoves
  <2> QED BY <1>5, <2>1, <2>2 DEF Conserves
<1> QED BY <1>1, <1>2, <1>3, <1>4, <1>5, <1>6, OtherEnd

LEMMA AllowUploadStep ==
  ASSUME WireInv, NEW k \in Conns, AllowUpload(k)
  PROVE  WireInv'
<1> DEFINE v == serving[k]
           w == [v EXCEPT !.allowed = ~v.allowed]
<1>1. /\ v \in ServeRec /\ Serves(v) /\ serving \in [Conns -> ServeRec]
      /\ out[k] \in Seq(ToServer) /\ in[k] \in Seq(FromServer)
      /\ out = [out EXCEPT ![k] = out[k]] /\ in = [in EXCEPT ![k] = in[k]]
  BY ServeRecIs
<1>2. /\ UNCHANGED <<asking, requester, open, staleReads, errors>> /\ out' = [out EXCEPT ![k] = out[k]]
      /\ serving' = [serving EXCEPT ![k] = w] /\ in' = [in EXCEPT ![k] = in[k]]
  BY <1>1 DEF AllowUpload
<1>3. NoQuarrel'
  BY <1>2 DEF WireInv, NoQuarrel
<1>4. /\ w \in ServeRec /\ w.ready = v.ready /\ w.unread = v.unread /\ w.reading = v.reading
  BY <1>1 DEF ServeRec
<1> HIDE DEF w
<1>5. Serves(w) /\ HeldHere(w) = HeldHere(v)
  BY <1>1, <1>4 DEF Serves, HeldHere
<1>6. Conserves(k, v, out[k], in[k], w, out[k], in[k], staleReads')
  <2>1. \A y : OnWay(y, w, out[k], in[k]) = OnWay(y, v, out[k], in[k]) /\ OnWay(y, v, out[k], in[k]) \in Nat
    BY <1>1, <1>5, WayIs DEF OnWay
  <2> QED BY <2>1 DEF Conserves
<1> QED BY <1>1, <1>2, <1>3, <1>4, <1>5, <1>6, OtherEnd

LEMMA ServeFailsStep ==
  ASSUME WireInv, NEW k \in Conns, NEW r \in WireChunks, ServeFails(k, r)
  PROVE  WireInv'
<1> DEFINE u == serving[k]
           v == [u EXCEPT !.reading = {}]
<1>1. /\ u \in ServeRec /\ Serves(u) /\ serving \in [Conns -> ServeRec]
      /\ out[k] \in Seq(ToServer) /\ in[k] \in Seq(FromServer)
      /\ out = [out EXCEPT ![k] = out[k]] /\ in = [in EXCEPT ![k] = in[k]]
  BY ServeRecIs
<1>2. /\ UNCHANGED <<asking, requester, open, errors>> /\ out' = [out EXCEPT ![k] = out[k]]
      /\ serving' = [serving EXCEPT ![k] = IF Fast(k) THEN Forget(v, r) ELSE Choked(k, v)]
      /\ staleReads' = IF r \in v.unread THEN staleReads ELSE staleReads \cup {k}
      /\ IF Fast(k) THEN in' = [in EXCEPT ![k] = Append(in[k], Msg("reject", r))]
         ELSE in' = in \/ in' = [in EXCEPT ![k] = Append(in[k], Msg("choke", r))]
  BY <1>1 DEF ServeFails, Answer
<1>3. /\ v \in ServeRec /\ v.unread = u.unread /\ v.ready = u.ready /\ v.reading = {}
  BY <1>1 DEF ServeRec
<1> HIDE DEF v
<1>4. Serves(v) /\ HeldHere(v) = HeldHere(u)
  BY <1>1, <1>3 DEF Serves, HeldHere
<1>5. staleReads \subseteq staleReads' /\ NoQuarrel'
  BY <1>2 DEF WireInv, NoQuarrel
<1>6. \A x : /\ CountMsg(out[k], "request", x) \in Nat /\ CountMsg(in[k], "piece", x) \in Nat
             /\ CountMsg(in[k], "reject", x) \in Nat
  BY <1>1, CountsAre
<1>7. CASE Fast(k)
  <2> DEFINE w == Forget(v, r)
             j == Append(in[k], Msg("reject", r))
  <2>1. w \in ServeRec /\ Serves(w) /\ HeldHere(w) = HeldHere(u) \ {r}
    BY <1>3, <1>4, ForgetIs
  <2>2. Msg("reject", r) \in FromServer
    BY DEF Msg, FromServer
  <2>3. /\ j \in Seq(FromServer)
        /\ \A x : /\ CountMsg(j, "piece", x) = CountMsg(in[k], "piece", x)
                  /\ x = r => CountMsg(j, "reject", x) = CountMsg(in[k], "reject", x) + 1
                  /\ x # r => CountMsg(j, "reject", x) = CountMsg(in[k], "reject", x)
    <3>1. \A x : Msg("reject", r) # Msg("piece", x) /\ (Msg("reject", r) = Msg("reject", x) <=> x = r)
      BY DEF Msg
    <3> QED BY <1>1, <1>6, <2>2, <3>1, AnswerIs
  <2>4. serving' = [serving EXCEPT ![k] = w] /\ in' = [in EXCEPT ![k] = j]
    BY <1>2, <1>7
  <2> HIDE DEF w, j
  <2>5. ASSUME k \notin staleReads', NEW x \in WireChunks
        PROVE  OnWay(x, w, out[k], j) = OnWay(x, u, out[k], in[k])
    <3>1. r \in HeldHere(u)
      BY <1>2, <1>3, <2>5 DEF HeldHere
    <3>2. CASE x = r
      <4>1. Here(x, w) = 0 /\ Here(x, u) = 1
        BY <3>1, <3>2, <2>1, HereIs
      <4>2. CountMsg(out[k], "request", x) + Here(x, w) + CountMsg(j, "piece", x) + CountMsg(j, "reject", x)
            = CountMsg(out[k], "request", x) + Here(x, u) + CountMsg(in[k], "piece", x) + CountMsg(in[k], "reject", x)
        BY <3>2, <4>1, <1>6, <2>3
      <4> QED BY <4>2, WayMoves
    <3>3. CASE x # r
      <4>1. x \in HeldHere(w) <=> x \in HeldHere(u)
        BY <3>3, <2>1
      <4> QED BY <3>3, <4>1, <2>3 DEF OnWay
    <3> QED BY <3>2, <3>3
  <2>6. Conserves(k, u, out[k], in[k], w, out[k], j, staleReads')
    BY <1>7, <2>5 DEF Conserves
  <2> QED BY <1>1, <1>2, <1>5, <2>1, <2>3, <2>4, <2>6, OtherEnd
<1>8. CASE ~Fast(k)
  <2> DEFINE w == Choked(k, v)
             j == IF in' = in THEN in[k] ELSE Append(in[k], Msg("choke", r))
  <2>1. w \in ServeRec /\ Serves(w) /\ HeldHere(w) = {}
    BY <1>3, <1>4, <1>8, ChokedIs
  <2>2. /\ j \in Seq(FromServer)
        /\ \A x : /\ CountMsg(j, "piece", x) = CountMsg(in[k], "piece", x)
                  /\ CountMsg(j, "reject", x) = CountMsg(in[k], "reject", x)
    BY <1>1, NoAnswer
  <2>3. serving' = [serving EXCEPT ![k] = w] /\ in' = [in EXCEPT ![k] = j]
    BY <1>1, <1>2, <1>8
  <2> HIDE DEF w, j
  <2>4. ASSUME NEW x \in WireChunks PROVE OnWay(x, w, out[k], j) <= OnWay(x, u, out[k], in[k])
    <3>1. Here(x, w) = 0 /\ Here(x, u) \in {0, 1}
      BY <2>1, HereIs
    <3>2. CountMsg(out[k], "request", x) + Here(x, w) + CountMsg(j, "piece", x) + CountMsg(j, "reject", x)
          <= CountMsg(out[k], "request", x) + Here(x, u) + CountMsg(in[k], "piece", x) + CountMsg(in[k], "reject", x)
      BY <1>6, <2>2, <3>1
    <3> QED BY <3>2, WayMoves
  <2>5. Conserves(k, u, out[k], in[k], w, out[k], j, staleReads')
    BY <1>8, <2>2, <2>4 DEF Conserves
  <2> QED BY <1>1, <1>2, <1>5, <2>1, <2>2, <2>3, <2>5, OtherEnd
<1> QED BY <1>7, <1>8

LEMMA UploadStep ==
  ASSUME WireInv, NEW k \in Conns, NEW now \in SUBSET serving[k].ready, Upload(k, now)
  PROVE  WireInv'
<1> DEFINE v == serving[k]
           q == IF v.choking THEN Append(in[k], Msg("unchoke", 0)) ELSE in[k]
           w == [v EXCEPT !.choking = FALSE, !.ready = v.ready \ now]
           j == Sends(q, "piece", now)
<1>1. /\ v \in ServeRec /\ Serves(v) /\ serving \in [Conns -> ServeRec]
      /\ out[k] \in Seq(ToServer) /\ in[k] \in Seq(FromServer)
      /\ out = [out EXCEPT ![k] = out[k]] /\ IsFiniteSet(v.ready) /\ Cardinality(v.ready) \in Nat
  BY ServeRecIs
<1>2. /\ UNCHANGED <<asking, requester, open, staleReads, errors>> /\ out' = [out EXCEPT ![k] = out[k]]
      /\ serving' = [serving EXCEPT ![k] = w] /\ in' = [in EXCEPT ![k] = j]
  BY <1>1 DEF Upload, Sends
<1>3. NoQuarrel'
  BY <1>2 DEF WireInv, NoQuarrel
<1>4. w \in ServeRec /\ w.unread = v.unread /\ w.ready = v.ready \ now /\ w.reading = v.reading
  BY <1>1 DEF ServeRec
<1>5. now \subseteq WireChunks /\ IsFiniteSet(now)
  <2>1. now \in SUBSET WireChunks
    BY <1>1 DEF ServeRec
  <2> QED BY <2>1, ChunksFinite
<1>6. q \in Seq(FromServer) /\ \A x : CountMsg(q, "piece", x) = CountMsg(in[k], "piece", x)
                                      /\ CountMsg(q, "reject", x) = CountMsg(in[k], "reject", x)
  BY <1>1, NoAnswer
<1> HIDE DEF q, w
<1>7. \A r \in now : Msg("piece", r) \in FromServer
  BY <1>5 DEF Msg, FromServer
<1>8. /\ j \in Seq(FromServer)
      /\ \A x : /\ CountMsg(j, "piece", x) = CountMsg(q, "piece", x) + (IF "piece" = "piece" /\ x \in now THEN 1 ELSE 0)
                /\ CountMsg(j, "reject", x) = CountMsg(q, "reject", x) + (IF "piece" = "reject" /\ x \in now THEN 1 ELSE 0)
  BY <1>5, <1>6, <1>7, CountSends
<1> HIDE DEF j
<1>9. Serves(w)
  <2>1. Cardinality(v.ready \ now) <= Cardinality(v.ready) /\ Cardinality(v.ready \ now) \in Nat
    BY <1>1, FS_Subset, FS_CardinalityType
  <2> QED BY <1>1, <1>4, <2>1, WireAssumption DEF Serves
<1>10. HeldHere(w) = HeldHere(v) \ now /\ now \subseteq HeldHere(v)
  BY <1>1, <1>4 DEF HeldHere, Serves
<1>11. \A x : /\ CountMsg(out[k], "request", x) \in Nat /\ CountMsg(in[k], "piece", x) \in Nat
              /\ CountMsg(in[k], "reject", x) \in Nat
  BY <1>1, CountsAre
<1>12. \A x : /\ x \in now => CountMsg(j, "piece", x) = CountMsg(in[k], "piece", x) + 1
              /\ x \notin now => CountMsg(j, "piece", x) = CountMsg(in[k], "piece", x)
              /\ CountMsg(j, "reject", x) = CountMsg(in[k], "reject", x)
  BY <1>6, <1>8, <1>11
<1>13. ASSUME NEW x \in WireChunks PROVE OnWay(x, w, out[k], j) = OnWay(x, v, out[k], in[k])
  <2>1. CASE x \in now
    <3>1. Here(x, w) = 0 /\ Here(x, v) = 1
      BY <1>10, <2>1, HereIs
    <3>2. CountMsg(out[k], "request", x) + Here(x, w) + CountMsg(j, "piece", x) + CountMsg(j, "reject", x)
          = CountMsg(out[k], "request", x) + Here(x, v) + CountMsg(in[k], "piece", x) + CountMsg(in[k], "reject", x)
      BY <1>11, <1>12, <2>1, <3>1
    <3> QED BY <3>2, WayMoves
  <2>2. CASE x \notin now
    <3>1. x \in HeldHere(w) <=> x \in HeldHere(v)
      BY <1>10, <2>2
    <3> QED BY <1>12, <2>2, <3>1 DEF OnWay
  <2> QED BY <2>1, <2>2
<1>14. \A x : OnWay(x, v, out[k], in[k]) \in Nat
  BY <1>1, WayIs
<1>15. Conserves(k, v, out[k], in[k], w, out[k], j, staleReads')
  BY <1>12, <1>13, <1>14 DEF Conserves
<1> QED BY <1>1, <1>2, <1>3, <1>4, <1>8, <1>9, <1>15, OtherEnd

-----------------------------------------------------------------------------
LEMMA WireInvInit == WireInit => WireInv
<1> SUFFICES ASSUME WireInit PROVE WireInv
  OBVIOUS
<1> USE DEF WireInit
<1>1. <<>> \in Seq(ToServer) /\ <<>> \in Seq(FromServer)
  BY EmptySeq
<1>2. WireShape
  BY <1>1 DEF WireShape, AskRec, ServeRec
<1>3. \A k \in Conns : Serves(serving[k])
  <2>1. Cardinality({}) = 0
    BY FS_EmptySet
  <2>2. \A k \in Conns : serving[k].unread = {} /\ serving[k].ready = {} /\ serving[k].reading = {}
    OBVIOUS
  <2>3. ReadyMax \in Nat \ {0} /\ 0 <= ReadyMax
    BY WireAssumption
  <2> QED BY <2>1, <2>2, <2>3 DEF Serves
<1>4. Agreed /\ Apart /\ ClosedAskNothing /\ NoQuarrel
  BY WireAssumption DEF Agreed, Apart, ClosedAskNothing, NoQuarrel
<1>5. AllReckoned
  <2> SUFFICES ASSUME NEW k \in Conns
               PROVE  Reckoned(k, asking[k], serving[k], out[k], in[k], staleReads)
    BY DEF AllReckoned
  <2>1. \A t, r : CountMsg(<<>>, t, r) = 0
    <3>1. \A m : {i \in DOMAIN <<>> : <<>>[i] = m} = {}
      OBVIOUS
    <3> QED BY <3>1, FS_EmptySet DEF CountMsg
  <2>2. out[k] = <<>> /\ in[k] = <<>> /\ HeldHere(serving[k]) = {}
    BY DEF HeldHere
  <2>3. \A r : OnWay(r, serving[k], out[k], in[k]) = 0
    BY <2>1, <2>2 DEF OnWay
  <2> QED BY <2>1, <2>2, <2>3 DEF Reckoned
<1> QED BY <1>2, <1>3, <1>4, <1>5 DEF WireInv

LEMMA WireInvNext == WireInv /\ [WireNext]_wireVars => WireInv'
<1> SUFFICES ASSUME WireInv, [WireNext]_wireVars PROVE WireInv'
  OBVIOUS
<1>1. ASSUME NEW k \in Conns,
             \/ UpdateRequests(k) \/ GetPiece(k) \/ GetReject(k) \/ GetChoke(k) \/ GetUnchoke(k) \/ DropConn(k)
             \/ ServeMessage(k) \/ UploadStops(k) \/ AllowUpload(k)
             \/ \E r \in WireChunks : ServeRead(k, r) \/ ServeReady(k, r) \/ ServeFails(k, r)
             \/ \E now \in SUBSET serving[k].ready : Upload(k, now)
      PROVE  WireInv'
  BY <1>1, UpdateStep, GetPieceStep, GetRejectStep, GetChokeStep, GetUnchokeStep, DropStep, ServeMessageStep,
     UploadStopsStep, AllowUploadStep, ServeReadStep, ServeFailsStep, UploadStep
<1>2. CASE (\E pass \in BOOLEAN : HashPiece(pass)) \/ AllowDownload
  BY <1>2, PlanAgainStep
<1>3. CASE DisallowDownload
  BY <1>3, DisallowStep
<1>4. CASE UNCHANGED wireVars
  BY <1>4 DEF wireVars, WireInv, WireShape, Agreed, Apart, ClosedAskNothing, AllReckoned, NoQuarrel
<1> QED BY <1>1, <1>2, <1>3, <1>4 DEF WireNext

LEMMA WireInvSafe == WireInv => WireSafe
<1> SUFFICES ASSUME WireInv PROVE WireSafe
  OBVIOUS
<1> USE DEF WireInv
<1>1. WireTypeOK
  <2>1. ASSUME NEW k \in Conns
        PROVE  /\ asking[k].reqs \cup asking[k].cancelled \subseteq WireChunks
               /\ serving[k].unread \cup serving[k].ready \subseteq WireChunks
               /\ Cardinality(serving[k].ready) <= ReadyMax
    <3>1. asking[k] \in AskRec /\ serving[k] \in ServeRec /\ Serves(serving[k])
      BY DEF WireShape
    <3> QED BY <3>1 DEF AskRec, ServeRec, Serves
  <2> QED BY <2>1 DEF WireTypeOK, WireShape
<1>2. OneRequester
  <2> SUFFICES ASSUME NEW k \in Conns, NEW r \in WireChunks
               PROVE  /\ r \in asking[k].reqs <=> requester[r] = k
                      /\ r \in asking[k].reqs => r \notin asking[k].cancelled /\ asking[k].expect[r] > 0
    BY DEF OneRequester
  <2>1. ASSUME r \in asking[k].reqs PROVE asking[k].expect[r] > 0
    <3>1. k \in open
      BY <2>1 DEF ClosedAskNothing
    <3>2. Reckoned(k, asking[k], serving[k], out[k], in[k], staleReads)
      BY <3>1 DEF AllReckoned
    <3> QED BY <2>1, <3>2 DEF Reckoned
  <2> QED BY <2>1 DEF Agreed, Apart
<1>3. EveryRequestAccounted
  <2> SUFFICES ASSUME NEW k \in (FastConns \cap open) \ staleReads, NEW r \in WireChunks
               PROVE  asking[k].expect[r] = OnWay(r, serving[k], out[k], in[k])
    BY DEF EveryRequestAccounted, OnWay
  <2>1. Reckoned(k, asking[k], serving[k], out[k], in[k], staleReads)
    BY DEF AllReckoned
  <2> QED BY <2>1 DEF Reckoned, Fast
<1> QED BY <1>1, <1>2, <1>3 DEF WireSafe

(* The requests of a connection, the messages on their way and what the other end owes agree
   (peerconn.go, requesting.go): the inductive invariant of the wire. *)
THEOREM WireInvariant == WireSpec => []WireInv
<1> QED BY WireInvInit, WireInvNext, PTL DEF WireSpec

(* Whatever connections, chunks and limits there are, both ends agree on what was asked for: a
   chunk is asked of one connection, every request of a fast connection is on its way, held or
   answered, and neither end drops the other over one, a read that failed after its cancel
   aside (peerconn.go, requesting.go). *)
THEOREM WireStaysSafe == WireSpec => []WireSafe
<1> QED BY WireInvariant, WireInvSafe, PTL

-----------------------------------------------------------------------------
(* What the connections have and the info made of their chunks.            *)

InfoMeta == [size : 0 .. RealSize, data : [InfoChunks -> {"zero", "good", "bad"}],
             done : SUBSET Nat, alloc : BOOLEAN]
InfoConn == [st : {"none", "open", "closed"}, all : BOOLEAN, pieces : SUBSET InfoPieces,
             ext : BOOLEAN, asked : SUBSET Nat]

\* Everything a peer has is either in the set of those with everything or counted piece by
\* piece, never both.
InfoInv ==
  /\ info \in {"none", "good"}
  /\ meta \in InfoMeta /\ meta.done \subseteq 1 .. meta.size
  /\ conn \in [InfoConns -> InfoConn]
  /\ \A k \in InfoConns : conn[k].all => conn[k].pieces = {}
  /\ withAll = {k \in InfoConns : Open(k) /\ conn[k].all}
  /\ rel \in [InfoPieces -> Nat]
  /\ AvailabilityCovers

LEMMA RealSizeIs == RealSize \in Nat \ {0} /\ InfoChunks = 1 .. RealSize
<1>1. Cardinality(InfoChunks) \in Nat /\ Cardinality(InfoChunks) # 0
  BY InfoAssumption, FS_CardinalityType, FS_EmptySet
<1> QED BY <1>1, InfoAssumption DEF RealSize

LEMMA CountedFinite ==
  ASSUME NEW p
  PROVE  /\ IsFiniteSet(Counted(p)) /\ Cardinality(Counted(p)) \in Nat
         /\ IsFiniteSet(Counted(p)') /\ Cardinality(Counted(p)') \in Nat
<1>1. Counted(p) \subseteq InfoConns /\ Counted(p)' \subseteq InfoConns
  BY DEF Counted
<1> QED BY <1>1, InfoAssumption, FS_Subset, FS_CardinalityType

\* Two sets that differ in one element at most.
LEMMA OneApart ==
  ASSUME NEW S, NEW T, IsFiniteSet(S), IsFiniteSet(T), NEW k,
         \A j : j # k => (j \in S <=> j \in T)
  PROVE  /\ Cardinality(T) <= Cardinality(S) + 1
         /\ k \in S \/ k \notin T => Cardinality(T) <= Cardinality(S)
         /\ k \in S /\ k \notin T => Cardinality(T) = Cardinality(S) - 1 /\ Cardinality(S) > 0
<1>1. Cardinality(S) \in Nat /\ Cardinality(T) \in Nat
  BY FS_CardinalityType
<1>2. CASE k \in S <=> k \in T
  <2> S = T
    BY <1>2
  <2> QED BY <1>1, <1>2
<1>3. CASE k \in S /\ k \notin T
  <2> T = S \ {k}
    BY <1>3
  <2> QED BY <1>1, <1>3, FS_RemoveElement
<1>4. CASE k \notin S /\ k \in T
  <2> S = T \ {k}
    BY <1>4
  <2> QED BY <1>1, <1>4, FS_RemoveElement
<1> QED BY <1>2, <1>3, <1>4

\* One connection changes what it has: a piece counted out was counted in, and a piece newly
\* had is counted in.
LEMMA Recounted ==
  ASSUME InfoInv, info' = info, NEW k \in InfoConns, NEW up, NEW down,
         rel' = Count(up, down),
         \A j \in InfoConns \ {k} : conn'[j].st = conn[j].st /\ conn'[j].pieces = conn[j].pieces
                                    /\ (j \in withAll' <=> j \in withAll),
         \A p \in InfoPieces :
           /\ p \in down => k \in Counted(p) /\ k \notin Counted(p)' /\ p \notin up
           /\ k \in Counted(p)' /\ k \notin Counted(p) => p \in up
  PROVE  rel' \in [InfoPieces -> Nat] /\ AvailabilityCovers'
<1>1. CASE info = "none"
  BY <1>1 DEF InfoInv, AvailabilityCovers, Count
<1>2. CASE info # "none"
  <2>1. rel' = [p \in InfoPieces |->
                 (rel[p] + (IF p \in up THEN 1 ELSE 0)) - (IF p \in down THEN 1 ELSE 0)]
    BY <1>2 DEF Count
  <2>2. ASSUME NEW p \in InfoPieces
        PROVE  rel'[p] \in Nat /\ rel'[p] >= Cardinality(Counted(p)')
    <3>1. rel[p] \in Nat /\ rel[p] >= Cardinality(Counted(p))
      BY <1>2 DEF InfoInv, AvailabilityCovers
    <3>2. Cardinality(Counted(p)) \in Nat /\ Cardinality(Counted(p)') \in Nat
          /\ IsFiniteSet(Counted(p)) /\ IsFiniteSet(Counted(p)')
      BY CountedFinite
    <3>3. \A j : j # k => (j \in Counted(p) <=> j \in Counted(p)')
      BY DEF Counted, Open
    <3>4. /\ Cardinality(Counted(p)') <= Cardinality(Counted(p)) + 1
          /\ k \in Counted(p) \/ k \notin Counted(p)'
             => Cardinality(Counted(p)') <= Cardinality(Counted(p))
          /\ k \in Counted(p) /\ k \notin Counted(p)'
             => Cardinality(Counted(p)') = Cardinality(Counted(p)) - 1
                /\ Cardinality(Counted(p)) > 0
      <4> HIDE DEF Counted
      <4> QED BY <3>2, <3>3, OneApart
    <3>5. rel'[p] = (rel[p] + (IF p \in up THEN 1 ELSE 0)) - (IF p \in down THEN 1 ELSE 0)
      BY <2>1
    <3>6. CASE p \in down
      <4>1. rel'[p] = (rel[p] + 0) - 1
        BY <3>5, <3>6
      <4>2. Cardinality(Counted(p)') = Cardinality(Counted(p)) - 1 /\ Cardinality(Counted(p)) > 0
        BY <3>4, <3>6
      <4> QED BY <4>1, <4>2, <3>1, <3>2
    <3>7. CASE p \notin down /\ p \in up
      <4>1. rel'[p] = (rel[p] + 1) - 0
        BY <3>5, <3>7
      <4> QED BY <4>1, <3>1, <3>2, <3>4
    <3>8. CASE p \notin down /\ p \notin up
      <4>1. rel'[p] = (rel[p] + 0) - 0
        BY <3>5, <3>8
      <4>2. k \in Counted(p) \/ k \notin Counted(p)'
        BY <3>8
      <4> QED BY <4>1, <4>2, <3>1, <3>2, <3>4
    <3> QED BY <3>6, <3>7, <3>8
  <2> QED BY <2>1, <2>2 DEF AvailabilityCovers
<1> QED BY <1>1, <1>2

\* A connection that leaves, or says it has nothing, is counted out.
LEMMA CountedOut ==
  ASSUME InfoInv, info' = info, NEW k \in InfoConns, NEW c \in InfoConn,
         Open(k), conn' = [conn EXCEPT ![k] = c],
         c.st # "open" \/ c.pieces = {}, c.all => c.pieces = {}, c.st = "open" => ~c.all,
         DecAvailability(k), meta' \in InfoMeta, meta'.done \subseteq 1 .. meta'.size
  PROVE  InfoInv'
<1>1. conn \in [InfoConns -> InfoConn] /\ conn' \in [InfoConns -> InfoConn]
      /\ withAll = {j \in InfoConns : Open(j) /\ conn[j].all}
  BY DEF InfoInv
<1>2. /\ conn'[k] = c
      /\ \A j \in InfoConns \ {k} : conn'[j] = conn[j]
  BY <1>1
<1>3. \A j \in InfoConns : conn'[j].all => conn'[j].pieces = {}
  BY <1>2 DEF InfoInv
<1>4. withAll' = {j \in InfoConns : Open(j)' /\ conn'[j].all}
  <2>1. withAll' = withAll \ {k}
    BY <1>1 DEF DecAvailability
  <2> QED BY <1>1, <1>2, <2>1 DEF Open
<1>5. rel' = Count({}, conn[k].pieces)
  <2>1. CASE k \in withAll
    <3>1. conn[k].pieces = {} /\ rel' = rel
      BY <2>1, <1>1 DEF InfoInv, DecAvailability
    <3>2. rel = Count({}, {})
      BY DEF Count, InfoInv
    <3> QED BY <3>1, <3>2
  <2> QED BY <2>1 DEF DecAvailability
<1>6. rel' \in [InfoPieces -> Nat] /\ AvailabilityCovers'
  <2>1. \A j \in InfoConns \ {k} : conn'[j].st = conn[j].st /\ conn'[j].pieces = conn[j].pieces
                                    /\ (j \in withAll' <=> j \in withAll)
    BY <1>1, <1>2, <1>4 DEF Open
  <2>2. \A p \in InfoPieces :
           /\ p \in conn[k].pieces => k \in Counted(p) /\ k \notin Counted(p)' /\ p \notin {}
           /\ k \in Counted(p)' /\ k \notin Counted(p) => p \in {}
    <3> TAKE p \in InfoPieces
    <3>1. k \notin Counted(p)'
      BY <1>2 DEF Counted, Open
    <3>2. p \in conn[k].pieces => k \notin withAll
      BY <1>1 DEF InfoInv
    <3> QED BY <3>1, <3>2 DEF Counted
  <2> QED BY <2>1, <2>2, <1>5, Recounted
<1> QED BY <1>1, <1>3, <1>4, <1>6 DEF InfoInv

\* Nothing a peer has changes.
LEMMA SameCounts ==
  ASSUME InfoInv, info' = info, conn' \in [InfoConns -> InfoConn],
         \A j \in InfoConns : /\ conn'[j].all = conn[j].all /\ conn'[j].pieces = conn[j].pieces
                              /\ conn'[j].st = "open" <=> conn[j].st = "open",
         withAll' = withAll, rel' = rel,
         meta' \in InfoMeta, meta'.done \subseteq 1 .. meta'.size
  PROVE  InfoInv'
<1>1. withAll' = {k \in InfoConns : Open(k)' /\ conn'[k].all}
  BY DEF InfoInv, Open
<1>2. \A p \in InfoPieces : Counted(p)' = Counted(p)
  BY DEF Counted, Open
<1>3. AvailabilityCovers'
  BY <1>2 DEF InfoInv, AvailabilityCovers
<1> QED BY <1>1, <1>3 DEF InfoInv

LEMMA JoinStep ==
  ASSUME InfoInv, NEW k \in InfoConns, ConnJoins(k) \/ ConnGone(k)
  PROVE  InfoInv'
<1>1. PICK c \in {Joined, NoConn} : conn' = [conn EXCEPT ![k] = c]
  BY DEF ConnJoins, ConnGone
<1>2. c \in InfoConn /\ c.pieces = {} /\ ~c.all /\ conn[k].st # "open"
  <2>1. NoConn \in InfoConn /\ NoConn.pieces = {} /\ ~NoConn.all
    BY DEF NoConn, InfoConn
  <2>2. Joined \in InfoConn /\ Joined.pieces = {} /\ ~Joined.all
    BY DEF NoConn, InfoConn, Joined
  <2>3. conn[k].st # "open"
    BY DEF ConnJoins, ConnGone
  <2> QED BY <2>1, <2>2, <2>3
<1>3. UNCHANGED <<info, meta, withAll, rel, infoFaults>>
  BY DEF ConnJoins, ConnGone
<1>4. conn \in [InfoConns -> InfoConn] /\ conn' \in [InfoConns -> InfoConn] /\ conn'[k] = c
      /\ \A j \in InfoConns \ {k} : conn'[j] = conn[j]
  BY <1>1, <1>2 DEF InfoInv
<1>5. withAll' = {j \in InfoConns : Open(j)' /\ conn'[j].all}
  BY <1>2, <1>3, <1>4 DEF InfoInv, Open
<1>6. AvailabilityCovers'
  <2>1. \A p \in InfoPieces : Counted(p)' = Counted(p)
    BY <1>2, <1>3, <1>4 DEF Counted, Open
  <2> QED BY <2>1, <1>3 DEF InfoInv, AvailabilityCovers
<1>7. \A j \in InfoConns : conn'[j].all => conn'[j].pieces = {}
  BY <1>2, <1>4 DEF InfoInv
<1> QED BY <1>3, <1>4, <1>5, <1>6, <1>7 DEF InfoInv

LEMMA LeaveStep ==
  ASSUME InfoInv, ~RepeatsState, NEW k \in InfoConns,
         WriterEnds(k) \/ ConnDropped(k) \/ SentHaveNone(k)
  PROVE  InfoInv'
<1>1. conn[k] \in InfoConn /\ conn \in [InfoConns -> InfoConn] /\ meta \in InfoMeta
      /\ meta.done \subseteq 1 .. meta.size
  BY DEF InfoInv
<1>2. CASE WriterEnds(k)
  <2> DEFINE c == [conn[k] EXCEPT !.st = "closed"]
  <2>1. conn' = [conn EXCEPT ![k] = c] /\ Open(k) /\ DecAvailability(k) /\ info' = info /\ meta' = meta
    BY <1>2, <1>1 DEF WriterEnds, ConnCloses
  <2>2. c \in InfoConn /\ c.st # "open" /\ (c.all => c.pieces = {})
    BY <1>1 DEF InfoConn, InfoInv
  <2> HIDE DEF c
  <2> QED BY <2>1, <2>2, <1>1, CountedOut
<1>3. CASE ConnDropped(k)
  <2>1. conn' = [conn EXCEPT ![k] = NoConn] /\ Open(k) /\ DecAvailability(k) /\ info' = info /\ meta' = meta
    BY <1>3 DEF ConnDropped
  <2>2. NoConn \in InfoConn /\ NoConn.st # "open" /\ ~NoConn.all
    BY <1>1 DEF InfoConn, NoConn
  <2> QED BY <2>1, <2>2, <1>1, CountedOut
<1>4. CASE SentHaveNone(k)
  <2> DEFINE c == [conn[k] EXCEPT !.all = FALSE, !.pieces = {}]
  <2>1. conn' = [conn EXCEPT ![k] = c] /\ Open(k) /\ DecAvailability(k) /\ info' = info /\ meta' = meta
    BY <1>4, <1>1 DEF SentHaveNone
  <2>2. c \in InfoConn /\ c.pieces = {} /\ ~c.all
    BY <1>1 DEF InfoConn, InfoInv
  <2> HIDE DEF c
  <2> QED BY <2>1, <2>2, <1>1, CountedOut
<1> QED BY <1>2, <1>3, <1>4

\* A connection has more, less or everything.
LEMMA SaysStep ==
  ASSUME InfoInv, NEW k \in InfoConns, Open(k), NEW all \in BOOLEAN, NEW has \in SUBSET InfoPieces,
         all => has = {},
         conn' = [conn EXCEPT ![k] = [@ EXCEPT !.all = all, !.pieces = has]],
         withAll' = IF all THEN withAll \cup {k} ELSE withAll \ {k},
         rel' = Count(has \ conn[k].pieces, conn[k].pieces \ has),
         info' = info, meta' = meta
  PROVE  InfoInv'
<1>1. conn \in [InfoConns -> InfoConn] /\ conn[k] \in InfoConn
  BY DEF InfoInv
<1>2. PICK c \in InfoConn : conn' = [conn EXCEPT ![k] = c] /\ c.st = "open" /\ c.all = all /\ c.pieces = has
  <2> DEFINE d == [conn[k] EXCEPT !.all = all, !.pieces = has]
  <2>1. d \in InfoConn /\ d.st = "open" /\ d.all = all /\ d.pieces = has
    BY <1>1 DEF InfoConn, Open
  <2>2. conn' = [conn EXCEPT ![k] = d]
    BY <1>1
  <2> QED BY <2>1, <2>2
<1>3. conn' \in [InfoConns -> InfoConn] /\ conn'[k] = c /\ \A j \in InfoConns \ {k} : conn'[j] = conn[j]
  BY <1>1, <1>2
<1>4. withAll' = {j \in InfoConns : Open(j)' /\ conn'[j].all}
  BY <1>2, <1>3 DEF InfoInv, Open
<1>5. \A j \in InfoConns : conn'[j].all => conn'[j].pieces = {}
  BY <1>2, <1>3 DEF InfoInv
<1>6. rel' \in [InfoPieces -> Nat] /\ AvailabilityCovers'
  <2>1. \A j \in InfoConns \ {k} : conn'[j].st = conn[j].st /\ conn'[j].pieces = conn[j].pieces
                                    /\ (j \in withAll' <=> j \in withAll)
    BY <1>3
  <2>2. \A p \in InfoPieces : k \in Counted(p) <=> p \in conn[k].pieces
    <3>1. k \in withAll => conn[k].pieces = {}
      BY DEF InfoInv
    <3> QED BY <3>1 DEF Counted
  <2>3. \A p \in InfoPieces : k \in Counted(p)' <=> p \in has
    <3>1. k \in withAll' <=> all
      OBVIOUS
    <3> QED BY <3>1, <1>2, <1>3 DEF Counted, Open
  <2>4. \A p \in InfoPieces :
           /\ p \in conn[k].pieces \ has
              => k \in Counted(p) /\ k \notin Counted(p)' /\ p \notin has \ conn[k].pieces
           /\ k \in Counted(p)' /\ k \notin Counted(p) => p \in has \ conn[k].pieces
    BY <2>2, <2>3
  <2> QED BY <2>1, <2>4, Recounted
<1> QED BY <1>3, <1>4, <1>5, <1>6 DEF InfoInv

LEMMA SentStep ==
  ASSUME InfoInv, NEW k \in InfoConns,
         \/ SentHaveAll(k) \/ \E p \in InfoPieces : SentHave(k, p)
         \/ \E bf \in SUBSET InfoPieces : SentBitfield(k, bf)
  PROVE  InfoInv'
<1>0. conn \in [InfoConns -> InfoConn] /\ conn[k] \in InfoConn
      /\ (conn[k].all => conn[k].pieces = {}) /\ (Open(k) => (k \in withAll <=> conn[k].all))
  BY DEF InfoInv
<1>1. ASSUME Open(k), HasAll(k), info' = info, meta' = meta PROVE InfoInv'
  <2>1. conn' = [conn EXCEPT ![k] = [@ EXCEPT !.all = TRUE, !.pieces = {}]] /\ withAll' = withAll \cup {k}
    BY <1>1 DEF HasAll
  <2>2. rel' = Count({} \ conn[k].pieces, conn[k].pieces \ {})
    BY <1>1 DEF HasAll
  <2>3. {} \in SUBSET InfoPieces /\ TRUE \in BOOLEAN
        /\ withAll' = IF TRUE THEN withAll \cup {k} ELSE withAll \ {k}
    BY <2>1
  <2> QED BY <1>1, <2>1, <2>2, <2>3, SaysStep
<1>2. CASE SentHaveAll(k)
  BY <1>1, <1>2 DEF SentHaveAll
<1>3. ASSUME NEW p \in InfoPieces, SentHave(k, p) PROVE InfoInv'
  <2> DEFINE has == conn[k].pieces \cup {p}
  <2>1. ~conn[k].all /\ p \notin conn[k].pieces /\ Open(k) /\ info' = info /\ meta' = meta
        /\ withAll' = withAll \ {k} /\ has \subseteq InfoPieces
    BY <1>0, <1>3 DEF SentHave, HasPiece, InfoConn
  <2>2. conn' = [conn EXCEPT ![k] = [@ EXCEPT !.all = FALSE, !.pieces = has]]
    <3>1. [conn[k] EXCEPT !.pieces = has] = [conn[k] EXCEPT !.all = FALSE, !.pieces = has]
      BY <1>0, <2>1 DEF InfoConn
    <3> QED BY <1>0, <1>3, <3>1 DEF SentHave
  <2>3. rel' = Count(has \ conn[k].pieces, conn[k].pieces \ has)
    <3>1. has \ conn[k].pieces = {p} /\ conn[k].pieces \ has = {}
      BY <2>1
    <3> QED BY <1>3, <3>1 DEF SentHave
  <2> HIDE DEF has
  <2> QED BY <2>1, <2>2, <2>3, SaysStep
<1>4. ASSUME NEW bf \in SUBSET InfoPieces, SentBitfield(k, bf) PROVE InfoInv'
  <2>1. CASE info # "none" /\ bf = InfoPieces
    BY <1>1, <1>4, <2>1 DEF SentBitfield
  <2>2. CASE ~(info # "none" /\ bf = InfoPieces)
    <3>1. Open(k) /\ info' = info /\ meta' = meta
          /\ conn' = [conn EXCEPT ![k] = [@ EXCEPT !.all = FALSE, !.pieces = bf]]
          /\ rel' = Count(bf \ conn[k].pieces, conn[k].pieces \ bf)
      BY <1>4, <2>2 DEF SentBitfield
    <3>2. withAll' = withAll \ {k}
      BY <1>0, <1>4, <2>2, <3>1 DEF SentBitfield
    <3> QED BY <3>1, <3>2, SaysStep
  <2> QED BY <2>1, <2>2
<1> QED BY <1>2, <1>3, <1>4

-----------------------------------------------------------------------------
LEMMA NoMetaIs ==
  ASSUME NEW s \in 0 .. RealSize, NEW a \in BOOLEAN
  PROVE  [NoMeta EXCEPT !.size = s, !.alloc = a] \in InfoMeta
         /\ [NoMeta EXCEPT !.size = s, !.alloc = a].done = {}
BY RealSizeIs DEF NoMeta, InfoMeta

LEMMA HandshakeStep ==
  ASSUME InfoInv, NEW k \in InfoConns, NEW size \in {1, RealSize}, Handshake(k, size)
  PROVE  InfoInv'
<1>1. conn \in [InfoConns -> InfoConn] /\ size \in 0 .. RealSize
  BY RealSizeIs DEF InfoInv
<1>2. meta' \in InfoMeta /\ meta'.done \subseteq 1 .. meta'.size
  <2>1. CASE meta' = meta
    BY <2>1 DEF InfoInv
  <2>2. CASE meta' = [NoMeta EXCEPT !.size = size, !.alloc = TRUE]
    BY <2>2, <1>1, NoMetaIs
  <2> QED BY <2>1, <2>2 DEF Handshake, SetMetadataSize
<1>3. ASSUME NEW c \in InfoConn, NEW m \in InfoMeta
      PROVE  /\ InfoPending(c, m) \in InfoConn
             /\ InfoPending(c, m).all = c.all /\ InfoPending(c, m).pieces = c.pieces
             /\ InfoPending(c, m).st = c.st
  BY RealSizeIs DEF InfoPending, InfoConn, InfoMeta
<1>4. ASSUME NEW j \in InfoConns
      PROVE  /\ conn'[j] \in InfoConn
             /\ conn'[j].all = conn[j].all /\ conn'[j].pieces = conn[j].pieces
             /\ conn'[j].st = conn[j].st
  <2> DEFINE known == [conn EXCEPT ![k].ext = TRUE]
  <2>1. known[j] \in InfoConn /\ known[j].all = conn[j].all /\ known[j].pieces = conn[j].pieces
        /\ known[j].st = conn[j].st
    <3>1. conn[j] \in InfoConn /\ conn[k] \in InfoConn
      BY <1>1
    <3>2. CASE j = k
      <4>1. known[j] = [conn[k] EXCEPT !.ext = TRUE]
        BY <1>1, <3>2
      <4>2. [conn[k] EXCEPT !.ext = TRUE] \in InfoConn
        BY <3>1 DEF InfoConn
      <4>3. /\ [conn[k] EXCEPT !.ext = TRUE].all = conn[k].all
            /\ [conn[k] EXCEPT !.ext = TRUE].pieces = conn[k].pieces
            /\ [conn[k] EXCEPT !.ext = TRUE].st = conn[k].st
        BY <3>1 DEF InfoConn
      <4> HIDE DEF known
      <4> QED BY <4>1, <4>2, <4>3, <3>2
    <3>3. CASE j # k
      <4>1. known[j] = conn[j]
        BY <1>1, <3>3
      <4> QED BY <4>1, <3>1
    <3> QED BY <3>2, <3>3
  <2>2. conn'[j] = InfoPending(known[j], meta') \/ conn'[j] = conn[j]
    BY DEF Handshake
  <2> HIDE DEF known
  <2> QED BY <2>1, <2>2, <1>1, <1>2, <1>3
<1>5. conn' \in [InfoConns -> InfoConn]
  <2>1. conn' = [j \in InfoConns |-> conn'[j]]
    BY DEF Handshake
  <2> QED BY <2>1, <1>4
<1>6. info' = info /\ withAll' = withAll /\ rel' = rel
  BY DEF Handshake
<1> QED BY <1>2, <1>4, <1>5, <1>6, SameCounts

\* What opening the info counts covers what the open connections will count out.
LEMMA OpensStep ==
  ASSUME InfoInv, info' = "good", rel' = AvailabilityFromPeers, withAll' = withAll,
         conn' \in [InfoConns -> InfoConn],
         \A j \in InfoConns : /\ conn'[j].all = conn[j].all /\ conn'[j].pieces = conn[j].pieces
                              /\ conn'[j].st = conn[j].st,
         meta' \in InfoMeta, meta'.done \subseteq 1 .. meta'.size
  PROVE  InfoInv'
<1>1. withAll' = {k \in InfoConns : Open(k)' /\ conn'[k].all}
  BY DEF InfoInv, Open
<1>2. ASSUME NEW p \in InfoPieces
      PROVE  rel'[p] \in Nat /\ rel'[p] >= Cardinality(Counted(p)')
  <2> DEFINE H == {k \in Present \ withAll : HasPiece(conn[k], p)}
  <2>1. Counted(p)' \subseteq H /\ H \subseteq InfoConns
    BY DEF Counted, Open, Present, HasPiece
  <2>2. IsFiniteSet(H) /\ Cardinality(H) \in Nat
    BY <2>1, InfoAssumption, FS_Subset, FS_CardinalityType
  <2>3. Cardinality(Counted(p)') <= Cardinality(H) /\ Cardinality(Counted(p)') \in Nat
    <3> HIDE DEF H
    <3> QED BY <2>1, <2>2, FS_Subset, CountedFinite
  <2>4. rel'[p] = Cardinality(H)
    BY DEF AvailabilityFromPeers
  <2> HIDE DEF H
  <2> QED BY <2>2, <2>3, <2>4
<1>3. rel' \in [InfoPieces -> Nat]
  BY <1>2 DEF AvailabilityFromPeers
<1>4. AvailabilityCovers'
  BY <1>2 DEF AvailabilityCovers
<1> QED BY <1>1, <1>3, <1>4 DEF InfoInv

LEMMA SavedIs ==
  ASSUME InfoInv, NEW i \in InfoChunks, NEW good \in BOOLEAN
  PROVE  /\ SaveMetadataPiece(i, good) \in InfoMeta
         /\ SaveMetadataPiece(i, good).done \subseteq 1 .. SaveMetadataPiece(i, good).size
<1> DEFINE v == IF good THEN "good" ELSE "bad"
           m == [meta EXCEPT !.data[i] = v, !.done = @ \cup {i}]
<1>1. meta \in InfoMeta /\ meta.done \subseteq 1 .. meta.size /\ i \in Nat /\ i >= 1
      /\ meta.size \in Nat
  BY RealSizeIs DEF InfoInv, InfoMeta
<1>2. CASE info # "none" \/ ~meta.alloc \/ i > meta.size
  BY <1>1, <1>2 DEF SaveMetadataPiece
<1>3. CASE ~(info # "none" \/ ~meta.alloc \/ i > meta.size)
  <2>1. SaveMetadataPiece(i, good) = m
    BY <1>3 DEF SaveMetadataPiece
  <2>2. v \in {"zero", "good", "bad"}
    OBVIOUS
  <2>3. m \in InfoMeta /\ m.done = meta.done \cup {i} /\ m.size = meta.size
    <3> HIDE DEF v
    <3> DEFINE d == [meta.data EXCEPT ![i] = v]
    <3>1. d \in [InfoChunks -> {"zero", "good", "bad"}]
      BY <1>1, <2>2 DEF InfoMeta
    <3>2. m = [meta EXCEPT !.data = d, !.done = meta.done \cup {i}]
      BY <1>1 DEF InfoMeta
    <3> HIDE DEF d
    <3> QED BY <1>1, <3>1, <3>2 DEF InfoMeta
  <2>4. i \in 1 .. meta.size
    BY <1>1, <1>3
  <2> HIDE DEF m
  <2> QED BY <2>1, <2>3, <2>4, <1>1
<1> QED BY <1>2, <1>3

LEMMA ChunkStep ==
  ASSUME InfoInv, HashKnown = "both", NEW k \in InfoConns, NEW i \in InfoChunks,
         NEW good \in BOOLEAN, NEW decodes \in BOOLEAN, NEW opens \in BOOLEAN,
         MetadataChunk(k, i, good, decodes, opens)
  PROVE  InfoInv'
<1> DEFINE m == SaveMetadataPiece(i, good)
           bytes == IF m.size = RealSize /\ \A j \in 1..m.size : m.data[j] = "good" THEN "good" ELSE "bad"
           ready == info = "none" /\ m.alloc /\ m.done = 1..m.size
           taken == ready /\ (bytes = "good" \/ decodes) /\ HashInfoBytes(bytes)
           more == conn' = [conn EXCEPT ![k].asked = @ \ {i}]
           left == conn' = [conn EXCEPT ![k] = NoConn] /\ DecAvailability(k)
<1>0. m \in InfoMeta /\ m.done \subseteq 1 .. m.size
  BY SavedIs
<1>1. Open(k) /\ conn \in [InfoConns -> InfoConn] /\ conn[k] \in InfoConn
  BY DEF MetadataChunk, InfoInv
<1>2. \/ ~ready /\ meta' = m /\ more /\ UNCHANGED <<info, withAll, rel>>
      \/ taken /\ SetInfoBytes(m, bytes, opens) /\ (IF opens THEN more ELSE left)
      \/ ready /\ ~taken /\ meta' = [m EXCEPT !.done = {}] /\ UNCHANGED info /\ left
  BY DEF MetadataChunk
<1>3. ASSUME more
      PROVE  /\ conn' \in [InfoConns -> InfoConn]
             /\ \A j \in InfoConns : /\ conn'[j].all = conn[j].all /\ conn'[j].pieces = conn[j].pieces
                                     /\ conn'[j].st = conn[j].st
  <2>1. PICK c \in InfoConn : conn' = [conn EXCEPT ![k] = c] /\ c.st = conn[k].st
                              /\ c.all = conn[k].all /\ c.pieces = conn[k].pieces
    <3> DEFINE d == [conn[k] EXCEPT !.asked = @ \ {i}]
    <3>1. d \in InfoConn /\ d.st = conn[k].st /\ d.all = conn[k].all /\ d.pieces = conn[k].pieces
      BY <1>1 DEF InfoConn
    <3>2. conn' = [conn EXCEPT ![k] = d]
      BY <1>1, <1>3
    <3> QED BY <3>1, <3>2
  <2> QED BY <2>1, <1>1
<1>4. ASSUME left, info' = info, meta' \in InfoMeta, meta'.done \subseteq 1 .. meta'.size
      PROVE  InfoInv'
  <2>1. NoConn \in InfoConn /\ NoConn.st # "open" /\ ~NoConn.all
    BY DEF InfoConn, NoConn
  <2> QED BY <2>1, <1>1, <1>4, CountedOut
<1>5. ASSUME NEW a \in BOOLEAN
      PROVE  /\ [m EXCEPT !.done = {}, !.alloc = FALSE] \in InfoMeta
             /\ [m EXCEPT !.done = {}, !.alloc = FALSE].done = {}
             /\ [m EXCEPT !.done = {}] \in InfoMeta /\ [m EXCEPT !.done = {}].done = {}
  <2> HIDE DEF m
  <2> QED BY <1>0 DEF InfoMeta
<1> HIDE DEF m, bytes, ready
<1>6. CASE meta' = m /\ more /\ UNCHANGED <<info, withAll, rel>>
  BY <1>0, <1>3, <1>6, SameCounts
<1>7. CASE taken /\ SetInfoBytes(m, bytes, opens) /\ (IF opens THEN more ELSE left)
  <2>1. meta' = [m EXCEPT !.done = {}, !.alloc = FALSE]
    BY <1>7 DEF SetInfoBytes
  <2>2. meta' \in InfoMeta /\ meta'.done \subseteq 1 .. meta'.size
    BY <2>1, <1>5
  <2>3. CASE opens
    <3>1. info' = bytes /\ rel' = AvailabilityFromPeers /\ withAll' = withAll /\ more
      BY <1>7, <2>3 DEF SetInfoBytes
    <3>2. bytes = "good"
      BY <1>7 DEF HashInfoBytes
    <3> QED BY <3>1, <3>2, <2>2, <1>3, OpensStep
  <2>4. CASE ~opens
    <3>1. info' = info /\ left
      BY <1>7, <2>4 DEF SetInfoBytes
    <3> QED BY <3>1, <2>2, <1>4
  <2> QED BY <2>3, <2>4
<1>8. CASE meta' = [m EXCEPT !.done = {}] /\ UNCHANGED info /\ left
  BY <1>8, <1>5, <1>4
<1> QED BY <1>2, <1>6, <1>7, <1>8

LEMMA InfoInvInit == InfoInit => InfoInv
<1> SUFFICES ASSUME InfoInit PROVE InfoInv
  OBVIOUS
<1>1. NoMeta \in InfoMeta /\ NoMeta.done = {}
  BY RealSizeIs DEF NoMeta, InfoMeta
<1>2. NoConn \in InfoConn /\ NoConn.st = "none" /\ NoConn.pieces = {} /\ ~NoConn.all
  BY DEF NoConn, InfoConn
<1> QED BY <1>1, <1>2 DEF InfoInit, InfoInv, Open, AvailabilityCovers

LEMMA InfoInvNext ==
  ASSUME HashKnown = "both", ~RepeatsState, InfoInv, [InfoNext]_infoVars
  PROVE  InfoInv'
<1>1. CASE UNCHANGED infoVars
  BY <1>1 DEF infoVars, InfoInv, AvailabilityCovers, Counted, Open
<1>2. CASE InfoNext
  <2>1. PICK k \in InfoConns :
    \/ ConnJoins(k) \/ WriterEnds(k) \/ ConnGone(k) \/ ConnDropped(k)
    \/ SentHaveAll(k) \/ SentHaveNone(k)
    \/ \E p \in InfoPieces : SentHave(k, p)
    \/ \E bf \in SUBSET InfoPieces : SentBitfield(k, bf)
    \/ \E size \in {1, RealSize} : Handshake(k, size)
    \/ \E i \in InfoChunks, good, decodes, opens \in BOOLEAN : MetadataChunk(k, i, good, decodes, opens)
    BY <1>2 DEF InfoNext
  <2>2. CASE ConnJoins(k) \/ ConnGone(k)
    BY <2>2, JoinStep
  <2>3. CASE WriterEnds(k) \/ ConnDropped(k) \/ SentHaveNone(k)
    BY <2>3, LeaveStep
  <2>4. CASE \/ SentHaveAll(k) \/ \E p \in InfoPieces : SentHave(k, p)
             \/ \E bf \in SUBSET InfoPieces : SentBitfield(k, bf)
    BY <2>4, SentStep
  <2>5. CASE \E size \in {1, RealSize} : Handshake(k, size)
    BY <2>5, HandshakeStep
  <2>6. CASE \E i \in InfoChunks, good, decodes, opens \in BOOLEAN :
               MetadataChunk(k, i, good, decodes, opens)
    BY <2>6, ChunkStep
  <2> QED BY <2>1, <2>2, <2>3, <2>4, <2>5, <2>6
<1> QED BY <1>1, <1>2

LEMMA InfoInvSafe == InfoInv => InfoSafe
<1> SUFFICES ASSUME InfoInv PROVE InfoSafe
  OBVIOUS
<1>1. InfoTypeOK
  BY DEF InfoInv, InfoMeta, InfoTypeOK
<1> QED BY <1>1 DEF InfoInv, InfoSafe, InfoMatchesHash

\* With both infohashes known and peers that do not take a HaveAll back, the pieces' counts
\* cover what will be counted out, and the info is made of the bytes the infohash stands for.
THEOREM InfoStaysSafe ==
  ASSUME HashKnown = "both", ~RepeatsState
  PROVE  InfoSpec => []InfoSafe
<1>1. InfoInv /\ [InfoNext]_infoVars => InfoInv'
  BY InfoInvNext
<1> QED BY <1>1, InfoInvInit, InfoInvSafe, PTL DEF InfoSpec

LEMMA LeastOf ==
  ASSUME NEW S \in SUBSET Nat, S # {}
  PROVE  \E m \in S : \A x \in S : m <= x
<1>1. PICK m \in S : \A y \in S : ~(<<y, m>> \in OpToRel(<, Nat))
  BY NatLessThanWellFounded, WFMin
<1>2. \A y \in S : ~(y < m)
  BY <1>1 DEF OpToRel
<1> QED BY <1>2
-----------------------------------------------------------------------------
(* Web seeds.                                                              *)

WsReqs == [st : {"none", "reading", "done", "resting"}, begin : Nat, next : Nat, end : Nat,
           cancelled : BOOLEAN]

\* A request reads within the slice it began in, and has something left while it reads.
InSlice(k, r) ==
  /\ SliceOf(r.begin) = k[2] /\ r.begin < r.end
  /\ r.end <= SliceEnd(k[1], k[2]) /\ r.next \in r.begin .. r.end
  /\ r.st = "reading" => r.next < r.end

WsInv ==
  /\ wsReq \in [WsKeys -> WsReqs] /\ SlotsCounted /\ PausedIsCancelled
  /\ \A k \in ActiveWs : InSlice(k, wsReq[k])

LEMMA MinIs ==
  ASSUME NEW S \in SUBSET Nat, S # {}
  PROVE  Min(S) \in S /\ \A x \in S : Min(S) <= x
<1>1. PICK m \in S : \A x \in S : m <= x
  BY LeastOf
<1> QED BY <1>1 DEF Min

LEMMA WsKeysFinite ==
  /\ IsFiniteSet(WsKeys)
  /\ \A k \in WsKeys : k[1] \in WsTorrents /\ k[2] \in Nat
<1> DEFINE S(t) == 0 .. (WsSize[t] - 1) \div WsSlice
           F == {{t} \X S(t) : t \in WsTorrents}
<1>1. ASSUME NEW t \in WsTorrents
      PROVE  IsFiniteSet({t} \X S(t)) /\ S(t) \subseteq Nat
  <2>1. (WsSize[t] - 1) \div WsSlice \in Int
    BY WsAssumption
  <2>2. IsFiniteSet(S(t)) /\ IsFiniteSet({t})
    <3>1. \A n \in Int : IsFiniteSet(0 .. n)
      BY FS_Interval
    <3>2. IsFiniteSet(S(t))
      BY <2>1, <3>1
    <3> QED BY <3>2, FS_Singleton
  <2> HIDE DEF S
  <2>3. IsFiniteSet({t} \X S(t))
    BY <2>2, FS_Product
  <2>4. S(t) \subseteq Nat
    BY <2>1 DEF S
  <2> QED BY <2>3, <2>4
<1>2. IsFiniteSet(F) /\ \A X \in F : IsFiniteSet(X)
  <2>1. IsFiniteSet(F)
    <3> HIDE DEF S
    <3> DEFINE g == [t \in WsTorrents |-> {t} \X S(t)]
    <3>1. g \in Surjection(WsTorrents, F)
      BY DEF Surjection
    <3> HIDE DEF g, F
    <3> QED BY <3>1, WsAssumption, FS_Surjection
  <2> QED BY <2>1, <1>1
<1>3. IsFiniteSet(UNION F)
  <2> HIDE DEF F
  <2> QED BY <1>2, FS_UNION
<1>4. WsKeys = UNION F
  BY DEF WsKeys
<1>5. \A k \in UNION F : k[1] \in WsTorrents /\ k[2] \in Nat
  <2> HIDE DEF S
  <2> TAKE k \in UNION F
  <2>1. PICK t \in WsTorrents : k \in {t} \X S(t)
    OBVIOUS
  <2>2. k[1] = t /\ k[2] \in S(t)
    BY <2>1
  <2> QED BY <2>2, <1>1
<1> HIDE DEF F
<1> QED BY <1>3, <1>4, <1>5

LEMMA DisjointSum ==
  ASSUME NEW S, NEW T, IsFiniteSet(S), IsFiniteSet(T), S \cap T = {}
  PROVE  Cardinality(S \cup T) = Cardinality(S) + Cardinality(T)
<1>1. Cardinality(S \cup T) = Cardinality(S) + Cardinality(T) - Cardinality(S \cap T)
  BY FS_Union
<1>2. Cardinality(S \cap T) = 0
  BY FS_EmptySet
<1>3. Cardinality(S) \in Nat /\ Cardinality(T) \in Nat
  BY FS_CardinalityType
<1> QED BY <1>1, <1>2, <1>3

\* Where a new request of a slice may begin, and where it ends.
LEMMA EndIs ==
  ASSUME NEW k \in WsKeys, NEW c \in Startable(k)
  PROVE  /\ c \in Nat /\ SliceOf(c) = k[2] /\ k[1] \notin wsPaused \cup wsSusp
         /\ RequestEnd(k[1], c, k[2]) \in Nat /\ c < RequestEnd(k[1], c, k[2])
         /\ RequestEnd(k[1], c, k[2]) <= SliceEnd(k[1], k[2])
<1> DEFINE t == k[1]  s == k[2]
           top == (s + 1) * WsSlice
           E == {e \in (c + 1) .. SliceEnd(t, s) : e = SliceEnd(t, s) \/ ~WantsChunk(t, e)}
<1>1. t \in WsTorrents /\ s \in Nat /\ WsSize[t] \in Nat
  BY WsKeysFinite, WsAssumption
<1>2. c \in WsC(t) /\ SliceOf(c) = s /\ EffectivePrio(t, c) > 0 /\ t \notin wsSusp
  BY DEF Startable
<1>3. t \notin wsPaused
  BY <1>2 DEF EffectivePrio, WantsChunk
<1>4. c \in Nat /\ c < WsSize[t]
  BY <1>1, <1>2 DEF WsC
<1>5. top \in Nat /\ c < top
  BY <1>1, <1>2, <1>4, WsAssumption DEF SliceOf
<1>6. SliceEnd(t, s) \in Nat /\ c < SliceEnd(t, s)
  <2>1. Min({WsSize[t], top}) \in {WsSize[t], top}
    <3> HIDE DEF top
    <3> QED BY <1>1, <1>5, MinIs
  <2> HIDE DEF top
  <2> QED BY <2>1, <1>1, <1>4, <1>5 DEF SliceEnd, top
<1>7. SliceEnd(t, s) \in E /\ E \in SUBSET Nat
  BY <1>4, <1>6
<1>8. Min(E) \in E
  <2> HIDE DEF E
  <2> QED BY <1>7, MinIs
<1>9. RequestEnd(t, c, s) = Min(E)
  BY DEF RequestEnd
<1>10. \A e \in E : e \in Nat /\ c < e /\ e <= SliceEnd(t, s)
  BY <1>4, <1>6
<1> HIDE DEF E
<1> QED BY <1>2, <1>3, <1>4, <1>8, <1>9, <1>10

LEMMA ActiveFinite ==
  /\ IsFiniteSet(ActiveWs) /\ Cardinality(ActiveWs) \in Nat
  /\ IsFiniteSet(ActiveWs') /\ Cardinality(ActiveWs') \in Nat
<1>1. ActiveWs \subseteq WsKeys /\ ActiveWs' \subseteq WsKeys
  BY DEF ActiveWs
<1> QED BY <1>1, WsKeysFinite, FS_Subset, FS_CardinalityType

LEMMA BestIs ==
  ASSUME NEW K \in SUBSET WsKeys, NEW n \in Nat, NEW S \in Best(K, n)
  PROVE  /\ S \subseteq K /\ IsFiniteSet(K) /\ IsFiniteSet(S)
         /\ Cardinality(S) \in Nat /\ Cardinality(K) \in Nat
         /\ Cardinality(S) <= n
         /\ Cardinality(S) = n \/ S = K
<1>1. S \subseteq K /\ Cardinality(S) = Min({n, Cardinality(K)})
  BY DEF Best
<1>2. IsFiniteSet(K) /\ IsFiniteSet(S) /\ Cardinality(K) \in Nat /\ Cardinality(S) \in Nat
  BY <1>1, WsKeysFinite, FS_Subset, FS_CardinalityType
<1>3. Cardinality(S) \in {n, Cardinality(K)} /\ Cardinality(S) <= n
  BY <1>1, <1>2, MinIs
<1>4. Cardinality(S) = Cardinality(K) => S = K
  BY <1>1, <1>2, FS_Subset
<1> QED BY <1>1, <1>2, <1>3, <1>4

\* What a plan does: the new requests there are slots for.
PlanDoes(spawn) ==
  /\ spawn \subseteq NewKeys /\ IsFiniteSet(spawn) /\ Cardinality(spawn) <= FreeSlots
  /\ Cardinality(spawn) = FreeSlots \/ spawn = NewKeys
  /\ ActiveWs' = ActiveWs \cup spawn /\ wsNum' = wsNum + Cardinality(spawn)
  /\ \A k \in spawn : \E c \in Startable(k) : wsReq'[k] = Spawned(k, c)
  /\ \A k \in WsKeys \ spawn :
       wsReq'[k] = wsReq[k] \/ wsReq'[k] = [wsReq[k] EXCEPT !.cancelled = TRUE]
  /\ DOMAIN wsReq' = WsKeys /\ wsReq' = [k \in WsKeys |-> wsReq'[k]]

LEMMA PlanIs ==
  ASSUME WsInv, UpdateWebseedRequests
  PROVE  \E spawn : PlanDoes(spawn)
<1>0. PICK plan \in Planned(NewKeys) : \E spawn \in Best(plan \cap NewKeys, FreeSlots) :
       \E at \in {f \in [spawn -> 0 .. Max({WsSize[t] : t \in WsTorrents}) - 1] :
                   \A k \in spawn : f[k] \in Startable(k)} :
         /\ wsReq' = [k \in WsKeys |->
              IF k \in spawn THEN Spawned(k, at[k])
              ELSE IF k \in ActiveWs \ plan THEN [wsReq[k] EXCEPT !.cancelled = TRUE]
              ELSE wsReq[k]]
         /\ wsNum' = wsNum + Cardinality(spawn)
  BY DEF UpdateWebseedRequests
<1>1. PICK spawn \in Best(plan \cap NewKeys, FreeSlots) :
       \E at \in {f \in [spawn -> 0 .. Max({WsSize[t] : t \in WsTorrents}) - 1] :
                   \A k \in spawn : f[k] \in Startable(k)} :
         /\ wsReq' = [k \in WsKeys |->
              IF k \in spawn THEN Spawned(k, at[k])
              ELSE IF k \in ActiveWs \ plan THEN [wsReq[k] EXCEPT !.cancelled = TRUE]
              ELSE wsReq[k]]
         /\ wsNum' = wsNum + Cardinality(spawn)
  BY <1>0
<1>2. PICK at : /\ \A k \in spawn : at[k] \in Startable(k)
                /\ wsReq' = [k \in WsKeys |->
                     IF k \in spawn THEN Spawned(k, at[k])
                     ELSE IF k \in ActiveWs \ plan THEN [wsReq[k] EXCEPT !.cancelled = TRUE]
                     ELSE wsReq[k]]
                /\ wsNum' = wsNum + Cardinality(spawn)
  BY <1>1
<1> DEFINE kept == {k \in ActiveWs : k[1] \notin wsPaused}
           K == NewKeys \cup kept
<1>3. NewKeys \subseteq WsKeys /\ NewKeys \cap ActiveWs = {} /\ K \subseteq WsKeys
      /\ ActiveWs \subseteq WsKeys /\ kept \subseteq ActiveWs
  BY DEF NewKeys, ActiveWs
<1>4. wsNum \in Nat /\ wsNum = Cardinality(ActiveWs) /\ FreeSlots \in Nat /\ WsLimit \in Nat
      /\ WsLimit = wsNum + FreeSlots
  BY ActiveFinite, WsAssumption DEF WsInv, SlotsCounted, FreeSlots
<1>5. plan \in Best(K, WsLimit)
  BY DEF Planned
<1> HIDE DEF kept
<1>6. /\ plan \subseteq K /\ IsFiniteSet(plan) /\ Cardinality(plan) \in Nat
      /\ Cardinality(plan) <= WsLimit /\ (Cardinality(plan) = WsLimit \/ plan = K)
  <2> HIDE DEF K
  <2> QED BY <1>3, <1>4, <1>5, BestIs
<1>7. /\ spawn \subseteq plan \cap NewKeys /\ IsFiniteSet(spawn) /\ Cardinality(spawn) \in Nat
      /\ Cardinality(spawn) <= FreeSlots
      /\ Cardinality(spawn) = FreeSlots \/ spawn = plan \cap NewKeys
  <2>1. plan \cap NewKeys \in SUBSET WsKeys
    BY <1>3
  <2> QED BY <2>1, <1>4, BestIs
<1>8. Cardinality(spawn) = FreeSlots \/ spawn = NewKeys
  <2> SUFFICES ASSUME spawn = plan \cap NewKeys, Cardinality(spawn) # FreeSlots
               PROVE  spawn = NewKeys
    BY <1>7
  <2>1. CASE plan = K
    BY <2>1
  <2>2. CASE Cardinality(plan) = WsLimit
    <3> DEFINE A == plan \cap ActiveWs
    <3>1. plan = spawn \cup A /\ spawn \cap A = {} /\ A \subseteq ActiveWs
      BY <1>3, <1>6
    <3>2. IsFiniteSet(A) /\ Cardinality(A) \in Nat /\ Cardinality(A) <= Cardinality(ActiveWs)
      <4> HIDE DEF A
      <4> QED BY <3>1, ActiveFinite, FS_Subset, FS_CardinalityType
    <3>3. Cardinality(plan) = Cardinality(spawn) + Cardinality(A)
      <4> HIDE DEF A
      <4> QED BY <3>1, <3>2, <1>7, DisjointSum
    <3>4. ASSUME NEW l \in Nat, NEW f \in Nat, NEW n \in Nat, NEW s \in Nat, NEW a \in Nat,
                 l = n + f, s <= f, a <= n, l = s + a
          PROVE  s = f
      BY <3>4
    <3>5. Cardinality(spawn) = FreeSlots
      <4> HIDE DEF A
      <4> QED BY <2>2, <3>2, <3>3, <3>4, <1>4, <1>7
    <3> QED BY <3>5
  <2> QED BY <2>1, <2>2, <1>6
<1>9. \A k \in spawn : wsReq'[k] = Spawned(k, at[k])
  BY <1>2, <1>3, <1>7
<1>10. \A k \in WsKeys \ spawn :
         wsReq'[k] = wsReq[k] \/ wsReq'[k] = [wsReq[k] EXCEPT !.cancelled = TRUE]
  BY <1>2
<1>11. ActiveWs' = ActiveWs \cup spawn
  <2>1. \A k \in spawn : wsReq'[k].st # "none"
    <3>1. \A k, c : Spawned(k, c).st = "reading"
      BY DEF Spawned
    <3> QED BY <3>1, <1>9
  <2>2. \A k \in WsKeys \ spawn : wsReq'[k].st = wsReq[k].st
    <3> TAKE k \in WsKeys \ spawn
    <3>1. wsReq[k] \in WsReqs
      BY DEF WsInv
    <3> QED BY <3>1, <1>10 DEF WsReqs
  <2> QED BY <2>1, <2>2, <1>3, <1>7 DEF ActiveWs
<1>12. DOMAIN wsReq' = WsKeys /\ wsReq' = [k \in WsKeys |-> wsReq'[k]]
  BY <1>2
<1>13. \A k \in spawn : \E c \in Startable(k) : wsReq'[k] = Spawned(k, c)
  BY <1>2, <1>9
<1> HIDE DEF K
<1>14. PlanDoes(spawn)
  BY <1>2, <1>7, <1>8, <1>10, <1>11, <1>12, <1>13 DEF PlanDoes
<1> QED BY <1>14

LEMMA UpdateRequestsStep ==
  ASSUME WsInv, UpdateWebseedRequests
  PROVE  WsInv'
<1>1. PICK spawn : PlanDoes(spawn)
  BY PlanIs
<1>2. wsPaused' = wsPaused /\ spawn \subseteq WsKeys /\ spawn \cap ActiveWs = {}
  BY <1>1 DEF UpdateWebseedRequests, PlanDoes, NewKeys
<1>3. \A k \in spawn : wsReq'[k] \in WsReqs /\ InSlice(k, wsReq'[k]) /\ k[1] \notin wsPaused
  <2> TAKE k \in spawn
  <2>1. PICK c \in Startable(k) : wsReq'[k] = Spawned(k, c)
    BY <1>1 DEF PlanDoes
  <2> DEFINE e == RequestEnd(k[1], c, k[2])
  <2>2. /\ c \in Nat /\ SliceOf(c) = k[2] /\ k[1] \notin wsPaused
        /\ e \in Nat /\ c < e /\ e <= SliceEnd(k[1], k[2])
    BY <1>2, EndIs
  <2>3. wsReq'[k] = [st |-> "reading", begin |-> c, next |-> c, end |-> e, cancelled |-> FALSE]
    BY <2>1 DEF Spawned
  <2> HIDE DEF e
  <2>4. wsReq'[k] \in WsReqs
    BY <2>2, <2>3 DEF WsReqs
  <2>5. InSlice(k, wsReq'[k])
    BY <2>2, <2>3 DEF InSlice
  <2> QED BY <2>2, <2>4, <2>5
<1>4. \A k \in WsKeys \ spawn :
         /\ wsReq'[k] \in WsReqs /\ (wsReq[k].cancelled => wsReq'[k].cancelled)
         /\ (k \in ActiveWs => InSlice(k, wsReq'[k]))
  <2> TAKE k \in WsKeys \ spawn
  <2>1. wsReq[k] \in WsReqs /\ (k \in ActiveWs => InSlice(k, wsReq[k]))
    BY DEF WsInv
  <2>2. wsReq'[k] = wsReq[k] \/ wsReq'[k] = [wsReq[k] EXCEPT !.cancelled = TRUE]
    BY <1>1 DEF PlanDoes
  <2>3. wsReq'[k] \in WsReqs /\ (wsReq[k].cancelled => wsReq'[k].cancelled)
        /\ wsReq'[k].st = wsReq[k].st /\ wsReq'[k].begin = wsReq[k].begin
        /\ wsReq'[k].next = wsReq[k].next /\ wsReq'[k].end = wsReq[k].end
    BY <2>1, <2>2 DEF WsReqs
  <2> QED BY <2>1, <2>3 DEF InSlice
<1>5. wsReq' \in [WsKeys -> WsReqs]
  BY <1>1, <1>3, <1>4 DEF PlanDoes
<1>6. SlotsCounted'
  <2>1. ActiveWs' = ActiveWs \cup spawn /\ wsNum' = wsNum + Cardinality(spawn)
        /\ Cardinality(spawn) <= WsLimit - wsNum /\ IsFiniteSet(spawn)
    BY <1>1 DEF PlanDoes, FreeSlots
  <2>2. Cardinality(spawn) \in Nat /\ wsNum = Cardinality(ActiveWs) /\ wsNum \in Nat
    BY <2>1, ActiveFinite, FS_CardinalityType DEF WsInv, SlotsCounted
  <2>3. Cardinality(ActiveWs \cup spawn) = Cardinality(ActiveWs) + Cardinality(spawn)
    BY <1>2, <2>1, ActiveFinite, DisjointSum
  <2>5. Cardinality(ActiveWs') = wsNum'
    BY <2>1, <2>2, <2>3
  <2> QED BY <2>1, <2>2, <2>5, WsAssumption DEF SlotsCounted
<1>7. PausedIsCancelled'
  <2> SUFFICES ASSUME NEW k \in ActiveWs', k[1] \in wsPaused PROVE wsReq'[k].cancelled
    BY <1>2 DEF PausedIsCancelled
  <2>1. k \in ActiveWs /\ k \in WsKeys \ spawn
    BY <1>1, <1>3 DEF PlanDoes, ActiveWs
  <2> QED BY <2>1, <1>4 DEF WsInv, PausedIsCancelled
<1>8. \A k \in ActiveWs' : InSlice(k, wsReq[k])'
  <2> TAKE k \in ActiveWs'
  <2>1. InSlice(k, wsReq'[k])
    BY <1>1, <1>3, <1>4 DEF PlanDoes, ActiveWs
  <2> QED BY <2>1 DEF InSlice, SliceOf, SliceEnd
<1> QED BY <1>5, <1>6, <1>7, <1>8 DEF WsInv

\* One request changes, and is there as before.
LEMMA OneChanges ==
  ASSUME WsInv, NEW k \in ActiveWs, NEW r \in WsReqs, wsReq' = [wsReq EXCEPT ![k] = r],
         r.st # "none", InSlice(k, r), wsReq[k].cancelled => r.cancelled,
         wsNum' = wsNum, wsPaused' = wsPaused
  PROVE  WsInv'
<1>1. k \in WsKeys /\ wsReq \in [WsKeys -> WsReqs] /\ wsReq' \in [WsKeys -> WsReqs]
      /\ wsReq'[k] = r /\ \A j \in WsKeys \ {k} : wsReq'[j] = wsReq[j]
  BY DEF WsInv, ActiveWs
<1>2. ActiveWs' = ActiveWs
  BY <1>1 DEF ActiveWs
<1>3. SlotsCounted'
  BY <1>2 DEF WsInv, SlotsCounted
<1>4. PausedIsCancelled'
  <2> SUFFICES ASSUME NEW j \in ActiveWs, j[1] \in wsPaused PROVE wsReq'[j].cancelled
    BY <1>2 DEF PausedIsCancelled
  <2>1. wsReq[j].cancelled /\ j \in WsKeys
    BY DEF WsInv, PausedIsCancelled, ActiveWs
  <2> QED BY <2>1, <1>1
<1>5. \A j \in ActiveWs' : InSlice(j, wsReq[j])'
  <2> TAKE j \in ActiveWs'
  <2>1. InSlice(j, wsReq'[j])
    BY <1>1, <1>2 DEF WsInv, ActiveWs
  <2> QED BY <2>1 DEF InSlice, SliceOf, SliceEnd
<1> QED BY <1>1, <1>3, <1>4, <1>5 DEF WsInv

LEMMA ReadStep ==
  ASSUME WsInv, NEW k \in WsKeys, ReadChunk(k) \/ ReadFails(k)
  PROVE  WsInv'
<1>1. k \in ActiveWs /\ wsReq[k] \in WsReqs /\ wsReq[k].st = "reading" /\ InSlice(k, wsReq[k])
      /\ wsNum' = wsNum /\ wsPaused' = wsPaused /\ wsReq \in [WsKeys -> WsReqs]
  BY DEF WsInv, ActiveWs, ReadChunk, ReadFails
<1>2. /\ wsReq[k].begin \in Nat /\ wsReq[k].next \in Nat /\ wsReq[k].end \in Nat
      /\ wsReq[k].cancelled \in BOOLEAN /\ wsReq[k].next < wsReq[k].end
  BY <1>1 DEF WsReqs, InSlice
<1>3. CASE ReadChunk(k)
  <2> DEFINE n == wsReq[k].next + 1
             window == {c \in n .. Min({wsReq[k].end - 1, n + WsWindow}) : WantsChunk(k[1], c)}
             st == IF n >= wsReq[k].end THEN "done" ELSE "reading"
             left == wsReq[k].cancelled \/ (n < wsReq[k].end /\ window = {})
             r == [wsReq[k] EXCEPT !.next = n, !.st = st, !.cancelled = left]
  <2>1. wsReq' = [wsReq EXCEPT ![k] = r]
    BY <1>1, <1>3 DEF ReadChunk
  <2>2. n \in Nat /\ st \in {"done", "reading"} /\ left \in BOOLEAN /\ (wsReq[k].cancelled => left)
        /\ n \in wsReq[k].begin .. wsReq[k].end /\ (st = "reading" => n < wsReq[k].end)
    BY <1>1, <1>2 DEF InSlice
  <2> HIDE DEF n, st, left
  <2>3. /\ r \in WsReqs /\ r.st = st /\ r.begin = wsReq[k].begin /\ r.next = n
        /\ r.end = wsReq[k].end /\ r.cancelled = left
    BY <1>1, <2>2 DEF WsReqs
  <2> HIDE DEF r
  <2>4. InSlice(k, r)
    BY <1>1, <2>2, <2>3 DEF InSlice
  <2> QED BY <1>1, <2>1, <2>2, <2>3, <2>4, OneChanges
<1>4. CASE ReadFails(k)
  <2> DEFINE r == [wsReq[k] EXCEPT !.st = "resting"]
  <2>1. wsReq' = [wsReq EXCEPT ![k] = r]
    BY <1>1, <1>4 DEF ReadFails
  <2>2. /\ r \in WsReqs /\ r.st = "resting" /\ r.begin = wsReq[k].begin /\ r.next = wsReq[k].next
        /\ r.end = wsReq[k].end /\ r.cancelled = wsReq[k].cancelled
    BY <1>1 DEF WsReqs
  <2> HIDE DEF r
  <2>3. InSlice(k, r)
    BY <1>1, <2>2 DEF InSlice
  <2> QED BY <1>1, <2>1, <2>2, <2>3, OneChanges
<1> QED BY <1>3, <1>4

LEMMA EndStep ==
  ASSUME WsInv, NEW k \in WsKeys, RequestEnds(k)
  PROVE  WsInv'
<1>1. k \in ActiveWs /\ wsReq \in [WsKeys -> WsReqs] /\ wsPaused' = wsPaused
      /\ wsReq' = [wsReq EXCEPT ![k] = NoWsReq] /\ wsNum' = wsNum - 1
  BY DEF WsInv, ActiveWs, RequestEnds
<1>2. NoWsReq \in WsReqs /\ NoWsReq.st = "none"
  BY DEF NoWsReq, WsReqs
<1>3. wsReq' \in [WsKeys -> WsReqs] /\ wsReq'[k].st = "none" /\ \A j \in WsKeys \ {k} : wsReq'[j] = wsReq[j]
  BY <1>1, <1>2
<1>4. ActiveWs' = ActiveWs \ {k}
  BY <1>3 DEF ActiveWs
<1>5. SlotsCounted'
  <2>1. Cardinality(ActiveWs') = Cardinality(ActiveWs) - 1
    BY <1>1, <1>4, ActiveFinite, FS_RemoveElement
  <2> QED BY <1>1, <2>1, ActiveFinite, WsAssumption DEF WsInv, SlotsCounted
<1>6. PausedIsCancelled'
  BY <1>1, <1>3, <1>4 DEF WsInv, PausedIsCancelled, ActiveWs
<1>7. \A j \in ActiveWs' : InSlice(j, wsReq[j])'
  <2> TAKE j \in ActiveWs'
  <2>1. InSlice(j, wsReq'[j])
    BY <1>3, <1>4 DEF WsInv, ActiveWs
  <2> QED BY <2>1 DEF InSlice, SliceOf, SliceEnd
<1> QED BY <1>3, <1>5, <1>6, <1>7 DEF WsInv

\* The requests stay as they are and no torrent is paused.
LEMMA SameRequests ==
  ASSUME WsInv, wsReq' = wsReq, wsNum' = wsNum, wsPaused' \subseteq wsPaused
  PROVE  WsInv'
<1>1. ActiveWs' = ActiveWs
  BY DEF ActiveWs
<1>2. \A j \in ActiveWs' : InSlice(j, wsReq[j])'
  <2> TAKE j \in ActiveWs'
  <2>1. InSlice(j, wsReq'[j])
    BY <1>1 DEF WsInv
  <2> QED BY <2>1 DEF InSlice, SliceOf, SliceEnd
<1> QED BY <1>1, <1>2 DEF WsInv, SlotsCounted, PausedIsCancelled

LEMMA PauseStep ==
  ASSUME WsInv, NEW t \in WsTorrents, PauseWs(t)
  PROVE  WsInv'
<1>1. wsReq' = [k \in WsKeys |-> IF k[1] = t /\ k \in ActiveWs
                                THEN [wsReq[k] EXCEPT !.cancelled = TRUE] ELSE wsReq[k]]
      /\ wsPaused' = wsPaused \cup {t} /\ wsNum' = wsNum
  BY DEF PauseWs
<1>2. ASSUME NEW k \in WsKeys
      PROVE  /\ wsReq'[k] \in WsReqs /\ wsReq'[k].st = wsReq[k].st
             /\ wsReq[k].cancelled \/ (k[1] = t /\ k \in ActiveWs) => wsReq'[k].cancelled
             /\ InSlice(k, wsReq[k]) => InSlice(k, wsReq'[k])
  <2>1. wsReq[k] \in WsReqs
    BY DEF WsInv
  <2>2. CASE k[1] = t /\ k \in ActiveWs
    <3>1. wsReq'[k] = [wsReq[k] EXCEPT !.cancelled = TRUE]
      BY <1>1, <2>2
    <3>2. /\ wsReq'[k] \in WsReqs /\ wsReq'[k].st = wsReq[k].st /\ wsReq'[k].cancelled
          /\ wsReq'[k].begin = wsReq[k].begin /\ wsReq'[k].next = wsReq[k].next
          /\ wsReq'[k].end = wsReq[k].end
      BY <2>1, <3>1 DEF WsReqs
    <3> QED BY <3>2 DEF InSlice
  <2>3. CASE ~(k[1] = t /\ k \in ActiveWs)
    BY <1>1, <2>1, <2>3
  <2> QED BY <2>2, <2>3
<1>3. ActiveWs' = ActiveWs
  BY <1>2 DEF ActiveWs
<1>4. wsReq' \in [WsKeys -> WsReqs]
  BY <1>1, <1>2
<1>5. PausedIsCancelled'
  BY <1>1, <1>2, <1>3 DEF WsInv, PausedIsCancelled, ActiveWs
<1>6. \A j \in ActiveWs' : InSlice(j, wsReq[j])'
  <2> TAKE j \in ActiveWs'
  <2>1. InSlice(j, wsReq'[j])
    BY <1>2, <1>3 DEF WsInv, ActiveWs
  <2> QED BY <2>1 DEF InSlice, SliceOf, SliceEnd
<1> QED BY <1>1, <1>3, <1>4, <1>5, <1>6 DEF WsInv, SlotsCounted

LEMMA WsInvInit == WsInit => WsInv
<1> SUFFICES ASSUME WsInit PROVE WsInv
  OBVIOUS
<1>1. NoWsReq \in WsReqs /\ NoWsReq.st = "none"
  BY DEF NoWsReq, WsReqs
<1>2. wsReq \in [WsKeys -> WsReqs] /\ ActiveWs = {} /\ wsNum = 0
  BY <1>1 DEF WsInit, ActiveWs
<1> QED BY <1>2, FS_EmptySet, WsAssumption DEF WsInv, SlotsCounted, PausedIsCancelled

LEMMA WsInvNext == WsInv /\ [WsNext]_wsVars => WsInv'
<1> SUFFICES ASSUME WsInv, [WsNext]_wsVars PROVE WsInv'
  OBVIOUS
<1>1. CASE UpdateWebseedRequests
  BY <1>1, UpdateRequestsStep
<1>2. CASE UpdatePanics
  BY <1>2, SameRequests DEF UpdatePanics
<1>3. ASSUME NEW k \in WsKeys, ReadChunk(k) \/ ReadFails(k) PROVE WsInv'
  BY <1>3, ReadStep
<1>4. ASSUME NEW k \in WsKeys, RequestEnds(k) PROVE WsInv'
  BY <1>4, EndStep
<1>5. ASSUME NEW t \in WsTorrents, PenanceOver(t) \/ ResumeWs(t) \/ DropWs(t) PROVE WsInv'
  BY <1>5, SameRequests DEF PenanceOver, ResumeWs, DropWs
<1>6. ASSUME NEW t \in WsTorrents, PauseWs(t) PROVE WsInv'
  BY <1>6, PauseStep
<1>7. ASSUME NEW t \in WsTorrents, NEW c \in WsC(t),
             PeerChunk(t, c) \/ HashedGood(t, c) \/ HashedBad(t, c) \/ \E p \in 0 .. 2 : ChoosePrio(t, c, p)
      PROVE  WsInv'
  BY <1>7, SameRequests DEF PeerChunk, HashedGood, HashedBad, ChoosePrio
<1>8. CASE UNCHANGED wsVars
  BY <1>8, SameRequests DEF wsVars
<1> QED BY <1>1, <1>2, <1>3, <1>4, <1>5, <1>6, <1>7, <1>8 DEF WsNext

LEMMA WsInvSafe == WsInv => WebseedSafe
BY DEF WsInv, WebseedSafe, SlicesDisjoint, InSlice

\* Only a plan starts a request, and it leaves no slot idle.
WsPlans ==
  wsNum' > wsNum =>
    /\ wsNum' = WsLimit \/ \A k \in WsKeys : Startable(k) # {} => wsReq'[k].st # "none"
    /\ \A k \in WsKeys \ ActiveWs : wsReq'[k].st # "none" => k[1] \notin wsSusp

LEMMA WsPlansNext == WsInv /\ [WsNext]_wsVars => WsPlans
<1> SUFFICES ASSUME WsInv, [WsNext]_wsVars, wsNum' > wsNum PROVE WsPlans
  BY DEF WsPlans
<1>0. wsNum \in Nat
  BY ActiveFinite DEF WsInv, SlotsCounted
<1>1. UpdateWebseedRequests
  <2>1. ASSUME NEW k \in WsKeys, ReadChunk(k) \/ ReadFails(k) PROVE wsNum' = wsNum
    BY <2>1 DEF ReadChunk, ReadFails
  <2>2. ASSUME NEW k \in WsKeys, RequestEnds(k) PROVE wsNum' = wsNum - 1
    BY <2>2 DEF RequestEnds
  <2>3. ASSUME NEW t \in WsTorrents, PenanceOver(t) \/ PauseWs(t) \/ ResumeWs(t) \/ DropWs(t)
        PROVE  wsNum' = wsNum
    BY <2>3 DEF PenanceOver, PauseWs, ResumeWs, DropWs
  <2>4. ASSUME NEW t \in WsTorrents, NEW c \in WsC(t),
             PeerChunk(t, c) \/ HashedGood(t, c) \/ HashedBad(t, c) \/ \E p \in 0 .. 2 : ChoosePrio(t, c, p)
        PROVE  wsNum' = wsNum
    BY <2>4 DEF PeerChunk, HashedGood, HashedBad, ChoosePrio
  <2>5. UpdatePanics \/ UNCHANGED wsVars => wsNum' = wsNum
    BY DEF UpdatePanics, wsVars
  <2>6. ~(wsNum' = wsNum) /\ ~(wsNum' = wsNum - 1)
    BY <1>0
  <2> QED BY <2>1, <2>2, <2>3, <2>4, <2>5, <2>6 DEF WsNext
<1>2. PICK spawn : PlanDoes(spawn)
  BY <1>1, PlanIs
<1>3. wsNum' = WsLimit \/ \A k \in WsKeys : Startable(k) # {} => wsReq'[k].st # "none"
  <2>1. CASE Cardinality(spawn) = FreeSlots
    BY <1>0, <1>2, <2>1, WsAssumption DEF PlanDoes, FreeSlots
  <2>2. CASE spawn = NewKeys
    <3>1. ActiveWs' = ActiveWs \cup NewKeys
      BY <1>2, <2>2 DEF PlanDoes
    <3>2. ASSUME NEW k \in WsKeys, Startable(k) # {} PROVE k \in ActiveWs \cup NewKeys
      BY <3>2 DEF NewKeys
    <3> QED BY <3>1, <3>2 DEF ActiveWs
  <2> QED BY <1>2, <2>1, <2>2 DEF PlanDoes
<1>4. ASSUME NEW k \in WsKeys \ ActiveWs, wsReq'[k].st # "none" PROVE k[1] \notin wsSusp
  <2>1. k \in ActiveWs'
    BY <1>4 DEF ActiveWs
  <2>2. k \in spawn
    BY <1>2, <2>1 DEF PlanDoes
  <2>3. PICK c : c \in Startable(k)
    BY <1>2, <2>2 DEF PlanDoes
  <2> QED BY <2>3, EndIs
<1> QED BY <1>3, <1>4 DEF WsPlans

(* The requests to web seeds are counted, each within its slice, and a paused torrent has none
   that goes on (webseed-requesting.go), for any torrents, sizes and limits. *)
THEOREM WebseedsStaySafe == WsSpec => []WebseedSafe
BY WsInvInit, WsInvNext, WsInvSafe, PTL DEF WsSpec

(* updateWebseedRequests leaves no slot idle that a wanted slice could use, and asks nothing of
   a URL that is doing penance. *)
THEOREM SlotsAreUsed == WsSpec => NoSlotIdle
<1>1. WsInv /\ [WsNext]_wsVars =>
        [wsNum' > wsNum =>
       /\ wsNum' = WsLimit \/ \A k \in WsKeys : Startable(k) # {} => wsReq'[k].st # "none"
       /\ \A k \in WsKeys \ ActiveWs : wsReq'[k].st # "none" => k[1] \notin wsSusp]_wsVars
  BY WsPlansNext DEF WsPlans
<1> QED BY <1>1, WsInvInit, WsInvNext, PTL DEF WsSpec, NoSlotIdle

-----------------------------------------------------------------------------
(* The connections of a torrent.                                           *)

AttemptRec == [a : Addrs, n : Nat]
PoolRec == [a : Addrs, n : Nat, out : BOOLEAN, old : BOOLEAN]

PoolInv ==
  /\ reserve \subseteq Addrs /\ incoming \subseteq Addrs
  /\ attempts \subseteq AttemptRec /\ IsFiniteSet(attempts)
  /\ pool \subseteq PoolRec /\ IsFiniteSet(pool)
  /\ WithinLimits

\* Of one more number than there are records, one is no record's.
LEMMA FreshIs ==
  ASSUME NEW X, IsFiniteSet(X), NEW a
  PROVE  Fresh(X, a) \in Nat /\ \A x \in X : x.a = a => x.n # Fresh(X, a)
<1> DEFINE m == Cardinality(X) + 1
           N == {x.n : x \in X}
<1>1. Cardinality(X) \in Nat
  BY FS_CardinalityType
<1>2. IsFiniteSet(N) /\ Cardinality(N) <= Cardinality(X) /\ Cardinality(N) \in Nat
  <2> DEFINE g == [x \in X |-> x.n]
  <2>1. g \in Surjection(X, N)
    BY DEF Surjection
  <2> HIDE DEF g, N
  <2> QED BY <2>1, FS_Surjection, FS_CardinalityType
<1>3. Cardinality(1 .. m) = m
  <2>1. m \in Nat \ {0}
    BY <1>1
  <2> HIDE DEF m
  <2> QED BY <2>1, FS_Interval
<1>4. ~(1 .. m \subseteq N)
  <2> SUFFICES ASSUME 1 .. m \subseteq N PROVE FALSE
    OBVIOUS
  <2>1. Cardinality(1 .. m) <= Cardinality(N)
    <3> HIDE DEF m, N
    <3> QED BY <1>2, FS_Subset
  <2> HIDE DEF N
  <2> QED BY <2>1, <1>1, <1>2, <1>3
<1>5. PICK n \in 1 .. m : n \notin N
  BY <1>4
<1>6. \A x \in X : x.a = a => x.n # n
  BY <1>5
<1>7. /\ Fresh(X, a) \in 1 .. m
      /\ \A x \in X : x.a = a => x.n # Fresh(X, a)
  BY <1>6 DEF Fresh
<1> QED BY <1>1, <1>7

\* Attempts to addresses that have none yet are as many as the addresses.
LEMMA StartsAre ==
  ASSUME NEW A \in SUBSET AttemptRec, IsFiniteSet(A), NEW D \in SUBSET Addrs,
         \A a \in D : \A x \in A : x.a # a, NEW X, IsFiniteSet(X)
  PROVE  LET N == {[a |-> a, n |-> Fresh(X, a)] : a \in D}
         IN /\ A \cup N \subseteq AttemptRec /\ IsFiniteSet(A \cup N) /\ IsFiniteSet(D)
            /\ Cardinality(A \cup N) = Cardinality(A) + Cardinality(D)
            /\ Cardinality(D) \in Nat
<1> DEFINE r(a) == [a |-> a, n |-> Fresh(X, a)]
           N == {r(a) : a \in D}
           f == [a \in D |-> r(a)]
<1>1. \A a : r(a).a = a /\ (a \in Addrs => r(a) \in AttemptRec)
  BY FreshIs DEF AttemptRec
<1> HIDE DEF r
<1>2. f \in Bijection(D, N)
  BY <1>1 DEF Bijection, Injection, Surjection, IsInjective
<1>3. IsFiniteSet(D) /\ Cardinality(D) \in Nat
  BY PoolAssumption, FS_Subset, FS_CardinalityType
<1>4. IsFiniteSet(N) /\ Cardinality(N) = Cardinality(D)
  <2> HIDE DEF f, N
  <2> QED BY <1>2, <1>3, FS_Bijection DEF ExistsBijection
<1>5. A \cap N = {} /\ N \subseteq AttemptRec
  BY <1>1
<1>6. IsFiniteSet(A \cup N) /\ Cardinality(A \cup N) = Cardinality(A) + Cardinality(D)
  <2> HIDE DEF N
  <2>1. IsFiniteSet(A \cup N)
    BY <1>4, FS_Union
  <2>2. Cardinality(A \cup N) = Cardinality(A) + Cardinality(N)
    BY <1>4, <1>5, DisjointSum
  <2> QED BY <1>4, <2>1, <2>2
<1>7. N = {[a |-> a, n |-> Fresh(X, a)] : a \in D}
  BY DEF r
<1> HIDE DEF N
<1> QED BY <1>3, <1>5, <1>6, <1>7

\* The look for more to dial: what it starts, it counts.
Dialed(R, A, change) ==
  /\ reserve' \subseteq R /\ A \subseteq attempts' /\ attempts' \subseteq AttemptRec /\ IsFiniteSet(attempts')
  /\ gone => attempts' = A
  /\ numHalf' = numHalf + change + (Cardinality(attempts') - Cardinality(A))

LEMMA OpenedIs ==
  ASSUME NEW R \in SUBSET Addrs, NEW A \in SUBSET AttemptRec, IsFiniteSet(A),
         NEW P, IsFiniteSet(P), IsFiniteSet(pool), NEW change, OpenNewConns(R, A, P, change)
  PROVE  Dialed(R, A, change)
<1>1. PICK S \in Taken(R, A, P, wanted') :
        LET started == {a \in S : MayDial(a, A, P, FALSE)}
        IN /\ reserve' = R \ S
           /\ attempts' = A \cup {[a |-> a, n |-> Fresh(A \cup pool \cup P, a)] : a \in started}
           /\ numHalf' = numHalf + change + Cardinality(started)
  BY DEF OpenNewConns
<1> DEFINE D == {a \in S : MayDial(a, A, P, FALSE)}
           X == A \cup pool \cup P
<1>2. S \subseteq R /\ (gone => S = {})
  BY DEF Taken, WantConns
<1>3. D \subseteq Addrs /\ (gone => D = {}) /\ \A a \in D : \A x \in A : x.a # a
  BY <1>2 DEF MayDial
<1>4. IsFiniteSet(X)
  BY FS_Union
<1>5. attempts' = A \cup {[a |-> a, n |-> Fresh(X, a)] : a \in D} /\ reserve' \subseteq R
      /\ numHalf' = numHalf + change + Cardinality(D)
  BY <1>1
<1> HIDE DEF D, X
<1>6. /\ attempts' \subseteq AttemptRec /\ IsFiniteSet(attempts')
      /\ Cardinality(attempts') = Cardinality(A) + Cardinality(D) /\ Cardinality(D) \in Nat
  BY <1>3, <1>4, <1>5, StartsAre
<1>7. Cardinality(A) \in Nat
  BY FS_CardinalityType
<1>8. Cardinality(attempts') - Cardinality(A) = Cardinality(D)
  BY <1>6, <1>7
<1>9. gone => attempts' = A
  BY <1>3, <1>5
<1>10. A \subseteq attempts'
  BY <1>5
<1> QED BY <1>5, <1>6, <1>8, <1>9, <1>10 DEF Dialed

LEMMA FewerIn ==
  ASSUME NEW S, IsFiniteSet(S), NEW T \in SUBSET S
  PROVE  IsFiniteSet(T) /\ Cardinality(T) \in Nat /\ Cardinality(S) \in Nat
         /\ Cardinality(T) <= Cardinality(S)
BY FS_Subset, FS_CardinalityType

\* The pool after a connection came, or none.
LEMMA AddIs ==
  ASSUME PoolInv, NEW a \in Addrs, NEW n \in Nat, NEW way \in BOOLEAN, NEW P \in AddPeerConn(a, n, way)
  PROVE  P \subseteq PoolRec /\ IsFiniteSet(P) /\ Cardinality(P) <= PoolMax /\ (gone => P = pool)
<1> DEFINE new == [a |-> a, n |-> n, out |-> way, old |-> FALSE]
           W == WorstBad(pool, WrongWay(pool, way))
<1>1. new \in PoolRec
  BY DEF PoolRec
<1>2. pool \subseteq PoolRec /\ IsFiniteSet(pool) /\ Cardinality(pool) \in Nat
      /\ Cardinality(pool) <= PoolMax
  BY FS_CardinalityType DEF PoolInv, WithinLimits
<1>3. P \in IF gone THEN {pool}
            ELSE IF Cardinality(pool) < PoolMax THEN {pool \cup {new}}
            ELSE {IF w = None THEN pool ELSE (pool \ {w}) \cup {new} : w \in W}
  BY DEF AddPeerConn
<1>4. W \subseteq pool \cup {None}
  BY DEF WorstBad
<1> HIDE DEF new, W
<1>5. CASE P = pool
  BY <1>2, <1>5
<1>6. CASE P # pool
  <2>1. ~gone
    BY <1>3, <1>6
  <2>2. CASE Cardinality(pool) < PoolMax
    <3>1. P = pool \cup {new}
      BY <1>3, <2>1, <2>2
    <3>2. IsFiniteSet(P) /\ Cardinality(P) <= Cardinality(pool) + 1 /\ Cardinality(P) \in Nat
      <4>1. IsFiniteSet(P) /\ (Cardinality(P) = Cardinality(pool) \/ Cardinality(P) = Cardinality(pool) + 1)
        BY <3>1, <1>2, FS_AddElement
      <4> QED BY <4>1, <1>2
    <3> QED BY <3>1, <3>2, <1>1, <1>2, <2>1, <2>2, PoolAssumption
  <2>3. CASE ~(Cardinality(pool) < PoolMax)
    <3>1. PICK w \in W : P = IF w = None THEN pool ELSE (pool \ {w}) \cup {new}
      BY <1>3, <2>1, <2>3
    <3>2. w \in pool /\ P = (pool \ {w}) \cup {new}
      BY <3>1, <1>4, <1>6
    <3>3. IsFiniteSet(pool \ {w}) /\ Cardinality(pool \ {w}) = Cardinality(pool) - 1
      BY <3>2, <1>2, FS_RemoveElement
    <3>4. IsFiniteSet(P) /\ (Cardinality(P) = Cardinality(pool \ {w}) \/ Cardinality(P) = Cardinality(pool \ {w}) + 1)
      BY <3>2, <3>3, FS_AddElement
    <3>5. P \subseteq PoolRec
      BY <3>2, <1>1, <1>2
    <3>6. Cardinality(P) <= PoolMax
      BY <3>3, <3>4, <1>2, PoolAssumption
    <3> QED BY <3>4, <3>5, <3>6, <2>1
  <2> QED BY <2>2, <2>3
<1> QED BY <1>5, <1>6

\* What every step keeps: the invariant, and that a closed torrent begins nothing.
PoolKept == PoolInv' /\ (gone => attempts' \subseteq attempts /\ pool' \subseteq pool)

LEMMA PoolFacts ==
  ASSUME PoolInv
  PROVE  /\ reserve \in SUBSET Addrs /\ attempts \in SUBSET AttemptRec /\ IsFiniteSet(attempts)
         /\ IsFiniteSet(pool) /\ pool \in SUBSET PoolRec /\ Cardinality(attempts) \in Nat
         /\ numHalf = Cardinality(attempts) /\ Cardinality(pool) \in Nat
         /\ Cardinality(pool) <= PoolMax /\ Cardinality(reserve) <= HighWater
         /\ IsFiniteSet(reserve) /\ Cardinality(reserve) \in Nat
<1>1. IsFiniteSet(reserve)
  BY PoolAssumption, FS_Subset DEF PoolInv
<1> QED BY <1>1, FS_CardinalityType DEF PoolInv, WithinLimits

\* A step that dials with a pool made smaller, one attempt over or none.
LEMMA OpensKeeps ==
  ASSUME PoolInv, NEW A \in SUBSET attempts, NEW change \in Int,
         change = Cardinality(A) - Cardinality(attempts), Dialed(reserve, A, change),
         pool' \subseteq PoolRec, IsFiniteSet(pool'), Cardinality(pool') <= PoolMax,
         gone => pool' \subseteq pool, incoming' \subseteq Addrs
  PROVE  PoolKept
<1>1. /\ reserve \in SUBSET Addrs /\ IsFiniteSet(reserve) /\ IsFiniteSet(attempts)
      /\ Cardinality(attempts) \in Nat /\ numHalf = Cardinality(attempts)
      /\ Cardinality(reserve) <= HighWater
  BY PoolFacts
<1>2. Cardinality(A) \in Nat
  BY <1>1, FewerIn
<1>3. /\ reserve' \subseteq reserve /\ attempts' \subseteq AttemptRec /\ IsFiniteSet(attempts')
      /\ (gone => attempts' = A)
      /\ numHalf' = numHalf + change + (Cardinality(attempts') - Cardinality(A))
  BY DEF Dialed
<1>4. Cardinality(attempts') \in Nat
  BY <1>3, FS_CardinalityType
<1>5. numHalf' = Cardinality(attempts')
  BY <1>1, <1>2, <1>3, <1>4
<1>6. Cardinality(reserve') <= HighWater
  <2>1. Cardinality(reserve') <= Cardinality(reserve) /\ Cardinality(reserve') \in Nat
        /\ Cardinality(reserve) \in Nat
    BY <1>1, <1>3, FewerIn
  <2> QED BY <2>1, <1>1, PoolAssumption
<1>7. PoolInv'
  BY <1>1, <1>3, <1>5, <1>6 DEF PoolInv, WithinLimits
<1> QED BY <1>3, <1>7 DEF PoolKept

\* A step that dials nothing.
LEMMA NoDialKeeps ==
  ASSUME PoolInv, UNCHANGED <<reserve, attempts, numHalf>>,
         pool' \subseteq PoolRec, IsFiniteSet(pool'), Cardinality(pool') <= PoolMax,
         gone => pool' \subseteq pool, incoming' \subseteq Addrs
  PROVE  PoolKept
BY DEF PoolInv, WithinLimits, PoolKept

LEMMA AddPeerStep ==
  ASSUME PoolInv, NEW a \in Addrs, AddPeer(a)
  PROVE  PoolKept
<1> DEFINE R == reserve \cup {a}
<1>0. PoolInv /\ ~gone /\ pool' = pool /\ incoming' = incoming
  BY DEF AddPeer
<1>1. PICK S \in Taken(R, attempts, pool, wanted), keep \in SUBSET Addrs :
       LET started == {b \in S : MayDial(b, attempts, pool, FALSE)}
           left == R \ S
       IN /\ keep \subseteq left /\ Cardinality(keep) = Fewest(Cardinality(left), HighWater)
          /\ reserve' = keep
          /\ attempts' = attempts \cup {[a |-> b, n |-> Fresh(attempts \cup pool, b)] : b \in started}
          /\ numHalf' = numHalf + Cardinality(started)
  BY DEF AddPeer
<1> DEFINE D == {b \in S : MayDial(b, attempts, pool, FALSE)}
           X == attempts \cup pool
<1>2. S \subseteq R /\ R \subseteq Addrs
  BY PoolFacts DEF Taken
<1>3. D \subseteq Addrs /\ \A b \in D : \A x \in attempts : x.a # b
  BY <1>2 DEF MayDial
<1>4. IsFiniteSet(X)
  BY PoolFacts, FS_Union
<1>5. attempts' = attempts \cup {[a |-> b, n |-> Fresh(X, b)] : b \in D}
      /\ numHalf' = numHalf + Cardinality(D)
      /\ reserve' \subseteq Addrs /\ Cardinality(reserve') = Fewest(Cardinality(R \ S), HighWater)
  BY <1>1
<1> HIDE DEF D, X
<1>6. /\ attempts' \subseteq AttemptRec /\ IsFiniteSet(attempts')
      /\ Cardinality(attempts') = Cardinality(attempts) + Cardinality(D)
  <2>1. attempts \in SUBSET AttemptRec /\ IsFiniteSet(attempts)
    BY PoolFacts
  <2>2. D \in SUBSET Addrs
    BY <1>3
  <2> QED BY <1>3, <1>4, <1>5, <2>1, <2>2, StartsAre
<1>7. Cardinality(reserve') <= HighWater
  <2>1. Cardinality(R \ S) \in Nat
    BY <1>2, PoolAssumption, FS_Subset, FS_CardinalityType
  <2> QED BY <2>1, <1>5, PoolAssumption DEF Fewest
<1>8. numHalf' = Cardinality(attempts')
  BY <1>5, <1>6, PoolFacts
<1> QED BY <1>0, <1>5, <1>6, <1>7, <1>8 DEF PoolInv, WithinLimits, PoolKept

LEMMA HolepunchStep ==
  ASSUME PoolInv, NEW a \in Addrs, HolepunchConnect(a)
  PROVE  PoolKept
<1> DEFINE X == attempts \cup pool
           x == [a |-> a, n |-> Fresh(X, a)]
<1>0. ~gone /\ pool' = pool /\ incoming' = incoming /\ reserve' = reserve
      /\ attempts' = attempts \cup {x} /\ numHalf' = numHalf + 1
  BY DEF HolepunchConnect
<1>1. IsFiniteSet(X)
  BY PoolFacts, FS_Union
<1>2. Fresh(X, a) \in Nat /\ \A y \in X : y.a = a => y.n # Fresh(X, a)
  <2> HIDE DEF X
  <2> QED BY <1>1, FreshIs
<1>3. x \in AttemptRec /\ x.a = a /\ x.n = Fresh(X, a)
  BY <1>2 DEF AttemptRec
<1>4. x \notin attempts
  BY <1>2, <1>3
<1> HIDE DEF x, X
<1>5. IsFiniteSet(attempts') /\ Cardinality(attempts') = Cardinality(attempts) + 1
  BY <1>0, <1>4, PoolFacts, FS_AddElement
<1>6. numHalf' = Cardinality(attempts') /\ attempts' \subseteq AttemptRec
  BY <1>0, <1>3, <1>5, PoolFacts
<1> QED BY <1>0, <1>5, <1>6 DEF PoolInv, WithinLimits, PoolKept

LEMMA DialStep ==
  ASSUME PoolInv, NEW x \in attempts, DialFails(x) \/ DialSucceeds(x)
  PROVE  PoolKept
<1> DEFINE A == attempts \ {x}
<1>1. OpenNewConns(reserve, A, pool, -1) /\ incoming' = incoming
  BY DEF DialFails, DialSucceeds, NoLongerHalfOpen
<1>2. A \in SUBSET attempts /\ IsFiniteSet(A) /\ Cardinality(A) = Cardinality(attempts) - 1
      /\ A \in SUBSET AttemptRec
  BY PoolFacts, FS_RemoveElement
<1>3. -1 = Cardinality(A) - Cardinality(attempts) /\ -1 \in Int
  <2> HIDE DEF A
  <2> QED BY <1>2, PoolFacts
<1> HIDE DEF A
<1>4. Dialed(reserve, A, -1)
  BY <1>1, <1>2, PoolFacts, OpenedIs
<1>5. pool' \subseteq PoolRec /\ IsFiniteSet(pool') /\ Cardinality(pool') <= PoolMax
      /\ (gone => pool' \subseteq pool)
  <2>1. CASE DialFails(x)
    BY <2>1, PoolFacts DEF DialFails
  <2>2. CASE DialSucceeds(x)
    <3>1. x.a \in Addrs /\ x.n \in Nat /\ pool' \in AddPeerConn(x.a, x.n, TRUE)
      BY <2>2, PoolFacts DEF DialSucceeds, AttemptRec
    <3> QED BY <3>1, AddIs
  <2> QED BY <2>1, <2>2
<1>6. incoming' \subseteq Addrs
  BY <1>1 DEF PoolInv
<1> QED BY <1>2, <1>3, <1>4, <1>5, <1>6, OpensKeeps

\* The same attempts, and more.
LEMMA OpensOn ==
  ASSUME PoolInv, NEW P, IsFiniteSet(P), OpenNewConns(reserve, attempts, P, 0),
         pool' \subseteq pool, incoming' = incoming
  PROVE  PoolKept
<1>1. Dialed(reserve, attempts, 0)
  BY PoolFacts, OpenedIs
<1>2. 0 = Cardinality(attempts) - Cardinality(attempts) /\ 0 \in Int
  BY PoolFacts
<1>3. IsFiniteSet(pool') /\ Cardinality(pool') <= PoolMax /\ pool' \subseteq PoolRec
  <2>1. IsFiniteSet(pool') /\ Cardinality(pool') \in Nat /\ Cardinality(pool') <= Cardinality(pool)
    BY PoolFacts, FewerIn
  <2> QED BY <2>1, PoolFacts, PoolAssumption
<1>4. incoming' \subseteq Addrs
  BY DEF PoolInv
<1> QED BY <1>1, <1>2, <1>3, <1>4, OpensKeeps

LEMMA PoolLeaveStep ==
  ASSUME PoolInv, (\E c \in pool : ConnLeaves(c)) \/ (\E a \in Addrs : BanPeer(a)) \/ DemandChanges
  PROVE  PoolKept
<1>1. ASSUME NEW c \in pool, ConnLeaves(c) PROVE PoolKept
  <2>1. IsFiniteSet(pool \ {c}) /\ OpenNewConns(reserve, attempts, pool \ {c}, 0)
        /\ pool' \subseteq pool /\ incoming' = incoming
    BY <1>1, PoolFacts, FS_RemoveElement DEF ConnLeaves
  <2> QED BY <2>1, OpensOn
<1>2. ASSUME NEW a \in Addrs, BanPeer(a) PROVE PoolKept
  <2>1. pool' \subseteq pool /\ incoming' = incoming
    BY <1>2 DEF BanPeer
  <2>2. IsFiniteSet(pool')
    BY <2>1, PoolFacts, FS_Subset
  <2>3. CASE pool' = pool
    <3>1. UNCHANGED <<reserve, attempts, numHalf>>
      BY <1>2, <2>3 DEF BanPeer
    <3>2. incoming' \subseteq Addrs
      BY <2>1 DEF PoolInv
    <3> QED BY <2>3, <3>1, <3>2, PoolFacts, NoDialKeeps
  <2>4. CASE pool' # pool
    <3>1. OpenNewConns(reserve, attempts, pool', 0)
      BY <1>2, <2>4 DEF BanPeer
    <3> QED BY <2>1, <2>2, <3>1, OpensOn
  <2> QED BY <2>3, <2>4
<1>3. CASE DemandChanges
  <2>1. OpenNewConns(reserve, attempts, pool, 0) /\ pool' \subseteq pool /\ incoming' = incoming
    BY <1>3 DEF DemandChanges
  <2> QED BY <2>1, PoolFacts, OpensOn
<1> QED BY <1>1, <1>2, <1>3

LEMMA AgesStep ==
  ASSUME PoolInv, NEW c \in pool, ConnAges(c)
  PROVE  PoolKept
<1> DEFINE d == [c EXCEPT !.old = TRUE]
<1>1. d \in PoolRec
  BY PoolFacts DEF PoolRec
<1>2. pool' = (pool \ {c}) \cup {d} /\ ~gone /\ incoming' = incoming
      /\ UNCHANGED <<reserve, attempts, numHalf>>
  BY DEF ConnAges
<1> HIDE DEF d
<1>3. IsFiniteSet(pool \ {c}) /\ Cardinality(pool \ {c}) = Cardinality(pool) - 1
  BY PoolFacts, FS_RemoveElement
<1>4. IsFiniteSet(pool') /\ (Cardinality(pool') = Cardinality(pool \ {c}) \/ Cardinality(pool') = Cardinality(pool \ {c}) + 1)
  BY <1>2, <1>3, FS_AddElement
<1>5. Cardinality(pool') <= PoolMax
  BY <1>3, <1>4, PoolFacts, PoolAssumption
<1>6. pool' \subseteq PoolRec /\ incoming' \subseteq Addrs
  BY <1>1, <1>2, PoolFacts DEF PoolInv
<1> QED BY <1>2, <1>4, <1>5, <1>6, NoDialKeeps

LEMMA IncomingStep ==
  ASSUME PoolInv, NEW a \in Addrs, Accept(a) \/ HandshakeFails(a) \/ HandshakeReceived(a)
  PROVE  PoolKept
<1>1. incoming' \subseteq Addrs /\ UNCHANGED <<reserve, attempts, numHalf>>
  BY DEF PoolInv, Accept, HandshakeFails, HandshakeReceived
<1>2. CASE Accept(a) \/ HandshakeFails(a)
  <2>1. pool' = pool
    BY <1>2 DEF Accept, HandshakeFails
  <2> QED BY <1>1, <2>1, PoolFacts, NoDialKeeps
<1>3. CASE HandshakeReceived(a)
  <2>1. IsFiniteSet(attempts \cup pool)
    BY PoolFacts, FS_Union
  <2>2. Fresh(attempts \cup pool, a) \in Nat
    BY <2>1, FreshIs
  <2>3. pool' \in AddPeerConn(a, Fresh(attempts \cup pool, a), FALSE)
    BY <1>3 DEF HandshakeReceived
  <2>4. pool' \subseteq PoolRec /\ IsFiniteSet(pool') /\ Cardinality(pool') <= PoolMax
        /\ (gone => pool' \subseteq pool)
    BY <2>2, <2>3, AddIs
  <2> QED BY <1>1, <2>4, NoDialKeeps
<1> QED BY <1>2, <1>3

LEMMA PoolInvInit == PoolInit => PoolInv
BY FS_EmptySet, PoolAssumption DEF PoolInit, PoolInv, WithinLimits

LEMMA PoolInvNext == PoolInv /\ [PoolNext]_poolVars => PoolKept
<1> SUFFICES ASSUME PoolInv, [PoolNext]_poolVars PROVE PoolKept
  OBVIOUS
<1>1. ASSUME NEW a \in Addrs, AddPeer(a) PROVE PoolKept
  BY <1>1, AddPeerStep
<1>2. ASSUME NEW a \in Addrs, HolepunchConnect(a) PROVE PoolKept
  BY <1>2, HolepunchStep
<1>3. ASSUME NEW a \in Addrs, Accept(a) \/ HandshakeFails(a) \/ HandshakeReceived(a) PROVE PoolKept
  BY <1>3, IncomingStep
<1>4. ASSUME NEW a \in Addrs, BanPeer(a) PROVE PoolKept
  BY <1>4, PoolLeaveStep
<1>5. ASSUME NEW x \in attempts, DialFails(x) \/ DialSucceeds(x) PROVE PoolKept
  BY <1>5, DialStep
<1>6. ASSUME NEW c \in pool, ConnLeaves(c) PROVE PoolKept
  BY <1>6, PoolLeaveStep
<1>7. ASSUME NEW c \in pool, ConnAges(c) PROVE PoolKept
  BY <1>7, AgesStep
<1>8. CASE DemandChanges
  BY <1>8, PoolLeaveStep
<1>9. CASE ClearAcceptLimits \/ TorrentCloses \/ UNCHANGED poolVars
  <2>1. UNCHANGED <<reserve, attempts, numHalf>> /\ pool' = pool /\ incoming' = incoming
    BY <1>9 DEF ClearAcceptLimits, TorrentCloses, poolVars
  <2>2. incoming' \subseteq Addrs
    BY <2>1 DEF PoolInv
  <2> QED BY <2>1, <2>2, PoolFacts, NoDialKeeps
<1> QED BY <1>1, <1>2, <1>3, <1>4, <1>5, <1>6, <1>7, <1>8, <1>9 DEF PoolNext

LEMMA PoolInvSafe == PoolInv => PoolTypeOK /\ WithinLimits
BY DEF PoolInv, PoolTypeOK, PoolRec

(* Connections and attempts stay within the limits of addPeerConn, noLongerHalfOpen and addPeer
   (client.go, torrent.go), and a closed torrent begins nothing, for any addresses and limits. *)
THEOREM PoolStaysSafe == PoolSpec => PoolSafe
<1>1. PoolInv /\ [PoolNext]_poolVars => PoolInv'
  BY PoolInvNext DEF PoolKept
<1>2. PoolInv /\ [PoolNext]_poolVars => [gone => attempts' \subseteq attempts /\ pool' \subseteq pool]_poolVars
  BY PoolInvNext DEF PoolKept
<1> QED BY <1>1, <1>2, PoolInvInit, PoolInvSafe, PTL DEF PoolSpec, PoolSafe, ClosedStaysShut

\* The starts of one dispatch, one after another.
Starts(R, n, f) == f = [i \in 0 .. n |-> IF i = 0 THEN R ELSE StartAnnounce(f[i - 1])]

LEMMA StartsExist ==
  ASSUME NEW R, NEW n \in Nat
  PROVE  \E f : Starts(R, n, f)
<1> DEFINE Bad == {m \in Nat : ~ \E f : Starts(R, m, f)}
<1> SUFFICES ASSUME Bad # {} PROVE FALSE
  OBVIOUS
<1>1. PICK m \in Bad : \A x \in Bad : m <= x
  <2>1. Bad \in SUBSET Nat
    OBVIOUS
  <2> HIDE DEF Bad
  <2> QED BY <2>1, LeastOf
<1>2. CASE m = 0
  <2> DEFINE f == [i \in 0 .. 0 |-> R]
  <2>1. f = [i \in 0 .. 0 |-> IF i = 0 THEN R ELSE StartAnnounce(f[i - 1])]
    OBVIOUS
  <2> QED BY <1>1, <1>2, <2>1 DEF Starts
<1>3. CASE m # 0
  <2>1. m - 1 \in Nat /\ m - 1 \notin Bad
    BY <1>1, <1>3
  <2>2. PICK f : Starts(R, m - 1, f)
    BY <2>1
  <2> DEFINE g == [i \in 0 .. m |-> IF i = 0 THEN R ELSE StartAnnounce(f[i - 1])]
  <2>3. \A i \in 0 .. m - 1 : f[i] = IF i = 0 THEN R ELSE StartAnnounce(f[i - 1])
    BY <2>2 DEF Starts
  <2>4. \A i \in 0 .. m - 1 : g[i] = f[i]
    BY <2>1, <2>3
  <2>5. \A i \in 0 .. m : i # 0 => i - 1 \in 0 .. m - 1
    BY <1>1
  <2>6. g = [i \in 0 .. m |-> IF i = 0 THEN R ELSE StartAnnounce(g[i - 1])]
    BY <2>4, <2>5
  <2> HIDE DEF g
  <2>7. Starts(R, m, g)
    BY <2>6 DEF Starts
  <2> QED BY <2>7, <1>1
<1> QED BY <1>2, <1>3

LEMMA KeysFinite == IsFiniteSet(Keys)
BY AnnAssumption, FS_Product DEF Keys

LEMMA DispatchIs ==
  ASSUME NEW R
  PROVE  \E f : Starts(R, Cardinality(Keys), f) /\ DispatchAnnounces(R) = f[Cardinality(Keys)]
<1> DEFINE c == Cardinality(Keys)
           f == CHOOSE g : g = [i \in 0 .. c |-> IF i = 0 THEN R ELSE StartAnnounce(g[i - 1])]
<1>1. DispatchAnnounces(R) = f[c]
  BY DEF DispatchAnnounces
<1>2. c \in Nat
  BY KeysFinite, FS_CardinalityType
<1>3. Starts(R, c, f)
  <2> HIDE DEF c
  <2>1. PICK g : g = [i \in 0 .. c |-> IF i = 0 THEN R ELSE StartAnnounce(g[i - 1])]
    BY <1>2, StartsExist DEF Starts
  <2>2. f = [i \in 0 .. c |-> IF i = 0 THEN R ELSE StartAnnounce(f[i - 1])]
    BY <2>1
  <2> HIDE DEF f
  <2> QED BY <2>2 DEF Starts
<1> HIDE DEF f
<1> QED BY <1>1, <1>3

-----------------------------------------------------------------------------
(* Announces.                                                              *)

AnnEvents == {"none", "started", "stopped", "completed"}
AnnRec == [event : AnnEvents, when : Int, there : BOOLEAN, wants : BOOLEAN, overdue : BOOLEAN,
           active : BOOLEAN, says : AnnEvents]
StateRec == [event : AnnEvents, ok : Int, wait : Int, err : BOOLEAN, tried : Int, sentCompleted : BOOLEAN]
Recs(R) == DOMAIN R \in SUBSET Keys /\ R \in [DOMAIN R -> AnnRec]

\* What is due fits what the tracker last heard of the torrent, whose number is l, or 0.
Sound(r, s, l) ==
  /\ s.sentCompleted => r.event # "completed" /\ (r.active => r.says # "completed")
  /\ l = 0 /\ ~r.active /\ s.ok # Zero /\ ~s.err => r.event = "stopped" \/ s.event = "stopped"
  /\ l # 0 /\ s.err => r.when >= s.tried + RetryAfter
AllSound(R, S, L) == \A k \in DOMAIN R : Sound(R[k], S[k], L[Hash(k)])

TimerOK ==
  \/ \E p \in {"set", "fired"} : \E w : timer = [phase |-> p, when |-> w]
  \/ \E w, x : timer = [phase |-> "back", when |-> w, next |-> x]

SentOK ==
  \A k \in DOMAIN sent : /\ k \in Active(records) /\ sent[k].event \in AnnEvents
                         /\ states[k].sentCompleted => sent[k].event # "completed"

AnnTypes ==
  /\ annNow \in 0 .. AnnHorizon /\ TimerOK
  /\ live \in [AnnHashes -> Nat] /\ adds \in [AnnHashes -> Nat]
  /\ whole \in [AnnHashes -> BOOLEAN] /\ sawPart \in [AnnHashes -> BOOLEAN]
  /\ states \in [Keys -> StateRec]
AnnInv == AnnTypes /\ Recs(records) /\ AllSound(records, states, live) /\ SentOK /\ TrackerLimit

LEMMA KeyIs == \A k \in Keys : URL(k) \in AnnTrackers /\ Hash(k) \in AnnHashes
BY DEF Keys, URL, Hash

\* A record that differs in being overdue at most.
Kin(q, r) == q \in AnnRec /\ q.event = r.event /\ q.when = r.when /\ q.active = r.active /\ q.says = r.says

LEMMA OverdueIs ==
  ASSUME NEW R, Recs(R), annNow \in Nat
  PROVE  /\ Recs(UpdateOverdue(R)) /\ DOMAIN UpdateOverdue(R) = DOMAIN R
         /\ \A k \in DOMAIN R : /\ Kin(UpdateOverdue(R)[k], R[k])
                                /\ UpdateOverdue(R)[k].overdue => R[k].when <= annNow
         /\ Active(UpdateOverdue(R)) = Active(R)
<1>1. \A k \in DOMAIN R : R[k] \in AnnRec
  BY DEF Recs
<1>2. /\ DOMAIN UpdateOverdue(R) = DOMAIN R
      /\ UpdateOverdue(R) = [k \in DOMAIN R |-> UpdateOverdue(R)[k]]
      /\ \A k \in DOMAIN R : UpdateOverdue(R)[k] = [R[k] EXCEPT !.overdue = R[k].when <= annNow]
  BY DEF UpdateOverdue
<1>3. ASSUME NEW r \in AnnRec
      PROVE  Kin([r EXCEPT !.overdue = r.when <= annNow], r)
             /\ ([r EXCEPT !.overdue = r.when <= annNow].overdue => r.when <= annNow)
  <2>1. r.when \in Int /\ (r.when <= annNow) \in BOOLEAN
    BY DEF AnnRec
  <2> DEFINE b == r.when <= annNow
  <2>2. b \in BOOLEAN
    BY <2>1
  <2> HIDE DEF b
  <2>3. Kin([r EXCEPT !.overdue = b], r) /\ [r EXCEPT !.overdue = b].overdue = b
    BY <2>2 DEF Kin, AnnRec
  <2> QED BY <2>3 DEF b
<1>4. \A k \in DOMAIN R : /\ Kin(UpdateOverdue(R)[k], R[k])
                          /\ UpdateOverdue(R)[k].overdue => R[k].when <= annNow
  BY <1>1, <1>2, <1>3
<1>5. Recs(UpdateOverdue(R))
  <2>1. \A k \in DOMAIN R : UpdateOverdue(R)[k] \in AnnRec
    BY <1>4 DEF Kin
  <2> QED BY <1>2, <2>1 DEF Recs
<1>6. Active(UpdateOverdue(R)) = Active(R)
  BY <1>2, <1>4 DEF Active, Kin
<1> QED BY <1>2, <1>4, <1>5, <1>6

LEMMA KinSound ==
  ASSUME NEW q, NEW r, Kin(q, r), NEW s, NEW l, Sound(r, s, l)
  PROVE  Sound(q, s, l)
BY DEF Kin, Sound

\* What the next announce is made of: once completed never again, a goodbye while one is
\* owed, and no earlier than an error allows.
LEMMA InputIs ==
  ASSUME NEW r \in AnnRec, NEW k \in Keys, NEW S \in [Keys -> StateRec], annNow \in Nat,
         live' \in [AnnHashes -> Nat], S[k].sentCompleted /\ r.active => r.says # "completed"
  PROVE  /\ Input(r, k, S) \in AnnRec /\ Input(r, k, S).active = r.active
         /\ Input(r, k, S).says = r.says
         /\ Sound(Input(r, k, S), S[k], live'[Hash(k)])
<1> DEFINE s == S[k]
           d == Done(Hash(k))
           io == StateInput(s, live'[Hash(k)] # 0, d)
<1>1. s \in StateRec /\ live'[Hash(k)] \in Nat
  BY KeyIs
<1>2. /\ s.event \in AnnEvents /\ s.ok \in Int /\ s.wait \in Int /\ s.err \in BOOLEAN
      /\ s.tried \in Int /\ s.sentCompleted \in BOOLEAN
  BY <1>1 DEF StateRec
<1> HIDE DEF s, d
<1> DEFINE late(t) == IF s.err /\ t < s.tried + RetryAfter THEN s.tried + RetryAfter ELSE t
<1>3. \A t \in Int : late(t) \in Int /\ (s.err => late(t) >= s.tried + RetryAfter)
  BY <1>2 DEF RetryAfter
<1>4. /\ io.event \in AnnEvents /\ io.when \in Int
      /\ s.sentCompleted => io.event # "completed"
      /\ live'[Hash(k)] = 0 /\ s.ok # Zero /\ ~s.err => io.event = "stopped" \/ s.event = "stopped"
      /\ live'[Hash(k)] # 0 /\ s.err => io.when >= s.tried + RetryAfter
  <2>1. CASE live'[Hash(k)] = 0
    <3>1. io = IF s.err \/ s.ok = Zero \/ s.event = "stopped"
               THEN [event |-> "none", when |-> Zero] ELSE [event |-> "stopped", when |-> annNow]
      BY <2>1 DEF StateInput
    <3> HIDE DEF io
    <3> QED BY <2>1, <3>1, <1>2 DEF AnnEvents, Zero
  <2>2. CASE live'[Hash(k)] # 0
    <3>1. \E t \in Int : \E e \in AnnEvents : /\ io = [event |-> e, when |-> late(t)]
                                              /\ e = "completed" => ~s.sentCompleted
      <4>1. CASE ~s.sentCompleted /\ d
        <5>1. io = [event |-> "completed", when |-> late(annNow)]
          BY <2>2, <4>1 DEF StateInput
        <5>2. annNow \in Int /\ "completed" \in AnnEvents
          BY DEF AnnEvents
        <5> HIDE DEF io, late
        <5> QED BY <4>1, <5>1, <5>2
      <4>2. CASE ~(~s.sentCompleted /\ d) /\ s.ok = Zero
        <5>1. io = [event |-> "started", when |-> late(annNow)]
          BY <2>2, <4>2 DEF StateInput
        <5> QED BY <5>1 DEF AnnEvents
      <4>3. CASE ~(~s.sentCompleted /\ d) /\ s.ok # Zero
        <5>1. io = [event |-> "none", when |-> late(s.ok + s.wait)]
          BY <2>2, <4>3 DEF StateInput
        <5>2. s.ok + s.wait \in Int
          BY <1>2
        <5> QED BY <5>1, <5>2 DEF AnnEvents
      <4> QED BY <4>1, <4>2, <4>3
    <3>2. PICK t \in Int, e \in AnnEvents : io = [event |-> e, when |-> late(t)]
                                             /\ (e = "completed" => ~s.sentCompleted)
      <4> HIDE DEF io, late
      <4> QED BY <3>1
    <3> DEFINE w == late(t)
    <3>3. w \in Int /\ (s.err => w >= s.tried + RetryAfter)
      BY <1>3
    <3>4. io.event = e /\ io.when = w
      BY <3>2
    <3> HIDE DEF io, late, w
    <3> QED BY <2>2, <3>2, <3>3, <3>4
  <2> QED BY <2>1, <2>2
<1>5. Input(r, k, S) = [r EXCEPT !.event = io.event, !.when = io.when]
  BY DEF Input, s, d
<1> DEFINE e == io.event
           w == io.when
<1> HIDE DEF io
<1>6. e \in AnnEvents /\ w \in Int
  BY <1>4
<1>7. Input(r, k, S) = [r EXCEPT !.event = e, !.when = w]
  BY <1>5
<1> HIDE DEF e, w
<1>8. /\ Input(r, k, S) \in AnnRec /\ Input(r, k, S).active = r.active
      /\ Input(r, k, S).says = r.says /\ Input(r, k, S).event = e /\ Input(r, k, S).when = w
  BY <1>6, <1>7 DEF AnnRec
<1>9. Sound(Input(r, k, S), s, live'[Hash(k)])
  <2>1. s.sentCompleted /\ r.active => r.says # "completed"
    BY DEF s
  <2> QED BY <2>1, <1>4, <1>8 DEF Sound, e, w
<1> QED BY <1>8, <1>9 DEF s

-----------------------------------------------------------------------------
\* Fewer announces under way.
LEMMA FewerActive ==
  ASSUME NEW R, NEW Q, DOMAIN R \in SUBSET Keys, DOMAIN Q \in SUBSET Keys, Active(Q) \subseteq Active(R), NEW u
  PROVE  Requests(Q, u) \in Nat /\ Requests(R, u) \in Nat /\ Requests(Q, u) <= Requests(R, u)
<1> DEFINE A == {k \in Active(R) : URL(k) = u}
           B == {k \in Active(Q) : URL(k) = u}
<1>1. A \subseteq Keys /\ B \subseteq A
  BY DEF Active
<1>2. IsFiniteSet(A)
  BY <1>1, KeysFinite, FS_Subset
<1>3. Cardinality(A) \in Nat /\ Cardinality(B) \in Nat /\ Cardinality(B) <= Cardinality(A)
  <2> HIDE DEF A, B
  <2> QED BY <1>1, <1>2, FS_Subset, FS_CardinalityType
<1> QED BY <1>3 DEF Requests

LEMMA LimitKept ==
  ASSUME Recs(records), Recs(records)', TrackerLimit, Active(records') \subseteq Active(records)
  PROVE  TrackerLimit'
<1> SUFFICES ASSUME NEW u \in AnnTrackers PROVE Requests(records', u) <= MaxPerTracker
  BY DEF TrackerLimit
<1>1. Requests(records', u) \in Nat /\ Requests(records, u) \in Nat
      /\ Requests(records', u) <= Requests(records, u)
  BY FewerActive DEF Recs
<1> QED BY <1>1, AnnAssumption DEF TrackerLimit

LEMMA TimerKept ==
  ASSUME TimerOK, NEW w, timer' = TimerUpdate(w)
  PROVE  TimerOK'
<1>1. CASE timer' = timer
  BY <1>1 DEF TimerOK
<1>2. CASE timer' # timer
  <2>1. timer.phase = "set" /\ timer' = [timer EXCEPT !.when = w]
    BY <1>2 DEF TimerUpdate
  <2>2. PICK v : timer = [phase |-> "set", when |-> v]
    BY <2>1 DEF TimerOK
  <2>3. timer' = [phase |-> "set", when |-> w]
    BY <2>1, <2>2
  <2> QED BY <2>3 DEF TimerOK
<1> QED BY <1>1, <1>2

\* New records, of torrents and states as they are after the step.
LEMMA RecordsSet ==
  ASSUME annNow \in Nat, TimerOK, NEW R, Recs(R), SetRecords(R), AllSound(R, states', live')
  PROVE  /\ TimerOK' /\ Recs(records)' /\ AllSound(records, states, live)'
         /\ DOMAIN records' = DOMAIN R /\ Active(records') = Active(R)
<1>1. records' = UpdateOverdue(R) /\ TimerOK'
  BY TimerKept DEF SetRecords
<1>2. /\ Recs(records') /\ DOMAIN records' = DOMAIN R /\ Active(records') = Active(R)
      /\ \A k \in DOMAIN R : Kin(records'[k], R[k])
  BY <1>1, OverdueIs
<1>3. AllSound(records', states', live')
  <2> SUFFICES ASSUME NEW k \in DOMAIN R PROVE Sound(records'[k], states'[k], live'[Hash(k)])
    BY <1>2 DEF AllSound
  <2> QED BY <1>2, KinSound DEF AllSound
<1> QED BY <1>1, <1>2, <1>3 DEF AllSound, Recs

\* The input of one torrent is brought up to date.
LEMMA TorrentInputKeeps ==
  ASSUME AnnInv, NEW h \in AnnHashes, NEW R, Recs(R), DOMAIN records \subseteq DOMAIN R,
         NEW wants \in BOOLEAN, UpdateTorrentInput(h, R, wants), UNCHANGED <<annNow, states, sent>>,
         live' \in [AnnHashes -> Nat], adds' \in [AnnHashes -> Nat],
         whole' \in [AnnHashes -> BOOLEAN], sawPart' \in [AnnHashes -> BOOLEAN],
         \A g \in AnnHashes \ {h} : live'[g] = live[g],
         \A k \in DOMAIN R : IF k \in DOMAIN records THEN R[k] = records[k]
                             ELSE ~R[k].active /\ Hash(k) = h
  PROVE  AnnInv' /\ Active(records') = Active(records)
<1> DEFINE there == live'[h] # 0
           r(k) == [R[k] EXCEPT !.there = there, !.wants = wants]
           Q == [k \in DOMAIN R |-> IF Hash(k) # h THEN R[k] ELSE Input(r(k), k, states)]
<1>0. /\ AnnTypes /\ annNow \in Nat /\ states \in [Keys -> StateRec] /\ DOMAIN R \in SUBSET Keys
      /\ DOMAIN records \in SUBSET Keys /\ states' = states
  BY DEF AnnInv, AnnTypes, Recs
<1>1. ASSUME NEW k \in DOMAIN R, Hash(k) # h
      PROVE  Q[k] \in AnnRec /\ Q[k].active = R[k].active /\ Sound(Q[k], states[k], live'[Hash(k)])
  <2>1. Q[k] = R[k] /\ k \in DOMAIN records /\ R[k] = records[k] /\ Hash(k) \in AnnHashes
    BY <1>1, <1>0, KeyIs
  <2>2. live'[Hash(k)] = live[Hash(k)]
    BY <1>1, <2>1
  <2>3. Sound(records[k], states[k], live[Hash(k)]) /\ R[k] \in AnnRec
    BY <2>1 DEF AnnInv, AllSound, Recs
  <2> HIDE DEF Q
  <2> QED BY <2>1, <2>2, <2>3
<1>2. ASSUME NEW k \in DOMAIN R, Hash(k) = h
      PROVE  Q[k] \in AnnRec /\ Q[k].active = R[k].active /\ Sound(Q[k], states[k], live'[Hash(k)])
  <2>1. Q[k] = Input(r(k), k, states) /\ k \in Keys
    BY <1>2, <1>0
  <2>2. R[k] \in AnnRec /\ there \in BOOLEAN
    BY DEF Recs
  <2>3. r(k) \in AnnRec /\ r(k).active = R[k].active /\ r(k).says = R[k].says
    <3> HIDE DEF there
    <3> QED BY <2>2 DEF AnnRec
  <2>4. states[k].sentCompleted /\ R[k].active => R[k].says # "completed"
    <3>1. k \in DOMAIN records => Sound(R[k], states[k], live[Hash(k)])
      BY DEF AnnInv, AllSound
    <3> QED BY <3>1 DEF Sound
  <2> HIDE DEF r, Q
  <2> QED BY <2>1, <2>3, <2>4, <1>0, InputIs
<1>3. Recs(Q) /\ DOMAIN Q = DOMAIN R /\ Active(Q) = Active(R)
  <2>1. DOMAIN Q = DOMAIN R /\ Q = [k \in DOMAIN R |-> Q[k]]
    OBVIOUS
  <2>2. \A k \in DOMAIN R : Q[k] \in AnnRec /\ Q[k].active = R[k].active
    BY <1>1, <1>2
  <2> HIDE DEF Q
  <2> QED BY <2>1, <2>2, <1>0 DEF Recs, Active
<1>4. SetRecords(Q)
  BY DEF UpdateTorrentInput
<1>5. AllSound(Q, states', live')
  <2> SUFFICES ASSUME NEW k \in DOMAIN R PROVE Sound(Q[k], states[k], live'[Hash(k)])
    BY <1>0, <1>3 DEF AllSound
  <2> QED BY <1>1, <1>2
<1> HIDE DEF Q
<1>6. /\ TimerOK' /\ Recs(records)' /\ AllSound(records, states, live)'
      /\ Active(records') = Active(R)
  BY <1>0, <1>3, <1>4, <1>5, RecordsSet DEF AnnTypes
<1>7. Active(R) = Active(records)
  BY DEF Active
<1>8. SentOK'
  BY <1>0, <1>6, <1>7 DEF AnnInv, SentOK
<1>9. TrackerLimit'
  BY <1>6, <1>7, LimitKept DEF AnnInv
<1>10. AnnTypes'
  BY <1>0, <1>6 DEF AnnTypes
<1> QED BY <1>6, <1>7, <1>8, <1>9, <1>10 DEF AnnInv

LEMMA AddTorrentStep ==
  ASSUME AnnInv, NEW h \in AnnHashes, NEW all \in BOOLEAN, AddTorrent(h, all)
  PROVE  AnnInv' /\ Active(records') = Active(records)
<1> DEFINE new == [event |-> "none", when |-> Zero, there |-> TRUE, wants |-> TRUE, overdue |-> FALSE, active |-> FALSE, says |-> "none"]
           mine == AnnTrackers \X {h}
           R == [k \in DOMAIN records \cup mine |-> IF k \in DOMAIN records THEN records[k] ELSE new]
<1>1. new \in AnnRec /\ ~new.active
  BY DEF AnnRec, AnnEvents, Zero
<1>2. mine \subseteq Keys /\ \A k \in mine : Hash(k) = h
  BY DEF Keys, Hash
<1>3. Recs(records)
  BY DEF AnnInv
<1> HIDE DEF new, mine
<1>4. /\ DOMAIN R = DOMAIN records \cup mine /\ Recs(R)
      /\ \A k \in DOMAIN R : IF k \in DOMAIN records THEN R[k] = records[k]
                              ELSE ~R[k].active /\ Hash(k) = h
  BY <1>1, <1>2, <1>3 DEF Recs
<1>5. UpdateTorrentInput(h, R, TRUE)
  BY DEF AddTorrent, new, mine
<1>6. /\ live \in [AnnHashes -> Nat] /\ adds \in [AnnHashes -> Nat] /\ adds[h] + 1 \in Nat
      /\ whole \in [AnnHashes -> BOOLEAN] /\ sawPart \in [AnnHashes -> BOOLEAN]
  BY DEF AnnInv, AnnTypes
<1>7. /\ UNCHANGED <<annNow, states, sent>>
      /\ live' = [live EXCEPT ![h] = adds[h] + 1] /\ adds' = [adds EXCEPT ![h] = adds[h] + 1]
      /\ whole' = [whole EXCEPT ![h] = all] /\ sawPart' = [sawPart EXCEPT ![h] = ~all]
  BY DEF AddTorrent
<1>8. /\ live' \in [AnnHashes -> Nat] /\ adds' \in [AnnHashes -> Nat]
      /\ whole' \in [AnnHashes -> BOOLEAN] /\ sawPart' \in [AnnHashes -> BOOLEAN]
      /\ \A g \in AnnHashes \ {h} : live'[g] = live[g]
  BY <1>6, <1>7
<1>9. DOMAIN records \subseteq DOMAIN R
  BY <1>4
<1> HIDE DEF R
<1> QED BY <1>4, <1>5, <1>7, <1>8, <1>9, TorrentInputKeeps

LEMMA TorrentStep ==
  ASSUME AnnInv, NEW h \in AnnHashes,
         (\E w, b \in BOOLEAN : TorrentChanges(h, w, b)) \/ DropTorrent(h)
  PROVE  AnnInv' /\ Active(records') = Active(records)
<1>1. PICK wants \in BOOLEAN : UpdateTorrentInput(h, records, wants)
  BY DEF TorrentChanges, DropTorrent
<1>2. Recs(records) /\ UNCHANGED <<annNow, states, sent, adds, sawPart>>
  BY DEF AnnInv, TorrentChanges, DropTorrent
<1>3. /\ live \in [AnnHashes -> Nat] /\ adds \in [AnnHashes -> Nat]
      /\ whole \in [AnnHashes -> BOOLEAN] /\ sawPart \in [AnnHashes -> BOOLEAN]
  BY DEF AnnInv, AnnTypes
<1>4. live' \in [AnnHashes -> Nat] /\ \A g \in AnnHashes \ {h} : live'[g] = live[g]
  <2>1. live' = live \/ live' = [live EXCEPT ![h] = 0]
    BY DEF TorrentChanges, DropTorrent
  <2> QED BY <2>1, <1>3
<1>5. whole' \in [AnnHashes -> BOOLEAN]
  BY <1>3 DEF TorrentChanges, DropTorrent
<1> QED BY <1>1, <1>2, <1>3, <1>4, <1>5, TorrentInputKeeps

-----------------------------------------------------------------------------
\* What a dispatch has made of the records R0 so far: some that were overdue are under way.
Begun(q, r) ==
  /\ q \in AnnRec /\ q.event = r.event /\ q.when = r.when /\ q.overdue = r.overdue
  /\ r.active => q.active /\ q.says = r.says
  /\ q.active /\ ~r.active => r.overdue /\ q.says = r.event
InLimit(R) == \A u \in AnnTrackers : Requests(R, u) <= MaxPerTracker
Going(R0, R) ==
  /\ Recs(R) /\ DOMAIN R = DOMAIN R0 /\ InLimit(R)
  /\ \A k \in DOMAIN R0 : Begun(R[k], R0[k])

LEMMA StartGoes ==
  ASSUME NEW R0, NEW R, Going(R0, R), Recs(R0)
  PROVE  Going(R0, StartAnnounce(R))
<1> DEFINE Q == StartAnnounce(R)
           next == {k \in NextAnnounce(R) : R[k].overdue}
           on(k) == [R[k] EXCEPT !.active = TRUE, !.says = R[k].event]
<1>0. DOMAIN R = DOMAIN R0 /\ DOMAIN R \in SUBSET Keys /\ \A k \in DOMAIN R : R[k] \in AnnRec /\ R0[k] \in AnnRec
  BY DEF Going, Recs
<1>1. /\ DOMAIN Q = DOMAIN R /\ Q = [k \in DOMAIN R |-> Q[k]]
      /\ \A k \in DOMAIN R : Q[k] = IF k \in next THEN on(k) ELSE R[k]
  BY DEF StartAnnounce
<1>2. \A k \in next : k = First(R) /\ ~R[k].active /\ ~(Requests(R, URL(k)) >= MaxPerTracker) /\ R[k].overdue
  BY DEF NextAnnounce
<1> HIDE DEF Q, next
<1>3. ASSUME NEW k \in DOMAIN R PROVE Begun(Q[k], R0[k]) /\ Q[k] \in AnnRec
  <2>1. Begun(R[k], R0[k]) /\ R[k] \in AnnRec /\ R0[k] \in AnnRec
    BY <1>0 DEF Going
  <2>2. CASE k \notin next
    BY <1>1, <2>1, <2>2
  <2>3. CASE k \in next
    <3>1. Q[k] = on(k) /\ ~R[k].active /\ R[k].overdue
      BY <1>1, <1>2, <2>3
    <3>2. /\ on(k) \in AnnRec /\ on(k).event = R[k].event /\ on(k).when = R[k].when
          /\ on(k).overdue = R[k].overdue /\ on(k).active /\ on(k).says = R[k].event
      BY <2>1 DEF AnnRec
    <3> HIDE DEF on
    <3> QED BY <2>1, <3>1, <3>2 DEF Begun
  <2> QED BY <2>2, <2>3
<1>4. Recs(Q)
  BY <1>0, <1>1, <1>3 DEF Recs
<1>5. \A k \in Active(Q) : k \in Active(R) \/ k \in next
  BY <1>1 DEF Active
<1>6. ASSUME NEW u \in AnnTrackers PROVE Requests(Q, u) <= MaxPerTracker
  <2> DEFINE A == {k \in Active(R) : URL(k) = u}
             B == {k \in Active(Q) : URL(k) = u}
  <2>1. IsFiniteSet(A) /\ IsFiniteSet(B) /\ Cardinality(A) \in Nat /\ Cardinality(B) \in Nat
        /\ A \subseteq Keys
    <3>1. A \subseteq Keys /\ B \subseteq Keys
      BY <1>0, <1>1 DEF Active
    <3> HIDE DEF A, B
    <3> QED BY <3>1, KeysFinite, FS_Subset, FS_CardinalityType
  <2>2. Cardinality(A) <= MaxPerTracker
    BY DEF Going, InLimit, Requests
  <2>3. CASE B \subseteq A
    <3>1. Cardinality(B) <= Cardinality(A)
      <4> HIDE DEF A, B
      <4> QED BY <2>1, <2>3, FS_Subset
    <3> QED BY <3>1, <2>1, <2>2, AnnAssumption DEF Requests
  <2>4. CASE ~(B \subseteq A)
    <3>1. PICK k \in B : k \notin A
      BY <2>4
    <3>2. k \in next /\ URL(k) = u
      BY <3>1, <1>5
    <3>3. ~(Cardinality(A) >= MaxPerTracker)
      BY <3>2, <1>2 DEF Requests
    <3>4. B \subseteq A \cup {k}
      BY <1>2, <1>5, <3>2
    <3>5. IsFiniteSet(A \cup {k}) /\ Cardinality(A \cup {k}) = Cardinality(A) + 1
      <4> HIDE DEF A
      <4> QED BY <3>1, <2>1, FS_AddElement
    <3>6. Cardinality(B) <= Cardinality(A) + 1
      <4> HIDE DEF A, B
      <4> QED BY <3>4, <3>5, FS_Subset
    <3>7. Cardinality(B) <= MaxPerTracker
      <4> HIDE DEF A, B
      <4> QED BY <3>3, <3>6, <2>1, AnnAssumption
    <3> QED BY <3>7 DEF Requests
  <2> QED BY <2>3, <2>4
<1>7. Going(R0, Q)
  BY <1>0, <1>1, <1>3, <1>4, <1>6 DEF Going, InLimit
<1> QED BY <1>7 DEF Q

LEMMA DispatchGoes ==
  ASSUME NEW R, Recs(R), InLimit(R)
  PROVE  Going(R, DispatchAnnounces(R))
<1> DEFINE c == Cardinality(Keys)
<1>1. PICK f : Starts(R, c, f) /\ DispatchAnnounces(R) = f[c]
  BY DispatchIs
<1>2. c \in Nat
  BY KeysFinite, FS_CardinalityType
<1> DEFINE Bad == {m \in 0 .. c : ~Going(R, f[m])}
<1> HIDE DEF c
<1>3. f[0] = R /\ \A i \in 1 .. c : f[i] = StartAnnounce(f[i - 1])
  BY <1>1, <1>2 DEF Starts
<1>4. Bad = {}
  <2> SUFFICES ASSUME Bad # {} PROVE FALSE
    OBVIOUS
  <2>1. PICK m \in Bad : \A x \in Bad : m <= x
    <3>1. Bad \in SUBSET Nat
      BY <1>2
    <3> HIDE DEF Bad
    <3> QED BY <3>1, LeastOf
  <2>2. m \in 0 .. c /\ ~Going(R, f[m])
    BY <2>1
  <2>3. CASE m = 0
    <3>1. \A k \in DOMAIN R : Begun(R[k], R[k])
      BY DEF Begun, Recs
    <3>2. Going(R, R)
      BY <3>1 DEF Going
    <3> QED BY <2>2, <2>3, <3>2, <1>3
  <2>4. CASE m # 0
    <3>1. m \in 1 .. c /\ m - 1 \in 0 .. c /\ ~(m <= m - 1)
      BY <2>2, <2>4, <1>2
    <3>2. Going(R, f[m - 1])
      BY <2>1, <3>1
    <3>3. Going(R, StartAnnounce(f[m - 1]))
      BY <3>2, StartGoes
    <3> QED BY <2>2, <3>1, <3>3, <1>3
  <2> QED BY <2>3, <2>4
<1> QED BY <1>1, <1>2, <1>4

\* An error puts the next announce off.
Paced ==
  \A k \in DOMAIN records :
    k \in Active(records') \ Active(records) /\ live[Hash(k)] # 0 /\ states[k].err
    => annNow >= states[k].tried + RetryAfter

LEMMA TimerStepKeeps ==
  ASSUME AnnInv, TimerStep
  PROVE  AnnInv' /\ Paced
<1> DEFINE R == UpdateOverdue(records)
<1>0. /\ annNow \in Nat /\ states \in [Keys -> StateRec] /\ Recs(records)
      /\ UNCHANGED <<annNow, live, adds, whole, sawPart, states, sent>> /\ records' = DispatchAnnounces(R)
  BY DEF AnnInv, AnnTypes, TimerStep
<1>1. /\ Recs(R) /\ DOMAIN R = DOMAIN records /\ Active(R) = Active(records)
      /\ \A k \in DOMAIN records : Kin(R[k], records[k]) /\ (R[k].overdue => records[k].when <= annNow)
  BY <1>0, OverdueIs
<1>2. InLimit(R)
  BY <1>1 DEF InLimit, Requests, AnnInv, TrackerLimit
<1> HIDE DEF R
<1>3. Going(R, records')
  BY <1>0, <1>1, <1>2, DispatchGoes
<1>4. Recs(records') /\ DOMAIN records' = DOMAIN records /\ TrackerLimit'
  BY <1>1, <1>3 DEF Going, InLimit, TrackerLimit
<1>5. ASSUME NEW k \in DOMAIN records
      PROVE  /\ Sound(records'[k], states[k], live[Hash(k)]) /\ (records[k].active => records'[k].active)
             /\ records'[k].active /\ ~records[k].active /\ live[Hash(k)] # 0 /\ states[k].err
                => annNow >= states[k].tried + RetryAfter
  <2>1. Begun(records'[k], R[k]) /\ Kin(R[k], records[k]) /\ (R[k].overdue => records[k].when <= annNow)
    BY <1>1, <1>3 DEF Going
  <2>2. Sound(records[k], states[k], live[Hash(k)])
    BY DEF AnnInv, AllSound
  <2>3. Sound(R[k], states[k], live[Hash(k)])
    BY <2>1, <2>2, KinSound
  <2>4. Sound(records'[k], states[k], live[Hash(k)])
    BY <2>1, <2>3 DEF Sound, Begun
  <2>5. records[k].active => records'[k].active
    BY <2>1 DEF Begun, Kin
  <2>6. ASSUME records'[k].active, ~records[k].active, live[Hash(k)] # 0, states[k].err
        PROVE  annNow >= states[k].tried + RetryAfter
    <3>1. records[k].when <= annNow
      BY <2>1, <2>6 DEF Begun, Kin
    <3>2. records[k].when >= states[k].tried + RetryAfter
      BY <2>2, <2>6 DEF Sound
    <3>3. records[k].when \in Int /\ states[k].tried \in Int
      BY <1>0 DEF Recs, AnnRec, StateRec
    <3> QED BY <3>1, <3>2, <3>3, <1>0 DEF RetryAfter
  <2> QED BY <2>4, <2>5, <2>6
<1>6. AllSound(records', states', live')
  BY <1>0, <1>4, <1>5 DEF AllSound
<1>7. SentOK'
  <2>1. Active(records) \subseteq Active(records')
    BY <1>4, <1>5 DEF Active
  <2> QED BY <1>0, <2>1 DEF AnnInv, SentOK
<1>8. AnnTypes'
  <2>1. TimerOK'
    BY DEF TimerStep, TimerOK
  <2> QED BY <1>0, <2>1 DEF AnnInv, AnnTypes
<1>9. Paced
  BY <1>5, <1>4 DEF Paced, Active
<1> QED BY <1>4, <1>6, <1>7, <1>8, <1>9 DEF AnnInv, AllSound, Recs

-----------------------------------------------------------------------------
LEMMA FinishedKeeps ==
  ASSUME AnnInv, NEW k \in Active(records), NEW s \in StateRec, Finished(k, s),
         \A j \in DOMAIN sent' : j # k /\ j \in DOMAIN sent /\ sent'[j] = sent[j]
  PROVE  AnnInv' /\ Active(records') \subseteq Active(records)
<1> DEFINE there == live[Hash(k)] # 0
           wants == there /\ records[k].wants
           r == [records[k] EXCEPT !.active = FALSE, !.there = there, !.wants = wants]
           i == Input(r, k, states')
           R == [records EXCEPT ![k] = i]
<1>0. /\ AnnTypes /\ annNow \in Nat /\ states \in [Keys -> StateRec] /\ Recs(records) /\ k \in Keys
      /\ k \in DOMAIN records /\ live \in [AnnHashes -> Nat] /\ records[k] \in AnnRec
      /\ DOMAIN records \in SUBSET Keys
  BY DEF AnnInv, AnnTypes, Active, Recs
<1>1. /\ states' = [states EXCEPT ![k] = s] /\ UNCHANGED <<annNow, live, adds, whole, sawPart>>
      /\ SetRecords(R)
  BY DEF Finished
<1>2. states' \in [Keys -> StateRec] /\ \A j \in Keys \ {k} : states'[j] = states[j]
  BY <1>0, <1>1
<1>3. r \in AnnRec /\ ~r.active
  <2>1. there \in BOOLEAN /\ wants \in BOOLEAN
    BY <1>0 DEF AnnRec
  <2> HIDE DEF there, wants
  <2> QED BY <1>0, <2>1 DEF AnnRec
<1> HIDE DEF r
<1>4. i \in AnnRec /\ ~i.active /\ Sound(i, states'[k], live'[Hash(k)])
  <2>1. annNow \in Nat /\ live' \in [AnnHashes -> Nat] /\ k \in Keys
    BY <1>0, <1>1
  <2>2. states'[k].sentCompleted /\ r.active => r.says # "completed"
    BY <1>3
  <2>3. /\ Input(r, k, states') \in AnnRec /\ Input(r, k, states').active = r.active
        /\ Sound(Input(r, k, states'), states'[k], live'[Hash(k)])
    BY <2>1, <2>2, <1>2, <1>3, InputIs
  <2> QED BY <2>3, <1>3
<1> HIDE DEF i
<1>5. DOMAIN R = DOMAIN records /\ R[k] = i /\ (\A j \in DOMAIN records \ {k} : R[j] = records[j]) /\ Recs(R)
  BY <1>0, <1>4 DEF Recs
<1> HIDE DEF R
<1>6. AllSound(R, states', live')
  <2> SUFFICES ASSUME NEW j \in DOMAIN records PROVE Sound(R[j], states'[j], live'[Hash(j)])
    BY <1>5 DEF AllSound
  <2>1. CASE j = k
    BY <2>1, <1>4, <1>5
  <2>2. CASE j # k
    <3>1. Sound(records[j], states[j], live[Hash(j)]) /\ j \in Keys
      BY <1>0 DEF AnnInv, AllSound
    <3> QED BY <2>2, <3>1, <1>1, <1>2, <1>5
  <2> QED BY <2>1, <2>2
<1>7. /\ TimerOK' /\ Recs(records)' /\ AllSound(records, states, live)'
      /\ DOMAIN records' = DOMAIN records /\ Active(records') = Active(R)
  BY <1>0, <1>1, <1>5, <1>6, RecordsSet DEF AnnTypes
<1>8. Active(R) = Active(records) \ {k}
  BY <1>4, <1>5 DEF Active
<1>9. SentOK'
  <2> SUFFICES ASSUME NEW j \in DOMAIN sent'
               PROVE  /\ j \in Active(records') /\ sent'[j].event \in AnnEvents
                      /\ states'[j].sentCompleted => sent'[j].event # "completed"
    BY DEF SentOK
  <2>1. j # k /\ j \in DOMAIN sent /\ sent'[j] = sent[j] /\ j \in Active(records)
        /\ sent[j].event \in AnnEvents /\ (states[j].sentCompleted => sent[j].event # "completed")
    BY DEF AnnInv, SentOK
  <2>2. j \in Keys
    BY <2>1, <1>0 DEF Active
  <2> QED BY <2>1, <2>2, <1>2, <1>7, <1>8
<1>10. TrackerLimit'
  BY <1>0, <1>7, <1>8, LimitKept DEF AnnInv
<1>11. AnnTypes'
  BY <1>0, <1>1, <1>2, <1>7 DEF AnnTypes
<1> QED BY <1>7, <1>8, <1>9, <1>10, <1>11 DEF AnnInv

LEMMA SkippedStep ==
  ASSUME AnnInv, NEW k \in Keys, AnnounceSkipped(k)
  PROVE  AnnInv' /\ Active(records') \subseteq Active(records)
<1> DEFINE s == [states[k] EXCEPT !.err = TRUE, !.tried = annNow]
<1>1. states[k] \in StateRec /\ annNow \in Int
  BY DEF AnnInv, AnnTypes
<1>2. s \in StateRec
  BY <1>1 DEF StateRec
<1>3. k \in Active(records) /\ Finished(k, s) /\ sent' = sent /\ k \notin DOMAIN sent
  BY DEF AnnounceSkipped
<1> HIDE DEF s
<1> QED BY <1>2, <1>3, FinishedKeeps

LEMMA AnsweredStep ==
  ASSUME AnnInv, NEW k \in Keys, NEW ok \in BOOLEAN, AnnounceAnswered(k, ok)
  PROVE  AnnInv' /\ Active(records') \subseteq Active(records)
<1> DEFINE s == AnnounceResult(k, ok)
           e == sent[k].event
           sc == states[k].sentCompleted \/ sent[k].event = "completed"
<1>1. states[k] \in StateRec /\ annNow \in Int
  BY DEF AnnInv, AnnTypes
<1>2. k \in DOMAIN sent /\ Finished(k, s) /\ sent' = [j \in DOMAIN sent \ {k} |-> sent[j]]
  BY DEF AnnounceAnswered
<1>3. e \in AnnEvents /\ k \in Active(records) /\ sc \in BOOLEAN
  BY <1>1, <1>2 DEF AnnInv, SentOK
<1>4. s \in StateRec
  <2>1. CASE ok
    <3>1. s = [states[k] EXCEPT !.event = e, !.ok = annNow, !.wait = AnnInterval, !.err = FALSE,
                !.tried = annNow, !.sentCompleted = sc]
      BY <2>1 DEF AnnounceResult
    <3>2. AnnInterval \in Int
      BY AnnAssumption
    <3> HIDE DEF s, e, sc
    <3> QED BY <1>1, <1>3, <3>1, <3>2 DEF StateRec
  <2>2. CASE ~ok
    BY <1>1, <2>2 DEF AnnounceResult, StateRec
  <2> QED BY <2>1, <2>2
<1>5. \A j \in DOMAIN sent' : j # k /\ j \in DOMAIN sent /\ sent'[j] = sent[j]
  BY <1>2
<1> HIDE DEF s
<1> QED BY <1>2, <1>3, <1>4, <1>5, FinishedKeeps

LEMMA AnnounceSentStep ==
  ASSUME AnnInv, NEW k \in Keys, AnnounceSent(k)
  PROVE  AnnInv' /\ Active(records') \subseteq Active(records)
<1>1. /\ k \in Active(records) /\ UNCHANGED <<annNow, live, adds, whole, sawPart, records, states, timer>>
      /\ sent' = [j \in DOMAIN sent \cup {k} |->
               IF j = k THEN [event |-> records[k].says, torrent |-> asks[Hash(k)]] ELSE sent[j]]
  BY DEF AnnounceSent
<1>2. records[k] \in AnnRec /\ Sound(records[k], states[k], live[Hash(k)]) /\ records[k].active
  BY <1>1 DEF AnnInv, Recs, AllSound, Active
<1>3. SentOK'
  <2> SUFFICES ASSUME NEW j \in DOMAIN sent'
               PROVE  /\ j \in Active(records) /\ sent'[j].event \in AnnEvents
                      /\ states[j].sentCompleted => sent'[j].event # "completed"
    BY <1>1 DEF SentOK
  <2>1. CASE j = k
    <3>1. sent'[j].event = records[k].says
      BY <1>1, <2>1
    <3>2. records[k].says \in AnnEvents
      BY <1>2 DEF AnnRec
    <3> QED BY <2>1, <3>1, <3>2, <1>1, <1>2 DEF Sound
  <2>2. CASE j # k
    <3>1. j \in DOMAIN sent /\ sent'[j] = sent[j]
      BY <1>1, <2>2
    <3> QED BY <3>1 DEF AnnInv, SentOK
  <2> QED BY <2>1, <2>2
<1> QED BY <1>1, <1>3 DEF AnnInv, AnnTypes, TimerOK, Recs, AllSound, TrackerLimit

\* Time, the timer and the collector leave the records alone.
LEMMA QuietStep ==
  ASSUME AnnInv,
         \/ \E h \in AnnHashes : Collect(h)
         \/ TimerFires \/ TimerReset \/ Tick \/ UNCHANGED annVars
  PROVE  AnnInv' /\ Active(records') \subseteq Active(records)
<1>1. UNCHANGED <<live, adds, whole, sawPart, records, states, sent>>
  BY DEF Collect, TimerFires, TimerReset, Tick, annVars
<1>2. annNow' \in 0 .. AnnHorizon
  <2>1. annNow \in 0 .. AnnHorizon
    BY DEF AnnInv, AnnTypes
  <2>2. annNow' = annNow \/ (annNow < AnnHorizon /\ annNow' = annNow + 1)
    BY DEF Collect, TimerFires, TimerReset, Tick, annVars
  <2> QED BY <2>1, <2>2, AnnAssumption
<1>3. TimerOK'
  <2>0. TimerOK
    BY DEF AnnInv, AnnTypes
  <2>1. CASE timer' = timer
    BY <2>0, <2>1 DEF TimerOK
  <2>2. CASE TimerFires
    <3>1. timer.phase = "set" /\ timer' = [timer EXCEPT !.phase = "fired"]
      BY <2>2 DEF TimerFires
    <3>2. PICK w : timer = [phase |-> "set", when |-> w]
      BY <2>0, <3>1 DEF TimerOK
    <3>3. timer' = [phase |-> "fired", when |-> w]
      BY <3>1, <3>2
    <3> QED BY <3>3 DEF TimerOK
  <2>3. CASE TimerReset
    BY <2>3 DEF TimerReset, TimerOK
  <2> QED BY <2>1, <2>2, <2>3 DEF Collect, Tick, annVars
<1> QED BY <1>1, <1>2, <1>3 DEF AnnInv, AnnTypes, Recs, AllSound, TrackerLimit, SentOK

LEMMA AnnInvInit == AnnInit => AnnInv
<1> SUFFICES ASSUME AnnInit PROVE AnnInv
  OBVIOUS
<1>1. NoState \in StateRec
  BY DEF NoState, StateRec, AnnEvents, Zero
<1>2. AnnTypes
  <2>1. TimerOK
    BY DEF AnnInit, TimerOK
  <2>2. annNow \in 0 .. AnnHorizon
    BY AnnAssumption DEF AnnInit
  <2>3. live \in [AnnHashes -> Nat] /\ adds \in [AnnHashes -> Nat]
        /\ whole \in [AnnHashes -> BOOLEAN] /\ sawPart \in [AnnHashes -> BOOLEAN]
    BY DEF AnnInit
  <2>4. states \in [Keys -> StateRec]
    BY <1>1 DEF AnnInit
  <2> QED BY <2>1, <2>2, <2>3, <2>4 DEF AnnTypes
<1>3. DOMAIN records = {} /\ DOMAIN sent = {}
  BY DEF AnnInit
<1>4. Recs(records)
  <2>1. records = <<>> /\ <<>> \in [{} -> AnnRec]
    BY DEF AnnInit
  <2> QED BY <2>1, <1>3 DEF Recs
<1>5. TrackerLimit
  <2>1. \A u : {k \in Active(records) : URL(k) = u} = {}
    BY <1>3 DEF Active
  <2> QED BY <2>1, FS_EmptySet, AnnAssumption DEF TrackerLimit, Requests
<1> QED BY <1>2, <1>3, <1>4, <1>5 DEF AnnInv, AllSound, SentOK

LEMMA AnnInvNext == AnnInv /\ [AnnNext]_annVars => AnnInv' /\ Paced
<1> SUFFICES ASSUME AnnInv, [AnnNext]_annVars PROVE AnnInv' /\ Paced
  OBVIOUS
<1>0. Active(records') \subseteq Active(records) => Paced
  BY DEF Paced
<1>1. ASSUME NEW h \in AnnHashes, NEW b \in BOOLEAN, AddTorrent(h, b) PROVE AnnInv' /\ Paced
  BY <1>0, <1>1, AddTorrentStep
<1>2. ASSUME NEW h \in AnnHashes, (\E w, b \in BOOLEAN : TorrentChanges(h, w, b)) \/ DropTorrent(h)
      PROVE  AnnInv' /\ Paced
  BY <1>0, <1>2, TorrentStep
<1>3. CASE TimerStep
  BY <1>3, TimerStepKeeps
<1>4. CASE (\E h \in AnnHashes : Collect(h)) \/ TimerFires \/ TimerReset \/ Tick \/ UNCHANGED annVars
  BY <1>0, <1>4, QuietStep
<1>5. ASSUME NEW k \in Keys, AnnounceSkipped(k) PROVE AnnInv' /\ Paced
  BY <1>0, <1>5, SkippedStep
<1>6. ASSUME NEW k \in Keys, AnnounceSent(k) PROVE AnnInv' /\ Paced
  BY <1>0, <1>6, AnnounceSentStep
<1>7. ASSUME NEW k \in Keys, NEW ok \in BOOLEAN, AnnounceAnswered(k, ok) PROVE AnnInv' /\ Paced
  BY <1>0, <1>7, AnsweredStep
<1> QED BY <1>1, <1>2, <1>3, <1>4, <1>5, <1>6, <1>7 DEF AnnNext

LEMMA AnnInvSafe == AnnInv => AnnTypeOK /\ TrackerLimit /\ CompletedOnce /\ GoodbyeDue
<1> SUFFICES ASSUME AnnInv PROVE AnnTypeOK /\ TrackerLimit /\ CompletedOnce /\ GoodbyeDue
  OBVIOUS
<1>1. timer.phase \in {"set", "fired", "back"}
  BY DEF AnnInv, AnnTypes, TimerOK
<1>2. AnnTypeOK
  BY <1>1 DEF AnnInv, AnnTypes, AnnTypeOK, SentOK, Recs
<1>3. \A k \in DOMAIN records : Sound(records[k], states[k], live[Hash(k)])
  BY DEF AnnInv, AllSound
<1>4. CompletedOnce
  BY <1>3 DEF CompletedOnce, Sound, AnnInv, SentOK
<1>5. GoodbyeDue
  BY <1>3 DEF GoodbyeDue, Sound, Active
<1> QED BY <1>2, <1>4, <1>5 DEF AnnInv

(* The trackers' limit, completed said once, the goodbye of a dropped torrent and the rest after
   an error (client-tracker-announcer.go), for any torrents and trackers. *)
THEOREM AnnouncesStaySafe == AnnSpec => AnnSafe
<1>1. AnnInv /\ [AnnNext]_annVars => AnnInv'
  BY AnnInvNext
<1>2. AnnInv /\ [AnnNext]_annVars =>
        [\A k \in DOMAIN records :
       k \in Active(records') \ Active(records) /\ live[Hash(k)] # 0 /\ states[k].err
       => annNow >= states[k].tried + RetryAfter]_annVars
  BY AnnInvNext DEF Paced
<1> QED BY <1>1, <1>2, AnnInvInit, AnnInvSafe, PTL DEF AnnSpec, AnnSafe, ErrorsArePaced

-----------------------------------------------------------------------------
(* The components together: each step of the swarm is a step of one of them and leaves the
   others alone. *)

LEMMA PartsBegin ==
  SwarmInit => WireInit /\ InfoInit /\ WsInit /\ PoolInit /\ AnnInit /\ RtInit
BY DEF SwarmInit

LEMMA PartsStep ==
  [SwarmNext]_swarmVars =>
    /\ [WireNext]_wireVars /\ [InfoNext]_infoVars /\ [WsNext]_wsVars
    /\ [PoolNext]_poolVars /\ [AnnNext]_annVars /\ [RtNext]_rtVars
BY DEF SwarmNext, swarmVars

LEMMA PartsRun ==
  SwarmSpec => WireSpec /\ InfoSpec /\ WsSpec /\ PoolSpec /\ AnnSpec /\ RtSpec
BY PartsBegin, PartsStep, PTL
   DEF SwarmSpec, WireSpec, InfoSpec, WsSpec, PoolSpec, AnnSpec, RtSpec

(* What peers tell each other and what is asked of web seeds (peerconn.go, torrent.go,
   webseed-requesting.go): for any connections, pieces, chunks, torrents and limits, as long as
   both infohashes are known and no peer takes a HaveAll back. *)
THEOREM ProtocolStaysSafe ==
  ASSUME HashKnown = "both", ~RepeatsState
  PROVE  SwarmSpec => []ProtocolSafe
<1>1. InfoSpec => []InfoSafe
  BY InfoStaysSafe
<1>2. WireSafe /\ InfoSafe /\ WebseedSafe => ProtocolSafe
  BY DEF ProtocolSafe
<1> QED BY <1>1, <1>2, PartsRun, WireStaysSafe, WebseedsStaySafe, PTL

(* The steps of the trackers' schedule (client-tracker-announcer.go), of the DHT's table
   (dht/table.go), of the plan of web seed requests (webseed-requesting.go) and of the
   connections (client.go), for any of them. *)
THEOREM SwarmStaysKept == SwarmSpec => SwarmKeeps
BY PartsRun, AnnouncesStaySafe, TableStaysSafe, SlotsAreUsed, PoolStaysSafe, PTL DEF SwarmKeeps
=============================================================================
