-------------------------------- MODULE ConnPool --------------------------------
(* The connections of one torrent (bt/client.go, bt/torrent.go, bt/worse-conns.go):
   addresses known, attempts half open, connections established, and the limits on
   each.  Dials and handshakes run without the client lock and settle under it; the
   limit, the torrent and the banned addresses may have changed by then. *)
EXTENDS Integers, FiniteSets

CONSTANTS Addrs,        \* peer addresses
          PoolMax,      \* maxEstablishedConns
          HighWater,    \* TorrentPeersHighWater
          HalfOpenMax,  \* HalfOpenConnsPerTorrent
          Experiment,   \* attempts allowed beyond the headroom (5 in maxHalfOpen)
          PoolOps       \* bound on what trackers, peers and settings bring
ASSUME PoolAssumption == IsFiniteSet(Addrs) /\ PoolMax \in Nat /\ HighWater \in Nat

VARIABLES reserve,     \* t.peers
          attempts,    \* halfOpen: [a, n], n telling attempts to one address apart
          numHalf,     \* cl.numHalfOpen
          pool,        \* t.conns: [a, n, out, old]
          incoming,    \* addresses accepted and handshaking
          wanted,      \* needData, or seeding with something to give
          gone,        \* the torrent is closed
          bannedAddrs, \* badPeerIPs
          limited,     \* acceptLimiter
          poolOps
poolVars == <<reserve, attempts, numHalf, pool, incoming, wanted, gone, bannedAddrs, limited, poolOps>>

PoolInit ==
  /\ reserve = {} /\ attempts = {} /\ numHalf = 0 /\ pool = {} /\ incoming = {}
  /\ wanted = TRUE /\ gone = FALSE /\ bannedAddrs = {} /\ limited = {} /\ poolOps = 0

Spends == poolOps < PoolOps /\ poolOps' = poolOps + 1
Outgoing(P) == {c \in P : c.out}
Received(P) == {c \in P : ~c.out}
Fewest(a, b) == IF a < b THEN a ELSE b
Most(a, b) == IF a > b THEN a ELSE b
Fresh(X, a) == CHOOSE n \in 1..(Cardinality(X) + 1) : \A x \in X : x.a = a => x.n # n

(* worstBadConn: a connection of the direction there is too much of, else one past its
   minute in the worse half, or none.  Which of them is the worst depends on times and
   priorities: any of them here. *)
None == [a |-> "none"]
WorstBad(P, wrongWay) ==
  LET wrong == {c \in P : c.out \in wrongWay}
      old == {c \in P : c.old}
      early == Cardinality(P) - ((PoolMax + 1) \div 2)
  IN IF wrong # {} THEN wrong
     ELSE (IF early > 0 THEN old ELSE {}) \cup (IF Cardinality(P \ old) >= early THEN {None} ELSE {})

(* The direction that is bad for a connection in direction `out`: the other one, when
   it is ahead by more than one. *)
WrongWay(P, out) ==
  LET ahead == Cardinality(Outgoing(P)) - Cardinality(Received(P))
  IN IF out /\ ahead < -1 THEN {FALSE} ELSE IF ~out /\ ahead > 1 THEN {TRUE} ELSE {}

(* newConnsAllowed, wantOutgoingConns, wantIncomingConns *)
WantConns(P, out, w) ==
  /\ ~gone /\ w
  /\ Cardinality(P) < PoolMax \/ WorstBad(P, WrongWay(P, out)) # {None}

MaxHalfOpen(P) ==
  Fewest(Most(Experiment, Cardinality(Received(P)) - (PoolMax \div 2)) + (PoolMax - Cardinality(P)), HalfOpenMax)

(* initiateConn: not to a bad address, nor beside another attempt or connection to it. *)
MayDial(a, A, P, ignoreLimits) ==
  /\ a \notin bannedAddrs'
  /\ ignoreLimits \/ \A x \in A : x.a # a
  /\ \A c \in P : c.a # a

(* openNewConns: addresses are taken, best first, until enough attempts are under way;
   those that may be dialled become attempts. *)
Taken(R, A, P, w) ==
  LET started(S) == {a \in S : MayDial(a, A, P, FALSE)}
      count(S) == Cardinality(A) + Cardinality(started(S))
  IN IF ~WantConns(P, TRUE, w) \/ Cardinality(A) >= MaxHalfOpen(P) THEN {{}}
     ELSE {S \in SUBSET R : count(S) = MaxHalfOpen(P) \/ (S = R /\ count(S) < MaxHalfOpen(P))}

OpenNewConns(R, A, P, change) ==
  \E S \in Taken(R, A, P, wanted') :
    LET started == {a \in S : MayDial(a, A, P, FALSE)}
    IN /\ reserve' = R \ S
       /\ attempts' = A \cup {[a |-> a, n |-> Fresh(A \cup pool \cup P, a)] : a \in started}
       /\ numHalf' = numHalf + change + Cardinality(started)

(* addPeer: a tracker, PEX or DHT names an address; of too many the worst go. *)
AddPeer(a) ==
  /\ Spends /\ ~gone /\ a \notin bannedAddrs /\ UNCHANGED bannedAddrs
  /\ \E S \in Taken(reserve \cup {a}, attempts, pool, wanted), keep \in SUBSET Addrs :
       LET started == {b \in S : MayDial(b, attempts, pool, FALSE)}
           left == (reserve \cup {a}) \ S
       IN /\ keep \subseteq left /\ Cardinality(keep) = Fewest(Cardinality(left), HighWater)
          /\ reserve' = keep
          /\ attempts' = attempts \cup {[a |-> b, n |-> Fresh(attempts \cup pool, b)] : b \in started}
          /\ numHalf' = numHalf + Cardinality(started)
  /\ UNCHANGED <<pool, incoming, wanted, gone, limited>>

(* ut_holepunch Connect: an attempt of its own, whatever the limits. *)
HolepunchConnect(a) ==
  /\ Spends /\ ~gone /\ UNCHANGED bannedAddrs /\ MayDial(a, attempts, pool, TRUE)
  /\ attempts' = attempts \cup {[a |-> a, n |-> Fresh(attempts \cup pool, a)]}
  /\ numHalf' = numHalf + 1
  /\ UNCHANGED <<reserve, pool, incoming, wanted, gone, limited>>

(* addPeerConn: refused by a closed torrent, and by a full one with no bad connection
   to give up. *)
AddPeerConn(a, n, out) ==
  LET new == [a |-> a, n |-> n, out |-> out, old |-> FALSE]
  IN IF gone THEN {pool}
     ELSE IF Cardinality(pool) < PoolMax THEN {pool \cup {new}}
     ELSE {IF w = None THEN pool ELSE (pool \ {w}) \cup {new} : w \in WorstBad(pool, WrongWay(pool, out))}

(* noLongerHalfOpen: the attempt is over and the torrent looks for more to dial. *)
NoLongerHalfOpen(x) ==
  /\ x \in attempts /\ UNCHANGED <<wanted, bannedAddrs>>
  /\ OpenNewConns(reserve, attempts \ {x}, pool, -1)

(* dialAndCompleteHandshake without a connection: no dialer reached the peer, or the
   handshake failed with the header as preferred and again without. *)
DialFails(x) ==
  /\ NoLongerHalfOpen(x)
  /\ UNCHANGED <<pool, incoming, gone, limited, poolOps>>

(* outgoingConnection: only after the look for more is the connection added. *)
DialSucceeds(x) ==
  /\ NoLongerHalfOpen(x)
  /\ pool' \in AddPeerConn(x.a, x.n, TRUE)
  /\ UNCHANGED <<incoming, gone, limited, poolOps>>

(* acceptConnections: turned away unless wanted, neither bad nor of late. *)
Accept(a) ==
  /\ Spends /\ a \notin incoming
  /\ WantConns(pool, FALSE, wanted) /\ a \notin limited /\ a \notin bannedAddrs
  /\ incoming' = incoming \cup {a}
  /\ UNCHANGED <<reserve, attempts, numHalf, pool, wanted, gone, bannedAddrs, limited>>

(* runReceivedConn: a handshake that fails, or names no torrent, limits its address. *)
HandshakeFails(a) ==
  /\ a \in incoming /\ incoming' = incoming \ {a}
  /\ limited' = limited \cup {a}
  /\ UNCHANGED <<reserve, attempts, numHalf, pool, wanted, gone, bannedAddrs, poolOps>>

(* runHandshookConn, the torrent found before its close or not. *)
HandshakeReceived(a) ==
  /\ a \in incoming /\ incoming' = incoming \ {a}
  /\ pool' \in AddPeerConn(a, Fresh(attempts \cup pool, a), FALSE)
  /\ UNCHANGED <<reserve, attempts, numHalf, wanted, gone, bannedAddrs, limited, poolOps>>
ClearAcceptLimits ==
  /\ limited # {} /\ limited' = {}
  /\ UNCHANGED <<reserve, attempts, numHalf, pool, incoming, wanted, gone, bannedAddrs, poolOps>>

(* dropConnection *)
ConnLeaves(c) ==
  /\ c \in pool /\ pool' = pool \ {c} /\ UNCHANGED <<wanted, bannedAddrs>>
  /\ OpenNewConns(reserve, attempts, pool \ {c}, 0)
  /\ UNCHANGED <<incoming, gone, limited, poolOps>>
ConnAges(c) ==
  /\ c \in pool /\ ~c.old /\ ~gone /\ pool' = (pool \ {c}) \cup {[c EXCEPT !.old = TRUE]}
  /\ UNCHANGED <<reserve, attempts, numHalf, incoming, wanted, gone, bannedAddrs, limited, poolOps>>

(* banPeerIP drops the connections from the address; what is half open goes on. *)
BanPeer(a) ==
  /\ Spends /\ a \notin bannedAddrs /\ bannedAddrs' = bannedAddrs \cup {a}
  /\ UNCHANGED <<incoming, wanted, gone, limited>>
  /\ pool' = {c \in pool : c.a # a}
  /\ IF pool' = pool THEN UNCHANGED <<reserve, attempts, numHalf>>
     ELSE OpenNewConns(reserve, attempts, pool', 0)

(* Pieces complete or are wanted again; openNewConns when they are. *)
DemandChanges ==
  /\ Spends /\ ~gone /\ wanted' = ~wanted /\ UNCHANGED bannedAddrs
  /\ OpenNewConns(reserve, attempts, pool, 0)
  /\ UNCHANGED <<pool, incoming, gone, limited>>

(* close: the readers of its connections drop them one by one. *)
TorrentCloses ==
  /\ ~gone /\ gone' = TRUE
  /\ UNCHANGED <<reserve, attempts, numHalf, pool, incoming, wanted, bannedAddrs, limited, poolOps>>

PoolNext ==
  \/ \E a \in Addrs : AddPeer(a) \/ HolepunchConnect(a) \/ Accept(a) \/ BanPeer(a)
                      \/ HandshakeFails(a) \/ HandshakeReceived(a)
  \/ \E x \in attempts : DialFails(x) \/ DialSucceeds(x)
  \/ \E c \in pool : ConnLeaves(c) \/ ConnAges(c)
  \/ ClearAcceptLimits \/ DemandChanges \/ TorrentCloses

PoolSpec == PoolInit /\ [][PoolNext]_poolVars
-----------------------------------------------------------------------------
PoolTypeOK ==
  /\ reserve \subseteq Addrs /\ incoming \subseteq Addrs
  /\ \A c \in pool : c.a \in Addrs /\ c.out \in BOOLEAN

(* However dials, handshakes, new limits and drops interleave, the torrent is within
   its limit (addPeerConn panics otherwise), and cl.numHalfOpen is the number of
   attempts (noLongerHalfOpen panics below zero). *)
WithinLimits ==
  /\ Cardinality(pool) <= PoolMax
  /\ numHalf = Cardinality(attempts)
  /\ Cardinality(reserve) <= HighWater

(* A closed torrent begins nothing: late handshakes find it closed. *)
ClosedStaysShut ==
  [][gone => attempts' \subseteq attempts /\ pool' \subseteq pool]_poolVars

PoolSafe == [](PoolTypeOK /\ WithinLimits) /\ ClosedStaysShut
=============================================================================
