------------------------------- MODULE MCSwarm -------------------------------
(* Safety of the torrent engine and of the BitTorrent client below it: a behaviour
   picks one component and runs it alone. *)
EXTENDS TorrentEngine, SwarmPieces, PeerWire, SwarmInfo, ConnPool, TrackerAnnounce, Dht,
        WebseedRequests

(* What each node of the DHT answers with, and the one bucket all nodes of the table share. *)
Known == [n \in DhtNodes |-> IF n = 5 THEN {4, 3} ELSE IF n = 4 THEN {2, 1} ELSE {4}]
MCWsSize == <<3, 1>>
OneBucket == [n \in RtNodes |-> 0]

VARIABLE part
swarmVars == <<part, engVars, pieceVars, wireVars, infoVars, poolVars, annVars, dhtVars, rtVars, wsVars>>

SwarmInit ==
  /\ part \in {"engine", "pieces", "wire", "info", "pool", "announce", "dht", "table", "webseeds"}
  /\ EngInit /\ PiecesInit /\ WireInit /\ InfoInit /\ PoolInit /\ AnnInit /\ DhtInit /\ RtInit /\ WsInit
  /\ part # "pieces" => \A p \in Pieces : onDisk[p][1] = "none"

SwarmNext ==
  /\ part' = part
  /\ \/ part = "engine" /\ EngNext
        /\ UNCHANGED <<pieceVars, wireVars, infoVars, poolVars, annVars, dhtVars, rtVars, wsVars>>
     \/ part = "pieces" /\ PiecesNext
        /\ UNCHANGED <<engVars, wireVars, infoVars, poolVars, annVars, dhtVars, rtVars, wsVars>>
     \/ part = "wire" /\ WireNext
        /\ UNCHANGED <<engVars, pieceVars, infoVars, poolVars, annVars, dhtVars, rtVars, wsVars>>
     \/ part = "info" /\ InfoNext
        /\ UNCHANGED <<engVars, pieceVars, wireVars, poolVars, annVars, dhtVars, rtVars, wsVars>>
     \/ part = "pool" /\ PoolNext
        /\ UNCHANGED <<engVars, pieceVars, wireVars, infoVars, annVars, dhtVars, rtVars, wsVars>>
     \/ part = "announce" /\ AnnNext
        /\ UNCHANGED <<engVars, pieceVars, wireVars, infoVars, poolVars, dhtVars, rtVars, wsVars>>
     \/ part = "dht" /\ DhtNext
        /\ UNCHANGED <<engVars, pieceVars, wireVars, infoVars, poolVars, annVars, rtVars, wsVars>>
     \/ part = "table" /\ RtNext
        /\ UNCHANGED <<engVars, pieceVars, wireVars, infoVars, poolVars, annVars, dhtVars, wsVars>>
     \/ part = "webseeds" /\ WsNext
        /\ UNCHANGED <<engVars, pieceVars, wireVars, infoVars, poolVars, annVars, dhtVars, rtVars>>

SwarmSpec == SwarmInit /\ [][SwarmNext]_swarmVars

(* What peers tell each other, of the component that runs: requests (peerconn.go), the info and
   availability they build up (torrent.go), and the requests to web seeds, within their host's
   limit and their slice (webseed-requesting.go). *)
ProtocolSafe ==
  /\ part = "wire" => WireSafe
  /\ part = "info" => InfoSafe
  /\ part = "webseeds" => WebseedSafe

(* Steps of the two address books, the trackers' schedule (client-tracker-announcer.go) and
   the DHT's table (dht/table.go), of the plan of web seed requests, which leaves no slot
   idle (webseed-requesting.go), and of the connections, within their limits (client.go). *)
SwarmKeeps == AnnSafe /\ RtSafe /\ NoSlotIdle /\ PoolSafe
=============================================================================
