----------------------------- MODULE LibraryProofs -----------------------------
(* Proofs of four components that share no state.

   Episode fetch: one episode's release on record, for every set of releases and of fetchers
   (library/prefetch.go, library/play.go, store/playback.go).  Three parts, each kept by every
   step given all of them: what the store holds, who is in flight, and, as long as nobody
   played the episode, that whatever the engine holds without a record is the release the
   one fetch in flight has in hand.

   Updater: the processes of an update and the files beside them, for every set of versions,
   good and bad, and any number of processes (update/update.go, cmd/kuro/main.go).  The
   invariant says what each live process finds beside it, and that two are alive only
   while one hands over to the other.

   Access: who may use kuro, for every set of devices and identities and any limit on the
   requests waiting (server/approval.go, server/access.go, store/access.go).  The invariant
   says that what the server remembers is what the table holds, and that what a request of
   the host's page saved is in force or still in that request's hands.

   Cache: what deletes downloads, for every set of files and any way they are packed into
   torrents (library/cache.go, store/cache.go).  The invariant says that nothing an evictor
   has left to delete holds a file it may not take, and that no absence is older than the
   engine has been listing everything. *)
EXTENDS EpisodeFetch, Updater, Access, CacheSweep, FiniteSetTheorems, SequenceTheorems, TLAPS

RN == Releases \cup {NoRelease}
AtRest == {"idle", "await", "promoted"}
InHand == {"claim", "warm", "dead", "stopped", "record", "write", "discard", "delete"}
FetchPcs == AtRest \cup InHand \cup {"check", "add", "keep", "pause", "supersede", "drop", "end"}
FetchRecord ==
  [pc : FetchPcs, r : RN, prior : RN, keep : BOOLEAN, pick : RN, ahead : BOOLEAN, stale : RN,
   gone : SUBSET Releases, then : {"end", "pause", "again", "await"}]
PlayPcs == {"idle", "attach", "resume", "reheat", "try", "warm", "discard", "delete", "supersede",
            "drop", "play"}
PlayRecord ==
  [pc : PlayPcs, r : RN, before : SUBSET Releases, tried : SUBSET Releases, gone : SUBSET Releases]
FlightRecord == [on : BOOLEAN, rec : RN, hash : RN, taken : BOOLEAN]

(* The store: one selected row at most, and a row for whatever is kept or pinned. *)
HeldShape == held \in [Releases -> {"absent", "running", "paused"}]
RowsShape == rows \in [Releases -> {"none", "adopted", "selected", "superseded"}]
OneRow == \A r, s \in Releases : rows[r] = "selected" /\ rows[s] = "selected" => r = s
KeptHasRow == \A r \in kept \cup pinned : rows[r] # "none"
StoreInv ==
  /\ HeldShape /\ RowsShape /\ kept \subseteq Releases /\ pinned \subseteq Releases
  /\ OneRow /\ KeptHasRow

(* The flight: one fetcher at most between beginFetch and endFetch, and from the moment it
   added a release until it settled what becomes of it, it has one. *)
InFlight(f) == fetch[f].pc \notin AtRest
OneFlight ==
  /\ \A f \in Fetchers : InFlight(f) => flight.on
  /\ \A f, g \in Fetchers : InFlight(f) /\ InFlight(g) => f = g
HasRelease ==
  /\ \A f \in Fetchers : fetch[f].pc \in InHand \cup {"keep", "pause"} => fetch[f].r \in Releases
  /\ play.pc \notin {"idle", "attach", "resume", "try"} => play.r \in Releases
FlightInv ==
  /\ fetch \in [Fetchers -> FetchRecord] /\ flight \in FlightRecord /\ play \in PlayRecord
  /\ counts \in [fetches : Nat, plays : Nat] /\ claimed \subseteq Releases /\ prepared \in RN
  /\ OneFlight /\ HasRelease

(* Before anything is played: a release the engine holds without a record of the episode's is
   in a fetch's hand, and one a fetch is done with is on record. *)
Loose(r) == InEngine(r) /\ ~TorrentClaimed(r)
Minds(f, r) ==
  /\ fetch[f].r = r
  /\ fetch[f].pc \in InHand \/ (fetch[f].pc = "pause" /\ fetch[f].then = "again")
Settled(f) ==
  fetch[f].pc = "keep" \/ (fetch[f].pc = "pause" /\ fetch[f].then # "again") => TorrentClaimed(fetch[f].r)
Unplayed ==
  counts.plays = 0 =>
    /\ play.pc = "idle" /\ ~flight.taken
    /\ \A r \in Releases : Loose(r) => \E f \in Fetchers : Minds(f, r)
    /\ \A f \in Fetchers : Settled(f)

FetchInv == StoreInv /\ FlightInv /\ Unplayed

-----------------------------------------------------------------------------
LEMMA IdleFacts ==
  /\ FetchIdle \in FetchRecord /\ FetchIdle.pc = "idle" /\ FetchIdle.then = "end"
  /\ PlayIdle \in PlayRecord /\ PlayIdle.pc = "idle"
  /\ NoFlight \in FlightRecord /\ NoFlight.taken = FALSE /\ NoFlight.on = FALSE
<1>1. FetchIdle \in FetchRecord
  BY DEF FetchIdle, FetchRecord, FetchPcs, AtRest, RN
<1>2. PlayIdle \in PlayRecord
  BY DEF PlayIdle, PlayRecord, PlayPcs, RN
<1>3. NoFlight \in FlightRecord
  BY DEF NoFlight, FlightRecord, RN
<1>. QED BY <1>1, <1>2, <1>3 DEF FetchIdle, PlayIdle, NoFlight

(* TorrentForEpisode: a release that is selected, or none. *)
LEMMA OnRecord ==
  /\ TorrentForEpisode \in RN
  /\ TorrentForEpisode # NoRelease => TorrentForEpisode \in Releases /\ rows[TorrentForEpisode] = "selected"
<1>1. CASE Selected = {}
  BY <1>1 DEF TorrentForEpisode, RN
<1>2. CASE Selected # {}
  <2>1. PICK s \in Selected : TRUE
    BY <1>2
  <2>2. (CHOOSE r \in Selected : TRUE) \in Selected
    BY <2>1
  <2>. QED BY <1>2, <2>2 DEF TorrentForEpisode, Selected, RN
<1>. QED BY <1>1, <1>2

(* RecordTorrent leaves the release it records as the only selected one, and takes no
   release's record away. *)
LEMMA RecordDoes ==
  ASSUME StoreInv, NEW r \in Releases, RecordTorrent(r), UNCHANGED <<held, pinned>>
  PROVE  /\ StoreInv'
         /\ TorrentClaimed(r)'
         /\ \A x \in Releases : TorrentClaimed(x) => TorrentClaimed(x)'
<1>1. rows' = [x \in Releases |-> IF x = r THEN "selected"
                                  ELSE IF rows[x] = "selected" THEN "superseded" ELSE rows[x]]
  BY DEF RecordTorrent
<1>2. RowsShape' /\ HeldShape'
  BY <1>1 DEF StoreInv, RowsShape, HeldShape
<1>3. \A x \in Releases : rows'[x] = "selected" => x = r
  BY <1>1
<1>4. OneRow'
  BY <1>3 DEF OneRow
<1>5. \A x \in Releases : rows[x] # "none" => rows'[x] # "none"
  BY <1>1
<1>6. rows'[r] = "selected"
  BY <1>1
<1>7. kept' \subseteq kept \cup {r} /\ kept' \subseteq Releases
  BY DEF RecordTorrent, StoreInv
<1>8. KeptHasRow'
  BY <1>5, <1>6, <1>7 DEF StoreInv, KeptHasRow
<1>9. \A x \in Releases : TorrentClaimed(x) => TorrentClaimed(x)'
  BY <1>1 DEF TorrentClaimed
<1>. QED
  BY <1>2, <1>4, <1>6, <1>7, <1>8, <1>9 DEF StoreInv, TorrentClaimed

(* Deleting releases takes them out of the engine with their record. *)
LEMMA DeleteDoes ==
  ASSUME StoreInv, NEW S, DeleteReleases(S)
  PROVE  /\ StoreInv'
         /\ \A x \in Releases : IF x \in S THEN ~InEngine(x)' ELSE held'[x] = held[x] /\ rows'[x] = rows[x]
<1>1. /\ held' = [x \in Releases |-> IF x \in S THEN "absent" ELSE held[x]]
      /\ rows' = [x \in Releases |-> IF x \in S THEN "none" ELSE rows[x]]
      /\ kept' = kept \ S /\ pinned' = pinned \ S
  BY DEF DeleteReleases
<1>2. HeldShape' /\ RowsShape'
  BY <1>1 DEF StoreInv, HeldShape, RowsShape
<1>3. OneRow'
  BY <1>1 DEF StoreInv, OneRow
<1>4. KeptHasRow'
  BY <1>1 DEF StoreInv, KeptHasRow
<1>. QED BY <1>1, <1>2, <1>3, <1>4 DEF StoreInv, InEngine

(* What a step leaves of the store when rows and flags stay as they are. *)
LEMMA HeldOnly ==
  ASSUME StoreInv, HeldShape', UNCHANGED <<rows, kept, pinned>>
  PROVE  StoreInv'
BY DEF StoreInv, RowsShape, OneRow, KeptHasRow

-----------------------------------------------------------------------------
(* Every step of a fetch keeps the store. *)
LEMMA FetchKeepsStore ==
  ASSUME FetchInv, NEW f \in Fetchers,
         FetchStep(f) \/ \E pick \in RN : Promote(f, pick) \/ \E keep \in BOOLEAN : BeginFetch(f, keep, pick)
  PROVE  StoreInv'
<1>. USE DEF FetchInv
<1>0. StoreInv /\ HeldShape /\ fetch[f] \in FetchRecord
  BY DEF StoreInv, FlightInv
<1>1. CASE \/ CheckHeld(f) \/ NothingFound(f) \/ ClaimTorrent(f) \/ WarmFailed(f) \/ RecordLook(f)
           \/ DiscardLook(f) \/ SupersededLook(f) \/ EndFetch(f)
           \/ \E pick \in RN, keep \in BOOLEAN : BeginFetch(f, keep, pick)
  <2>1. UNCHANGED <<held, rows, kept, pinned>>
    BY <1>1 DEF CheckHeld, NothingFound, ClaimTorrent, WarmFailed, RecordLook, DiscardLook,
                SupersededLook, EndFetch, BeginFetch
  <2>. QED BY <1>0, <2>1, HeldOnly DEF HeldShape
<1>2. CASE RecordWrite(f)
  <2>1. fetch[f].r \in Releases
    BY <1>2 DEF RecordWrite, FlightInv, HasRelease, InHand
  <2>. QED BY <1>0, <1>2, <2>1, RecordDoes DEF RecordWrite
<1>3. CASE KeepDownload(f)
  <2>1. /\ fetch[f].r \in Releases /\ UNCHANGED <<held, rows, pinned>>
        /\ kept' = kept \/ (kept' = kept \cup {fetch[f].r} /\ rows[fetch[f].r] # "none")
    BY <1>3 DEF KeepDownload, FlightInv, HasRelease
  <2>. QED BY <1>0, <2>1 DEF StoreInv, HeldShape, RowsShape, OneRow, KeptHasRow
<1>4. CASE PauseAbandoned(f)
  BY <1>0, <1>4, HeldOnly DEF PauseAbandoned, HeldShape
<1>5. CASE DiscardDelete(f) \/ SupersededDrop(f)
  BY <1>0, <1>5, DeleteDoes DEF DiscardDelete, SupersededDrop
<1>6. CASE \E r \in Releases : AddFirst(f, r)
  BY <1>0, <1>6, HeldOnly DEF AddFirst, HeldShape
<1>7. CASE \E o \in {"record", "dead", "stopped"} : Warm(f, o)
  BY <1>0, <1>7, HeldOnly DEF Warm, HeldShape
<1>8. CASE \E done \in BOOLEAN : AwaitOrStop(f, done)
  BY <1>0, <1>8, HeldOnly DEF AwaitOrStop, HeldShape
<1>9. CASE \E pick \in RN : Promote(f, pick)
  <2>1. /\ TorrentForEpisode \in Releases /\ rows[TorrentForEpisode] = "selected"
        /\ kept' = kept \cup {TorrentForEpisode} /\ held' = [held EXCEPT ![TorrentForEpisode] = "running"]
        /\ UNCHANGED <<rows, pinned>>
    BY <1>9, OnRecord DEF Promote, InEngine
  <2>. QED BY <1>0, <2>1 DEF StoreInv, HeldShape, RowsShape, OneRow, KeptHasRow
<1>. QED
  BY <1>1, <1>2, <1>3, <1>4, <1>5, <1>6, <1>7, <1>8, <1>9 DEF FetchStep

(* Every step of a play, of the resolver and of the sweep does too. *)
LEMMA PlayKeepsStore ==
  ASSUME FetchInv,
         PlayStep \/ Reattach \/ PinOnly \/ Suspend \/ (\E r \in Releases : Prepare(r) \/ Adopt(r))
  PROVE  StoreInv'
<1>. USE DEF FetchInv
<1>0. StoreInv /\ HeldShape /\ play \in PlayRecord
  BY DEF StoreInv, FlightInv
<1>1. CASE \/ Attach \/ NoCandidate \/ CandidateDiscard \/ PlaySuperseded \/ Reattach
           \/ \E r \in Releases : Prepare(r)
  <2>1. UNCHANGED <<held, rows, kept, pinned>>
    BY <1>1 DEF Attach, NoCandidate, CandidateDiscard, PlaySuperseded, Reattach, Prepare
  <2>. QED BY <1>0, <2>1, HeldOnly DEF HeldShape
<1>2. CASE ResumeHeld
  BY <1>0, <1>2, HeldOnly DEF ResumeHeld, HeldShape
<1>3. CASE \E r \in Releases : TryCandidate(r)
  BY <1>0, <1>3, HeldOnly DEF TryCandidate, HeldShape
<1>4. CASE \E ok \in BOOLEAN : Reheated(ok) \/ Candidate(ok)
  <2>1. UNCHANGED <<held, pinned>>
    BY <1>4 DEF Reheated, Candidate
  <2>2. CASE UNCHANGED <<rows, kept>>
    BY <1>0, <2>1, <2>2, HeldOnly DEF HeldShape
  <2>3. CASE RecordTorrent(play.r) /\ InEngine(play.r)
    <3>1. play.r \in Releases
      BY <1>0, <2>3 DEF InEngine, PlayRecord, RN
    <3>. QED BY <1>0, <2>1, <2>3, <3>1, RecordDoes
  <2>. QED BY <1>4, <2>2, <2>3 DEF Reheated, Candidate
<1>5. CASE CandidateDelete \/ PlayDrop
  BY <1>0, <1>5, DeleteDoes DEF CandidateDelete, PlayDrop
<1>6. CASE PinOnly
  <2>1. /\ pinned' = {play.r} /\ TorrentClaimed(play.r) /\ UNCHANGED <<held, rows, kept>>
    BY <1>6 DEF PinOnly
  <2>2. play.r \in Releases /\ rows[play.r] # "none"
    BY <1>6, <2>1 DEF PinOnly, FlightInv, HasRelease, TorrentClaimed
  <2>. QED BY <1>0, <2>1, <2>2 DEF StoreInv, HeldShape, RowsShape, OneRow, KeptHasRow
<1>7. CASE Suspend
  <2>1. /\ pinned' \subseteq pinned /\ UNCHANGED <<rows, kept>>
        /\ held' = held \/ held' = [held EXCEPT ![TorrentForEpisode] = "paused"]
    BY <1>7 DEF Suspend
  <2>2. HeldShape'
    BY <1>0, <2>1 DEF HeldShape
  <2>. QED BY <1>0, <2>1, <2>2 DEF StoreInv, RowsShape, OneRow, KeptHasRow
<1>8. CASE \E r \in Releases : Adopt(r)
  <2>1. PICK r \in Releases : Adopt(r)
    BY <1>8
  <2>2. rows' = [rows EXCEPT ![r] = "adopted"] /\ rows[r] = "none" /\ UNCHANGED <<held, kept, pinned>>
    BY <2>1 DEF Adopt
  <2>. QED BY <1>0, <2>2 DEF StoreInv, HeldShape, RowsShape, OneRow, KeptHasRow
<1>. QED
  BY <1>1, <1>2, <1>3, <1>4, <1>5, <1>6, <1>7, <1>8 DEF PlayStep

-----------------------------------------------------------------------------
(* A fetcher's step changes its own record: what has to be shown of the flight. *)
LEMMA FlightMoves ==
  ASSUME FetchInv, NEW f \in Fetchers, NEW e \in FetchRecord,
         fetch' = [fetch EXCEPT ![f] = e], flight' \in FlightRecord, UNCHANGED play,
         counts' \in [fetches : Nat, plays : Nat], claimed' \subseteq Releases, prepared' \in RN,
         e.pc \in InHand \cup {"keep", "pause"} => e.r \in Releases,
         InFlight(f) \/ ~flight.on \/ e.pc \in AtRest,
         e.pc \notin AtRest => flight'.on,
         InFlight(f) \/ e.pc \notin AtRest \/ flight'.on = flight.on
  PROVE  FlightInv'
<1>. USE DEF FetchInv
<1>1. fetch \in [Fetchers -> FetchRecord] /\ OneFlight /\ HasRelease
  BY DEF FlightInv
<1>2. \A g \in Fetchers : fetch'[g] = IF g = f THEN e ELSE fetch[g]
  BY <1>1
<1>3. fetch' \in [Fetchers -> FetchRecord]
  BY <1>1
<1>4. OneFlight'
  BY <1>1, <1>2 DEF OneFlight, InFlight
<1>5. HasRelease'
  BY <1>1, <1>2 DEF HasRelease
<1>. QED BY <1>3, <1>4, <1>5 DEF FlightInv

LEMMA FetchKeepsFlight ==
  ASSUME FetchInv, NEW f \in Fetchers, FetchStep(f)
  PROVE  FlightInv'
<1>. USE DEF FetchInv
<1>0. /\ fetch \in [Fetchers -> FetchRecord] /\ fetch[f] \in FetchRecord /\ flight \in FlightRecord
      /\ counts \in [fetches : Nat, plays : Nat] /\ claimed \subseteq Releases /\ prepared \in RN
      /\ InFlight(f) => flight.on
      /\ fetch[f].pc \in InHand \cup {"keep", "pause"} => fetch[f].r \in Releases
  BY DEF FlightInv, OneFlight, HasRelease
<1>. USE DEF InFlight, AtRest, InHand
<1>1. CASE CheckHeld(f)
  <2>. DEFINE e == [fetch[f] EXCEPT !.pc = IF fetch[f].pick = NoRelease /\ InEngine(TorrentForEpisode) THEN "end" ELSE "add",
                                    !.prior = TorrentForEpisode]
  <2>1. fetch' = [fetch EXCEPT ![f] = e] /\ e \in FetchRecord /\ e.pc \in {"end", "add"}
    BY <1>0, <1>1, OnRecord DEF CheckHeld, FetchRecord, FetchPcs
  <2>. HIDE DEF e
  <2>. QED BY <1>0, <1>1, <2>1, FlightMoves DEF CheckHeld
<1>2. CASE \E r \in Releases : AddFirst(f, r)
  <2>1. PICK r \in Releases : AddFirst(f, r)
    BY <1>2
  <2>. DEFINE ahead == fetch[f].pick = NoRelease /\ prepared # NoRelease
              e == [fetch[f] EXCEPT !.pc = "claim", !.r = r, !.ahead = ahead]
  <2>2. ahead \in BOOLEAN
    OBVIOUS
  <2>3. fetch' = [fetch EXCEPT ![f] = e]
    BY <1>0, <2>1 DEF AddFirst
  <2>4. e \in FetchRecord /\ e.pc = "claim" /\ e.r = r
    <3>. HIDE DEF ahead
    <3>. QED BY <1>0, <2>2 DEF FetchRecord, FetchPcs, RN
  <2>5. fetch[f].pc = "add" /\ prepared' \in RN /\ UNCHANGED <<flight, claimed, play, counts>>
    BY <1>0, <2>1 DEF AddFirst, RN
  <2>. HIDE DEF e
  <2>. QED BY <1>0, <2>3, <2>4, <2>5, FlightMoves
<1>3. CASE ClaimTorrent(f)
  <2>. DEFINE e == [fetch[f] EXCEPT !.pc = "warm"]
  <2>1. fetch' = [fetch EXCEPT ![f] = e] /\ e \in FetchRecord /\ e.pc = "warm" /\ e.r = fetch[f].r
    BY <1>0, <1>3 DEF ClaimTorrent, Go, FetchRecord, FetchPcs
  <2>2. /\ flight' \in FlightRecord /\ flight'.on = flight.on /\ claimed' \subseteq Releases
        /\ fetch[f].pc = "claim" /\ UNCHANGED <<prepared, play, counts>>
    BY <1>0, <1>3 DEF ClaimTorrent, FlightRecord, RN
  <2>. HIDE DEF e
  <2>. QED BY <1>0, <2>1, <2>2, FlightMoves
<1>4. CASE \E o \in {"record", "dead", "stopped"} : Warm(f, o)
  <2>1. PICK o \in {"record", "dead", "stopped"} : Warm(f, o)
    BY <1>4
  <2>. DEFINE e == [fetch[f] EXCEPT !.pc = o]
  <2>2. fetch' = [fetch EXCEPT ![f] = e] /\ e \in FetchRecord /\ e.pc = o /\ e.r = fetch[f].r
    BY <1>0, <2>1 DEF Warm, Go, FetchRecord, FetchPcs
  <2>. HIDE DEF e
  <2>. QED BY <1>0, <2>1, <2>2, FlightMoves DEF Warm
<1>5. CASE WarmFailed(f)
  <2>. DEFINE e == [fetch[f] EXCEPT
                      !.pc = IF flight.taken THEN "end"
                             ELSE IF fetch[f].pc = "stopped" \/ ~fetch[f].ahead THEN "record" ELSE "pause",
                      !.then = IF fetch[f].pc = "stopped" \/ ~fetch[f].ahead THEN "pause" ELSE "again"]
  <2>1. fetch' = [fetch EXCEPT ![f] = e] /\ e \in FetchRecord /\ e.pc \in {"end", "record", "pause"} /\ e.r = fetch[f].r
    BY <1>0, <1>5 DEF WarmFailed, FetchRecord, FetchPcs
  <2>. HIDE DEF e
  <2>2. /\ fetch[f].pc \in {"dead", "stopped"} /\ fetch[f].r \in Releases
        /\ UNCHANGED <<flight, claimed, prepared, play, counts>>
    BY <1>0, <1>5 DEF WarmFailed
  <2>. QED BY <1>0, <2>1, <2>2, FlightMoves
<1>6. CASE RecordLook(f)
  <2>. DEFINE looked == TorrentForEpisode \in {NoRelease, fetch[f].r, fetch[f].prior}
              e == IF looked THEN [fetch[f] EXCEPT !.pc = "write"]
                   ELSE [fetch[f] EXCEPT !.pc = "discard", !.then = "end"]
  <2>1. fetch' = [fetch EXCEPT ![f] = e] /\ e \in FetchRecord /\ e.pc \in {"write", "discard"} /\ e.r = fetch[f].r
    BY <1>0, <1>6 DEF RecordLook, Go, FetchRecord, FetchPcs
  <2>2. flight' \in FlightRecord /\ flight'.on = flight.on
    BY <1>0, <1>6 DEF RecordLook, FlightRecord, RN
  <2>. HIDE DEF e
  <2>. QED BY <1>0, <1>6, <2>1, <2>2, FlightMoves DEF RecordLook
<1>7. CASE NothingFound(f) \/ RecordWrite(f) \/ KeepDownload(f) \/ DiscardLook(f) \/ DiscardDelete(f)
  <2>1. PICK pc \in {"end", "keep", "pause", "supersede", "delete", "add"} :
          fetch' = [fetch EXCEPT ![f].pc = pc] /\ (pc \in {"keep", "delete", "pause"} => fetch[f].r \in Releases)
    BY <1>0, <1>7 DEF NothingFound, RecordWrite, KeepDownload, DiscardLook, DiscardDelete, Go
  <2>. DEFINE e == [fetch[f] EXCEPT !.pc = pc]
  <2>2. fetch' = [fetch EXCEPT ![f] = e] /\ e \in FetchRecord /\ e.pc = pc /\ e.r = fetch[f].r
    BY <1>0, <2>1 DEF FetchRecord, FetchPcs
  <2>3. fetch[f].pc \notin AtRest /\ UNCHANGED <<flight, claimed, prepared, play, counts>>
    BY <1>7 DEF NothingFound, RecordWrite, KeepDownload, DiscardLook, DiscardDelete
  <2>4. e.pc \notin AtRest /\ (e.pc \in InHand \cup {"keep", "pause"} => e.r \in Releases)
    BY <2>1, <2>2
  <2>. HIDE DEF e
  <2>. QED BY <1>0, <2>2, <2>3, <2>4, FlightMoves
<1>8. CASE PauseAbandoned(f)
  <2>. DEFINE e == IF fetch[f].then = "again" THEN [fetch[f] EXCEPT !.pc = "discard", !.stale = fetch[f].r]
                   ELSE [fetch[f] EXCEPT !.pc = "end"]
  <2>1. fetch' = [fetch EXCEPT ![f] = e] /\ e \in FetchRecord /\ e.pc \in {"discard", "end"} /\ e.r = fetch[f].r
    BY <1>0, <1>8 DEF PauseAbandoned, Go, FetchRecord, FetchPcs
  <2>2. flight' \in FlightRecord /\ flight'.on = flight.on
    BY <1>0, <1>8 DEF PauseAbandoned, FlightRecord, RN
  <2>. HIDE DEF e
  <2>. QED BY <1>0, <1>8, <2>1, <2>2, FlightMoves DEF PauseAbandoned
<1>9. CASE SupersededLook(f) \/ SupersededDrop(f)
  <2>. DEFINE e == IF fetch[f].pc = "supersede" THEN [fetch[f] EXCEPT !.pc = "drop", !.gone = Superseded]
                   ELSE [fetch[f] EXCEPT !.pc = "end", !.then = "await"]
  <2>1. fetch' = [fetch EXCEPT ![f] = e] /\ e \in FetchRecord /\ e.pc \in {"drop", "end"}
    BY <1>0, <1>9 DEF SupersededLook, SupersededDrop, Superseded, FetchRecord, FetchPcs
  <2>2. fetch[f].pc \notin AtRest /\ UNCHANGED <<flight, claimed, prepared, play, counts>>
    BY <1>9 DEF SupersededLook, SupersededDrop
  <2>. HIDE DEF e
  <2>. QED BY <1>0, <2>1, <2>2, FlightMoves
<1>10. CASE EndFetch(f)
  <2>. DEFINE w == [FetchIdle EXCEPT !.pc = "await", !.r = fetch[f].r]
              e == IF fetch[f].then = "await" /\ fetch[f].keep THEN w ELSE FetchIdle
  <2>1. w \in FetchRecord /\ w.pc = "await"
    BY <1>0, IdleFacts DEF FetchRecord, FetchPcs
  <2>2. fetch' = [fetch EXCEPT ![f] = e]
    BY <1>10 DEF EndFetch
  <2>3. e \in FetchRecord /\ e.pc \in AtRest
    <3>. HIDE DEF w
    <3>. QED BY <2>1, IdleFacts
  <2>4. /\ flight' \in FlightRecord /\ claimed' \subseteq Releases /\ fetch[f].pc = "end"
        /\ UNCHANGED <<prepared, play, counts>>
    BY <1>0, <1>10, IdleFacts DEF EndFetch
  <2>. HIDE DEF e
  <2>. QED BY <1>0, <2>2, <2>3, <2>4, FlightMoves
<1>11. CASE \E done \in BOOLEAN : AwaitOrStop(f, done)
  <2>1. fetch' = [fetch EXCEPT ![f] = FetchIdle]
    BY <1>11 DEF AwaitOrStop
  <2>2. claimed' \subseteq Releases /\ UNCHANGED <<flight, prepared, play, counts>>
    BY <1>0, <1>11 DEF AwaitOrStop
  <2>. QED BY <1>0, <2>1, <2>2, IdleFacts, FlightMoves
<1>. QED
  BY <1>1, <1>2, <1>3, <1>4, <1>5, <1>6, <1>7, <1>8, <1>9, <1>10, <1>11 DEF FetchStep

LEMMA StartKeepsFlight ==
  ASSUME FetchInv, NEW f \in Fetchers, NEW pick \in RN,
         Promote(f, pick) \/ \E keep \in BOOLEAN : BeginFetch(f, keep, pick)
  PROVE  FlightInv'
<1>. USE DEF FetchInv
<1>0. /\ fetch \in [Fetchers -> FetchRecord] /\ flight \in FlightRecord
      /\ counts \in [fetches : Nat, plays : Nat] /\ claimed \subseteq Releases /\ prepared \in RN
  BY DEF FlightInv
<1>1. counts' \in [fetches : Nat, plays : Nat] /\ UNCHANGED <<prepared, play>> /\ fetch[f].pc = "idle"
  <2>1. counts' = [counts EXCEPT !.fetches = counts.fetches + 1] /\ UNCHANGED <<prepared, play>> /\ fetch[f].pc = "idle"
    BY DEF Promote, BeginFetch
  <2>. QED BY <1>0, <2>1
<1>2. CASE Promote(f, pick)
  <2>. DEFINE e == [FetchIdle EXCEPT !.pc = "promoted", !.r = TorrentForEpisode]
  <2>1. e \in FetchRecord /\ e.pc = "promoted"
    BY IdleFacts, OnRecord DEF FetchRecord, FetchPcs, AtRest
  <2>2. fetch' = [fetch EXCEPT ![f] = e]
    BY <1>2 DEF Promote
  <2>3. claimed' \subseteq Releases /\ UNCHANGED flight
    BY <1>0, <1>2, OnRecord DEF Promote, InEngine
  <2>. HIDE DEF e
  <2>. QED BY <1>0, <1>1, <2>1, <2>2, <2>3, FlightMoves DEF AtRest, InHand
<1>3. ASSUME NEW keep \in BOOLEAN, BeginFetch(f, keep, pick) PROVE FlightInv'
  <2>. DEFINE e == [FetchIdle EXCEPT !.pc = "check", !.keep = keep, !.pick = pick]
              n == [NoFlight EXCEPT !.on = TRUE]
  <2>1. e \in FetchRecord /\ e.pc = "check"
    BY IdleFacts DEF FetchRecord, FetchPcs
  <2>2. n \in FlightRecord /\ n.on = TRUE
    BY IdleFacts DEF FlightRecord
  <2>3. fetch' = [fetch EXCEPT ![f] = e] /\ flight' = n /\ ~flight.on /\ UNCHANGED claimed
    BY <1>3 DEF BeginFetch
  <2>. HIDE DEF e, n
  <2>. QED BY <1>0, <1>1, <2>1, <2>2, <2>3, FlightMoves DEF AtRest, InHand
<1>. QED BY <1>2, <1>3

LEMMA PlayKeepsFlight ==
  ASSUME FetchInv,
         PlayStep \/ Reattach \/ PinOnly \/ Suspend \/ (\E r \in Releases : Prepare(r) \/ Adopt(r))
  PROVE  FlightInv'
<1>. USE DEF FetchInv
<1>0. /\ play \in PlayRecord /\ flight \in FlightRecord /\ OneFlight /\ HasRelease
      /\ counts \in [fetches : Nat, plays : Nat] /\ prepared \in RN
  BY DEF FlightInv
<1>1. UNCHANGED <<fetch, claimed>>
  BY DEF PlayStep, ResumeHeld, Attach, NoCandidate, CandidateDiscard, CandidateDelete, PlaySuperseded,
         PlayDrop, TryCandidate, Reheated, Candidate, Reattach, PinOnly, Suspend, Prepare, Adopt
<1>2. prepared' \in RN
  BY <1>0 DEF PlayStep, ResumeHeld, Attach, NoCandidate, CandidateDiscard, CandidateDelete, PlaySuperseded,
         PlayDrop, TryCandidate, Reheated, Candidate, Reattach, PinOnly, Suspend, Prepare, Adopt, RN
<1>3. flight' \in FlightRecord /\ flight'.on = flight.on
  <2>1. CASE Reattach
    <3>. DEFINE taken == TorrentForEpisode = NoRelease /\ flight.rec # NoRelease
    <3>1. flight' = [flight EXCEPT !.taken = flight.taken \/ taken]
      BY <2>1 DEF Reattach
    <3>2. (flight.taken \/ taken) \in BOOLEAN
      OBVIOUS
    <3>. HIDE DEF taken
    <3>. QED BY <1>0, <3>1, <3>2 DEF FlightRecord
  <2>2. CASE ~Reattach
    BY <1>0, <2>2 DEF PlayStep, ResumeHeld, Attach, NoCandidate, CandidateDiscard, CandidateDelete,
         PlaySuperseded, PlayDrop, TryCandidate, Reheated, Candidate, PinOnly, Suspend, Prepare, Adopt
  <2>. QED BY <2>1, <2>2
<1>4. counts' \in [fetches : Nat, plays : Nat]
  <2>1. counts' = counts \/ counts' = [counts EXCEPT !.plays = counts.plays + 1]
    BY DEF PlayStep, ResumeHeld, Attach, NoCandidate, CandidateDiscard, CandidateDelete,
         PlaySuperseded, PlayDrop, TryCandidate, Reheated, Candidate, Reattach, PinOnly, Suspend, Prepare, Adopt
  <2>. QED BY <1>0, <2>1
<1>5. play' \in PlayRecord /\ (play'.pc \notin {"idle", "attach", "resume", "try"} => play'.r \in Releases)
  <2>1. CASE Reattach
    <3>. DEFINE r == IF TorrentForEpisode = NoRelease /\ flight.rec # NoRelease THEN flight.rec ELSE TorrentForEpisode
                pc == IF r = NoRelease THEN "attach" ELSE "resume"
    <3>1. play' = [PlayIdle EXCEPT !.pc = pc, !.r = r]
      BY <2>1 DEF Reattach
    <3>2. r \in RN /\ pc \in {"attach", "resume"}
      BY <1>0, OnRecord DEF FlightRecord
    <3>. HIDE DEF r, pc
    <3>. QED BY <3>1, <3>2, IdleFacts DEF PlayRecord, PlayPcs
  <2>2. CASE ResumeHeld
    BY <1>0, <2>2 DEF ResumeHeld, InEngine, PlayRecord, PlayPcs, RN
  <2>3. CASE Attach
    BY <1>0, <2>3 DEF Attach, PlayRecord, PlayPcs
  <2>4. CASE NoCandidate \/ Suspend
    BY <2>4, IdleFacts DEF NoCandidate, Suspend
  <2>5. CASE \E r \in Releases : TryCandidate(r)
    <3>1. PICK r \in Releases : TryCandidate(r)
      BY <2>5
    <3>2. play' = [play EXCEPT !.pc = "warm", !.r = r, !.tried = play.tried \cup {r}]
      BY <3>1 DEF TryCandidate
    <3>3. play.tried \cup {r} \in SUBSET Releases /\ r \in RN
      BY <1>0 DEF PlayRecord, RN
    <3>. QED BY <1>0, <3>2, <3>3 DEF PlayRecord, PlayPcs
  <2>6. CASE \E ok \in BOOLEAN : Reheated(ok) \/ Candidate(ok)
    BY <1>0, <2>6 DEF Reheated, Candidate, HasRelease, PlayRecord, PlayPcs
  <2>7. CASE CandidateDiscard \/ CandidateDelete \/ PlayDrop
    BY <1>0, <2>7 DEF CandidateDiscard, CandidateDelete, PlayDrop, HasRelease, PlayRecord, PlayPcs
  <2>8. CASE PlaySuperseded
    BY <1>0, <2>8 DEF PlaySuperseded, Superseded, HasRelease, PlayRecord, PlayPcs
  <2>9. CASE PinOnly \/ \E r \in Releases : Prepare(r) \/ Adopt(r)
    BY <1>0, <2>9 DEF PinOnly, Prepare, Adopt, HasRelease
  <2>. QED BY <2>1, <2>2, <2>3, <2>4, <2>5, <2>6, <2>7, <2>8, <2>9 DEF PlayStep
<1>6. OneFlight' /\ HasRelease'
  BY <1>0, <1>1, <1>3, <1>5 DEF OneFlight, HasRelease, InFlight
<1>. QED BY <1>1, <1>2, <1>3, <1>4, <1>5, <1>6 DEF FlightInv

-----------------------------------------------------------------------------
(* As long as nobody played: what is loose is in the hand of the one in flight. *)
LEMMA InTheOneHand ==
  ASSUME FetchInv, counts.plays = 0, NEW f \in Fetchers, InFlight(f), NEW r \in Releases, Loose(r)
  PROVE  Minds(f, r)
<1>1. PICK g \in Fetchers : Minds(g, r)
  BY DEF FetchInv, Unplayed
<1>2. InFlight(g)
  BY <1>1 DEF Minds, InFlight, InHand, AtRest
<1>3. g = f
  BY <1>2 DEF FetchInv, FlightInv, OneFlight
<1>. QED BY <1>1, <1>3

(* What has to be shown of a step of the one in flight ... *)
LEMMA HandsOn ==
  ASSUME FetchInv, NEW f \in Fetchers, InFlight(f), \A g \in Fetchers : g # f => fetch'[g] = fetch[g],
         UNCHANGED <<counts, play>>, flight'.taken => flight.taken,
         counts.plays = 0 => \A r \in Releases : Loose(r)' => Minds(f, r)',
         counts.plays = 0 => Settled(f)'
  PROVE  Unplayed'
<1>. SUFFICES ASSUME counts.plays = 0
              PROVE  /\ play'.pc = "idle" /\ ~flight'.taken
                     /\ \A r \in Releases : Loose(r)' => \E g \in Fetchers : Minds(g, r)'
                     /\ \A g \in Fetchers : Settled(g)'
  BY DEF Unplayed
<1>1. play'.pc = "idle" /\ ~flight'.taken
  BY DEF FetchInv, Unplayed
<1>2. \A r \in Releases : Loose(r)' => \E g \in Fetchers : Minds(g, r)'
  OBVIOUS
<1>3. ASSUME NEW g \in Fetchers, g # f PROVE Settled(g)'
  <2>1. ~InFlight(g)
    BY <1>3 DEF FetchInv, FlightInv, OneFlight
  <2>2. fetch'[g].pc \in AtRest
    BY <1>3, <2>1 DEF InFlight
  <2>. QED BY <2>2 DEF Settled, AtRest
<1>. QED BY <1>1, <1>2, <1>3

(* ... and of one of a fetcher that was, and stays, out of every release's way. *)
LEMMA HandsOff ==
  ASSUME FetchInv, NEW f \in Fetchers, ~InFlight(f), \A g \in Fetchers : g # f => fetch'[g] = fetch[g],
         UNCHANGED <<rows, play>>, counts'.plays = counts.plays, flight'.taken => flight.taken,
         fetch'[f].pc \notin InHand \cup {"keep", "pause"},
         \A r \in Releases : InEngine(r)' => InEngine(r) \/ TorrentClaimed(r)
  PROVE  Unplayed'
<1>. SUFFICES ASSUME counts.plays = 0
              PROVE  /\ play'.pc = "idle" /\ ~flight'.taken
                     /\ \A r \in Releases : Loose(r)' => \E g \in Fetchers : Minds(g, r)'
                     /\ \A g \in Fetchers : Settled(g)'
  BY DEF Unplayed
<1>1. play'.pc = "idle" /\ ~flight'.taken
  BY DEF FetchInv, Unplayed
<1>2. ASSUME NEW r \in Releases, Loose(r)' PROVE \E g \in Fetchers : Minds(g, r)'
  <2>1. Loose(r)
    BY <1>2 DEF Loose, TorrentClaimed
  <2>2. PICK g \in Fetchers : Minds(g, r)
    BY <2>1 DEF FetchInv, Unplayed
  <2>3. g # f
    BY <2>2 DEF Minds, InFlight, InHand, AtRest
  <2>. QED BY <2>2, <2>3 DEF Minds
<1>3. ASSUME NEW g \in Fetchers PROVE Settled(g)'
  <2>1. CASE g = f
    BY <2>1 DEF Settled
  <2>2. CASE g # f
    BY <2>2 DEF FetchInv, Unplayed, Settled, TorrentClaimed
  <2>. QED BY <2>1, <2>2
<1>. QED BY <1>1, <1>2, <1>3

LEMMA FetchKeepsUnplayed ==
  ASSUME FetchInv, NEW f \in Fetchers, FetchStep(f)
  PROVE  Unplayed'
<1>0. /\ fetch \in [Fetchers -> FetchRecord] /\ fetch[f] \in FetchRecord /\ flight \in FlightRecord
      /\ StoreInv /\ HeldShape
      /\ fetch[f].pc \in InHand \cup {"keep", "pause"} => fetch[f].r \in Releases
      /\ counts.plays = 0 => ~flight.taken /\ Settled(f)
  BY DEF FetchInv, FlightInv, HasRelease, StoreInv, Unplayed
<1>o. \A g \in Fetchers : g # f => fetch'[g] = fetch[g]
  BY <1>0 DEF FetchStep, CheckHeld, NothingFound, ClaimTorrent, WarmFailed, RecordLook, RecordWrite, KeepDownload,
     PauseAbandoned, DiscardLook, DiscardDelete, SupersededLook, SupersededDrop, EndFetch, AddFirst, Warm,
     AwaitOrStop, Go
<1>c. UNCHANGED <<counts, play>>
  BY DEF FetchStep, CheckHeld, NothingFound, ClaimTorrent, WarmFailed, RecordLook, RecordWrite, KeepDownload,
     PauseAbandoned, DiscardLook, DiscardDelete, SupersededLook, SupersededDrop, EndFetch, AddFirst, Warm, AwaitOrStop
<1>h. ASSUME counts.plays = 0, InFlight(f) PROVE \A r \in Releases : Loose(r) => Minds(f, r)
  BY <1>h, InTheOneHand
<1>1. CASE CheckHeld(f) \/ NothingFound(f) \/ SupersededLook(f)
  <2>1. /\ fetch[f].pc \in {"check", "add", "supersede"} /\ fetch'[f].pc \in {"end", "add", "drop"}
        /\ UNCHANGED <<held, rows, flight>>
    BY <1>0, <1>1 DEF CheckHeld, NothingFound, SupersededLook, Go, FetchRecord
  <2>2. InFlight(f) /\ \A r \in Releases : ~Minds(f, r)
    BY <2>1 DEF InFlight, AtRest, Minds, InHand
  <2>3. counts.plays = 0 => \A r \in Releases : ~Loose(r)'
    BY <1>h, <2>1, <2>2 DEF Loose, InEngine, TorrentClaimed
  <2>4. Settled(f)'
    BY <2>1 DEF Settled
  <2>. QED BY <1>o, <1>c, <2>1, <2>2, <2>3, <2>4, HandsOn
<1>2. CASE \E r \in Releases : AddFirst(f, r)
  <2>1. PICK r \in Releases : AddFirst(f, r)
    BY <1>2
  <2>2. /\ fetch[f].pc = "add" /\ fetch'[f].pc = "claim" /\ fetch'[f].r = r
        /\ UNCHANGED <<rows, flight>> /\ \A x \in Releases : x # r => held'[x] = held[x]
    BY <1>0, <2>1 DEF AddFirst, HeldShape, FetchRecord
  <2>3. InFlight(f) /\ \A x \in Releases : ~Minds(f, x)
    BY <2>2 DEF InFlight, AtRest, Minds, InHand
  <2>4. counts.plays = 0 => \A x \in Releases : Loose(x)' => Minds(f, x)'
    BY <1>h, <2>2, <2>3 DEF Loose, InEngine, TorrentClaimed, Minds, InHand
  <2>5. Settled(f)'
    BY <2>2 DEF Settled
  <2>. QED BY <1>o, <1>c, <2>2, <2>3, <2>4, <2>5, HandsOn
<1>3. CASE ClaimTorrent(f) \/ RecordLook(f) \/ (\E o \in {"record", "dead", "stopped"} : Warm(f, o))
  <2>1. /\ fetch[f].pc \in {"claim", "record", "warm"} /\ fetch'[f].r = fetch[f].r
        /\ fetch'[f].pc \in {"warm", "write", "discard", "record", "dead", "stopped"}
        /\ UNCHANGED rows /\ flight'.taken = flight.taken
    <3>1. CASE ClaimTorrent(f)
      BY <1>0, <3>1 DEF ClaimTorrent, Go, FetchRecord, FlightRecord
    <3>2. CASE RecordLook(f)
      BY <1>0, <3>2 DEF RecordLook, Go, FetchRecord, FlightRecord
    <3>3. CASE \E o \in {"record", "dead", "stopped"} : Warm(f, o)
      BY <1>0, <3>3 DEF Warm, Go, FetchRecord
    <3>. QED BY <1>3, <3>1, <3>2, <3>3
  <2>2. \A x \in Releases : InEngine(x)' => InEngine(x)
    BY <1>0, <1>3 DEF ClaimTorrent, RecordLook, Warm, InEngine, HeldShape
  <2>3. InFlight(f)
    BY <2>1 DEF InFlight, AtRest
  <2>4. counts.plays = 0 => \A x \in Releases : Loose(x)' => Minds(f, x)'
    BY <1>h, <2>1, <2>2, <2>3 DEF Loose, TorrentClaimed, Minds, InHand
  <2>5. Settled(f)'
    BY <2>1 DEF Settled
  <2>. QED BY <1>o, <1>c, <2>1, <2>3, <2>4, <2>5, HandsOn
<1>4. CASE WarmFailed(f)
  <2>1. /\ fetch[f].pc \in {"dead", "stopped"} /\ fetch'[f].r = fetch[f].r
        /\ counts.plays = 0 => fetch'[f].pc = "record" \/ (fetch'[f].pc = "pause" /\ fetch'[f].then = "again")
        /\ UNCHANGED <<held, rows, flight>>
    BY <1>0, <1>4 DEF WarmFailed, FetchRecord
  <2>2. InFlight(f)
    BY <2>1 DEF InFlight, AtRest
  <2>3. counts.plays = 0 => \A x \in Releases : Loose(x)' => Minds(f, x)'
    BY <1>h, <2>1, <2>2 DEF Loose, InEngine, TorrentClaimed, Minds, InHand
  <2>4. counts.plays = 0 => Settled(f)'
    BY <2>1 DEF Settled
  <2>. QED BY <1>o, <1>c, <2>1, <2>2, <2>3, <2>4, HandsOn
<1>5. CASE RecordWrite(f)
  <2>1. /\ fetch[f].pc = "write" /\ fetch'[f].r = fetch[f].r /\ fetch'[f].pc = "keep"
        /\ RecordTorrent(fetch[f].r) /\ UNCHANGED <<held, pinned, flight>>
    BY <1>0, <1>5 DEF RecordWrite, Go, FetchRecord
  <2>2. fetch[f].r \in Releases /\ InFlight(f)
    BY <1>0, <2>1 DEF InHand, InFlight, AtRest
  <2>3. /\ \A x : x = fetch[f].r => TorrentClaimed(x)'
        /\ \A x \in Releases : TorrentClaimed(x) => TorrentClaimed(x)'
    BY <1>0, <2>1, <2>2, RecordDoes DEF TorrentClaimed
  <2>4. counts.plays = 0 => \A x \in Releases : ~Loose(x)'
    BY <1>h, <2>1, <2>2, <2>3 DEF Loose, InEngine, Minds
  <2>5. Settled(f)'
    BY <2>1, <2>3 DEF Settled, TorrentClaimed
  <2>. QED BY <1>o, <1>c, <2>1, <2>2, <2>4, <2>5, HandsOn
<1>6. CASE KeepDownload(f)
  <2>1. /\ fetch[f].pc = "keep" /\ fetch'[f].r = fetch[f].r /\ fetch'[f].pc \in {"pause", "supersede"}
        /\ UNCHANGED <<held, rows, flight>>
    BY <1>0, <1>6 DEF KeepDownload, Go, FetchRecord
  <2>2. InFlight(f) /\ \A x \in Releases : ~Minds(f, x)
    BY <2>1 DEF InFlight, AtRest, Minds, InHand
  <2>3. counts.plays = 0 => \A x \in Releases : ~Loose(x)'
    BY <1>h, <2>1, <2>2 DEF Loose, InEngine, TorrentClaimed
  <2>4. counts.plays = 0 => Settled(f)'
    BY <1>0, <2>1 DEF Settled, TorrentClaimed
  <2>. QED BY <1>o, <1>c, <2>1, <2>2, <2>3, <2>4, HandsOn
<1>7. CASE PauseAbandoned(f)
  <2>1. /\ fetch[f].pc = "pause" /\ fetch'[f].r = fetch[f].r
        /\ fetch'[f].pc = IF fetch[f].then = "again" THEN "discard" ELSE "end"
        /\ UNCHANGED rows /\ flight'.taken = flight.taken
    BY <1>0, <1>7 DEF PauseAbandoned, Go, FetchRecord, FlightRecord
  <2>2. InFlight(f) /\ \A x \in Releases : InEngine(x)' => InEngine(x)
    BY <1>0, <1>7, <2>1 DEF InFlight, AtRest, PauseAbandoned, InEngine, HeldShape
  <2>3. counts.plays = 0 => \A x \in Releases : Loose(x)' => Minds(f, x)'
    BY <1>h, <2>1, <2>2 DEF Loose, TorrentClaimed, Minds, InHand
  <2>4. Settled(f)'
    BY <2>1 DEF Settled
  <2>. QED BY <1>o, <1>c, <2>1, <2>2, <2>3, <2>4, HandsOn
<1>8. CASE DiscardLook(f)
  <2>1. /\ fetch[f].pc = "discard" /\ fetch'[f].r = fetch[f].r
        /\ ~TorrentClaimed(fetch[f].r) => fetch'[f].pc = "delete"
        /\ fetch'[f].pc \in {"delete", "add", "end"} /\ UNCHANGED <<held, rows, flight>>
    BY <1>0, <1>8 DEF DiscardLook, Go, FetchRecord
  <2>2. InFlight(f)
    BY <2>1 DEF InFlight, AtRest
  <2>3. counts.plays = 0 => \A x \in Releases : Loose(x)' => Minds(f, x)'
    BY <1>h, <2>1, <2>2 DEF Loose, InEngine, TorrentClaimed, Minds, InHand
  <2>4. Settled(f)'
    BY <2>1 DEF Settled
  <2>. QED BY <1>o, <1>c, <2>1, <2>2, <2>3, <2>4, HandsOn
<1>9. CASE DiscardDelete(f)
  <2>1. /\ fetch[f].pc = "delete" /\ fetch'[f].pc \in {"add", "end"} /\ UNCHANGED flight
        /\ DeleteReleases({fetch[f].r})
    BY <1>0, <1>9 DEF DiscardDelete, Go, FetchRecord
  <2>2. InFlight(f)
    BY <2>1 DEF InFlight, AtRest
  <2>3. \A x \in Releases : IF x = fetch[f].r THEN ~InEngine(x)' ELSE held'[x] = held[x] /\ rows'[x] = rows[x]
    BY <1>0, <2>1, DeleteDoes
  <2>4. counts.plays = 0 => \A x \in Releases : ~Loose(x)'
    BY <1>h, <2>2, <2>3 DEF Loose, InEngine, TorrentClaimed, Minds
  <2>5. Settled(f)'
    BY <2>1 DEF Settled
  <2>. QED BY <1>o, <1>c, <2>1, <2>2, <2>4, <2>5, HandsOn
<1>10. CASE SupersededDrop(f)
  <2>1. /\ fetch[f].pc = "drop" /\ fetch'[f].pc = "end" /\ UNCHANGED flight /\ DeleteReleases(fetch[f].gone)
    BY <1>0, <1>10 DEF SupersededDrop, FetchRecord
  <2>2. InFlight(f) /\ \A x \in Releases : ~Minds(f, x)
    BY <2>1 DEF InFlight, AtRest, Minds, InHand
  <2>3. \A x \in Releases : IF x \in fetch[f].gone THEN ~InEngine(x)' ELSE held'[x] = held[x] /\ rows'[x] = rows[x]
    BY <1>0, <2>1, DeleteDoes
  <2>4. counts.plays = 0 => \A x \in Releases : ~Loose(x)'
    BY <1>h, <2>2, <2>3 DEF Loose, InEngine, TorrentClaimed
  <2>5. Settled(f)'
    BY <2>1 DEF Settled
  <2>. QED BY <1>o, <1>c, <2>1, <2>2, <2>4, <2>5, HandsOn
<1>11. CASE EndFetch(f)
  <2>1. /\ fetch[f].pc = "end" /\ fetch'[f].pc \in {"await", "idle"} /\ flight'.taken = FALSE
        /\ UNCHANGED <<held, rows>>
    BY <1>0, <1>11, IdleFacts DEF EndFetch, FetchRecord
  <2>2. InFlight(f) /\ \A x \in Releases : ~Minds(f, x)
    BY <2>1 DEF InFlight, AtRest, Minds, InHand
  <2>3. counts.plays = 0 => \A x \in Releases : ~Loose(x)'
    BY <1>h, <2>1, <2>2 DEF Loose, InEngine, TorrentClaimed
  <2>4. Settled(f)'
    BY <2>1 DEF Settled
  <2>. QED BY <1>o, <1>c, <2>1, <2>2, <2>3, <2>4, HandsOn
<1>12. CASE \E done \in BOOLEAN : AwaitOrStop(f, done)
  <2>1. /\ fetch[f].pc \in AtRest /\ fetch'[f].pc = "idle" /\ UNCHANGED <<rows, flight>>
    BY <1>0, <1>12, IdleFacts DEF AwaitOrStop, AtRest
  <2>2. \A x \in Releases : InEngine(x)' => InEngine(x)
    BY <1>0, <1>12 DEF AwaitOrStop, InEngine, HeldShape
  <2>. QED BY <1>o, <1>c, <2>1, <2>2, HandsOff DEF InFlight, InHand
<1>. QED
  BY <1>1, <1>2, <1>3, <1>4, <1>5, <1>6, <1>7, <1>8, <1>9, <1>10, <1>11, <1>12 DEF FetchStep

LEMMA OthersKeepUnplayed ==
  ASSUME FetchInv,
         \/ \E f \in Fetchers, pick \in RN : Promote(f, pick) \/ \E keep \in BOOLEAN : BeginFetch(f, keep, pick)
         \/ PlayStep \/ Reattach \/ PinOnly \/ Suspend
         \/ \E r \in Releases : Prepare(r) \/ Adopt(r)
  PROVE  Unplayed'
<1>0. /\ fetch \in [Fetchers -> FetchRecord] /\ flight \in FlightRecord /\ counts \in [fetches : Nat, plays : Nat]
      /\ HeldShape /\ RowsShape
  BY DEF FetchInv, FlightInv, StoreInv
<1>1. ASSUME NEW f \in Fetchers, NEW pick \in RN, Promote(f, pick) PROVE Unplayed'
  <2>1. /\ fetch[f].pc = "idle" /\ fetch'[f].pc = "promoted" /\ UNCHANGED <<rows, play, flight>>
        /\ counts'.plays = counts.plays /\ \A g \in Fetchers : g # f => fetch'[g] = fetch[g]
    BY <1>0, <1>1, IdleFacts DEF Promote, FetchRecord
  <2>2. \A r \in Releases : InEngine(r)' => InEngine(r) \/ TorrentClaimed(r)
    BY <1>0, <1>1 DEF Promote, InEngine, HeldShape
  <2>. QED BY <2>1, <2>2, HandsOff DEF InFlight, AtRest, InHand
<1>2. ASSUME NEW f \in Fetchers, NEW pick \in RN, NEW keep \in BOOLEAN, BeginFetch(f, keep, pick)
      PROVE  Unplayed'
  <2>1. /\ fetch[f].pc = "idle" /\ fetch'[f].pc = "check" /\ UNCHANGED <<rows, play, held>> /\ ~flight'.taken
        /\ counts'.plays = counts.plays /\ \A g \in Fetchers : g # f => fetch'[g] = fetch[g]
    BY <1>0, <1>2, IdleFacts DEF BeginFetch, FetchRecord, FlightRecord
  <2>2. \A r \in Releases : InEngine(r)' => InEngine(r)
    BY <2>1 DEF InEngine
  <2>. QED BY <2>1, <2>2, HandsOff DEF InFlight, AtRest, InHand
<1>3. CASE Reattach
  <2>1. counts'.plays # 0
    BY <1>0, <1>3 DEF Reattach
  <2>. QED BY <2>1 DEF Unplayed
<1>4. CASE PlayStep \/ PinOnly \/ Suspend
  <2>1. counts' = counts /\ play.pc # "idle"
    BY <1>4 DEF PlayStep, ResumeHeld, Attach, NoCandidate, CandidateDiscard, CandidateDelete,
         PlaySuperseded, PlayDrop, TryCandidate, Reheated, Candidate, PinOnly, Suspend
  <2>. QED BY <2>1 DEF FetchInv, Unplayed
<1>5. CASE \E r \in Releases : Prepare(r)
  BY <1>5 DEF Prepare, FetchInv, Unplayed, Loose, Minds, Settled, InEngine, TorrentClaimed
<1>6. CASE \E r \in Releases : Adopt(r)
  <2>1. \A x \in Releases : rows'[x] = rows[x] \/ (rows[x] = "none" /\ rows'[x] = "adopted")
    BY <1>0, <1>6 DEF Adopt, RowsShape
  <2>2. UNCHANGED <<held, fetch, play, flight, counts>>
    BY <1>6 DEF Adopt
  <2>3. \A x \in Releases : (TorrentClaimed(x)' <=> TorrentClaimed(x)) /\ (Loose(x)' <=> Loose(x))
    BY <2>1, <2>2 DEF TorrentClaimed, Loose, InEngine
  <2>4. \A f \in Fetchers : Settled(f) => Settled(f)'
    <3>. SUFFICES ASSUME NEW f \in Fetchers, Settled(f) PROVE Settled(f)'
      OBVIOUS
    <3>1. fetch[f].pc \in {"keep", "pause"} => fetch[f].r \in Releases
      BY DEF FetchInv, FlightInv, HasRelease
    <3>. QED BY <2>1, <2>2, <3>1 DEF Settled, TorrentClaimed
  <2>. QED BY <2>2, <2>3, <2>4 DEF FetchInv, Unplayed, Minds
<1>. QED BY <1>1, <1>2, <1>3, <1>4, <1>5, <1>6

-----------------------------------------------------------------------------
(* prefetch.go, play.go: whatever fetches, plays and the sweep do at once, one fetch at most is
   in flight, one release at most is selected, and until the episode is played every torrent
   in the engine is on record or in that fetch's hand. *)
THEOREM FetchInvariant == FetchSpec => []FetchInv
<1>1. FetchInit => FetchInv
  <2>. SUFFICES ASSUME FetchInit PROVE FetchInv
    OBVIOUS
  <2>1. StoreInv
    BY DEF FetchInit, StoreInv, HeldShape, RowsShape, OneRow, KeptHasRow
  <2>2. FlightInv
    BY IdleFacts DEF FetchInit, FlightInv, OneFlight, HasRelease, InFlight, AtRest, InHand, RN
  <2>3. Unplayed
    BY IdleFacts DEF FetchInit, Unplayed, Loose, InEngine, Settled
  <2>. QED BY <2>1, <2>2, <2>3 DEF FetchInv
<1>2. FetchInv /\ [FetchNext]_fetchVars => FetchInv'
  <2>. SUFFICES ASSUME FetchInv, [FetchNext]_fetchVars PROVE FetchInv'
    OBVIOUS
  <2>1. CASE \E f \in Fetchers : FetchStep(f)
    BY <2>1, FetchKeepsStore, FetchKeepsFlight, FetchKeepsUnplayed DEF FetchInv
  <2>2. CASE \E f \in Fetchers, pick \in RN : Promote(f, pick) \/ \E keep \in BOOLEAN : BeginFetch(f, keep, pick)
    BY <2>2, FetchKeepsStore, StartKeepsFlight, OthersKeepUnplayed DEF FetchInv
  <2>3. CASE PlayStep \/ Reattach \/ PinOnly \/ Suspend \/ (\E r \in Releases : Prepare(r) \/ Adopt(r))
    BY <2>3, PlayKeepsStore, PlayKeepsFlight, OthersKeepUnplayed DEF FetchInv
  <2>4. CASE UNCHANGED fetchVars
    BY <2>4
    DEF fetchVars, FetchInv, StoreInv, HeldShape, RowsShape, OneRow, KeptHasRow, FlightInv, OneFlight,
        HasRelease, InFlight, Unplayed, Loose, InEngine, TorrentClaimed, Minds, Settled
  <2>. QED BY <2>1, <2>2, <2>3, <2>4 DEF FetchNext, RN
<1>. QED BY <1>1, <1>2, PTL DEF FetchSpec

(* store/playback.go RecordTorrent, prefetch.go start and endFetch: an episode has at most one
   release selected, what is kept or pinned has a row, and once fetches are over, with no viewer
   in between, the engine holds nothing the store does not know. *)
THEOREM FetchStaysSafe == FetchSpec => []FetchSafe
<1>1. FetchInv => FetchSafe
  <2>. SUFFICES ASSUME FetchInv PROVE FetchSafe
    OBVIOUS
  <2>1. FetchTypeOK
    BY DEF FetchInv, StoreInv, HeldShape, RowsShape, FlightInv, FlightRecord, RN, FetchTypeOK
  <2>2. Cardinality(Selected) <= 1
    <3>1. CASE Selected = {}
      BY <3>1, FS_EmptySet
    <3>2. ASSUME NEW r \in Selected PROVE Cardinality(Selected) <= 1
      <4>1. Selected = {r}
        BY <3>2 DEF FetchInv, StoreInv, OneRow, Selected
      <4>. QED BY <4>1, FS_Singleton
    <3>. QED BY <3>1, <3>2
  <2>3. OneSelected
    BY <2>2 DEF FetchInv, StoreInv, KeptHasRow, OneSelected
  <2>4. FetchLeavesRecorded
    <3>. SUFFICES ASSUME QuietFetch, counts.plays = 0, NEW r \in Releases, InEngine(r), ~TorrentClaimed(r)
                  PROVE  FALSE
      BY DEF FetchLeavesRecorded
    <3>1. PICK f \in Fetchers : Minds(f, r)
      BY DEF FetchInv, Unplayed, Loose
    <3>. QED BY <3>1 DEF Minds, InHand, QuietFetch
  <2>. QED BY <2>1, <2>3, <2>4 DEF FetchSafe
<1>. QED BY FetchInvariant, <1>1, PTL

-----------------------------------------------------------------------------
(* The updater.                                                            *)

VerOrNone == UpVersions \cup {Absent}
Phases == {"none", "wait", "claim", "starting", "announced", "serving", "stopping", "back"}
Stages == {"idle", "failed", "downloading", "verified", "aside", "swapped", "restarting"}
UpProc == [ver : VerOrNone, phase : Phases, wait : Pids \cup {0}, stage : Stages,
           rel : VerOrNone, from : VerOrNone]

UpShape ==
  /\ file \in [exe : VerOrNone, old : VerOrNone, new : VerOrNone, failed : VerOrNone]
  /\ procsUp \in [Pids -> UpProc]
  /\ settings \in [version : UpVersions, previous : VerOrNone, notified : VerOrNone]
  /\ published \in UpVersions /\ gaveUp \in BOOLEAN

(* Processes are started in the order of their numbers, and nothing is known of one before
   its start. *)
Numbered ==
  /\ \E k \in 0 .. Cardinality(Pids) : \A p \in Pids : procsUp[p].ver # Absent <=> p <= k
  /\ \A p \in Pids : procsUp[p].ver = Absent => procsUp[p] = Quiet

(* Two processes are alive only while one hands over to the other, and the one that ends has
   nothing left to do to the files. *)
HandsOver(p, q) ==
  /\ UpAt(p, "stopping") /\ UpAt(q, "wait") /\ procsUp[q].wait = p
  /\ procsUp[p].stage \in {"idle", "failed", "restarting"}
Alone ==
  \A p, q \in Pids : p # q /\ Alive(p) /\ Alive(q) => HandsOver(p, q) \/ HandsOver(q, p)
WaitsForOther ==
  \A p \in Pids : /\ UpAt(p, "wait") \/ UpAt(p, "back") => procsUp[p].wait # 0
                  /\ UpAt(p, "back") => procsUp[p].ver \in BadVersions

(* What a live process r is entitled to find in directory F: until it serves, the executable it
   was started from; from then on what its swap has come to. *)
Beside(F, r) ==
  /\ r.ver # Absent
  /\ r.phase \notin {"serving", "stopping"} => r.stage = "idle"
  /\ r.phase \in {"serving", "stopping"} => r.ver \notin BadVersions
  /\ r.stage \in {"idle", "failed", "downloading", "verified"} => F.exe = r.ver
  /\ r.stage = "downloading" => r.from # Absent
  /\ r.stage = "verified" => F.new # Absent
  /\ r.stage = "aside" => F.exe = Absent /\ F.old = r.ver /\ F.new # Absent
  /\ r.stage \in {"swapped", "restarting"} => F.exe # Absent /\ F.old = r.ver
FilesFound == \A p \in Pids : Alive(p) => Beside(file, procsUp[p])

(* A process ends because somebody closed it, or with its successor waiting. *)
EndsForCause ==
  \A p \in Pids : UpAt(p, "stopping") =>
    gaveUp \/ \E q \in Pids : q # p /\ UpAt(q, "wait") /\ procsUp[q].wait = p

VersionKept ==
  /\ settings.previous < settings.version
  /\ \A p \in Pids : procsUp[p].phase \in {"announced", "serving"} => settings.version = procsUp[p].ver

UpInv == /\ UpShape /\ Numbered /\ Alone /\ WaitsForOther /\ FilesFound /\ StartableAgain
         /\ EndsForCause /\ NeverVanishes /\ VersionKept

UpFile == [exe : VerOrNone, old : VerOrNone, new : VerOrNone, failed : VerOrNone]
UpSettings == [version : UpVersions, previous : VerOrNone, notified : VerOrNone]
Solo(p) == \A q \in Pids : q # p => ~Alive(q)
\* The file names allow a start, or a swap is or was cut off.
Restartable(F, P) ==
  /\ F.exe = Absent => \E q \in Pids : P[q].stage = "aside"
  /\ F.exe \in BadVersions => F.old \notin BadVersions \cup {Absent}

-----------------------------------------------------------------------------
LEMMA AbsentIsNone == Absent \notin UpVersions /\ Absent \notin BadVersions
  BY VersionsAssumption DEF Absent

\* Outside of a handover there is one process.
LEMMA UpAlone ==
  ASSUME UpInv, NEW p \in Pids, Alive(p),
         \/ procsUp[p].phase \notin {"stopping", "wait"}
         \/ procsUp[p].stage \notin {"idle", "failed", "restarting"}
         \/ UpAt(p, "wait") /\ ~Alive(procsUp[p].wait)
  PROVE  Solo(p)
  <1>1. CASE procsUp[p].phase \notin {"stopping", "wait"}
    BY <1>1 DEF UpInv, Alone, HandsOver, Solo, UpAt
  <1>2. CASE procsUp[p].stage \notin {"idle", "failed", "restarting"}
    <2>1. procsUp[p].phase \in {"serving", "stopping"}
      BY <1>2 DEF UpInv, FilesFound, Beside
    <2>. QED BY <1>2, <2>1 DEF UpInv, Alone, HandsOver, Solo, UpAt
  <1>3. CASE UpAt(p, "wait") /\ ~Alive(procsUp[p].wait)
    BY <1>3 DEF UpInv, Alone, HandsOver, Solo, UpAt
  <1>. QED BY <1>1, <1>2, <1>3

\* A process that is the only one takes a step of its own: what has to be seen to is its
\* place, its files, the cause of its end and the version on record.
LEMMA SoloStep ==
  ASSUME UpInv, NEW p \in Pids, Alive(p), Solo(p), NEW r \in UpProc,
         procsUp' = [procsUp EXCEPT ![p] = r], r.ver = procsUp[p].ver,
         file' \in UpFile, settings' \in UpSettings, published' \in UpVersions, gaveUp' \in BOOLEAN,
         r.phase \in {"wait", "back"} => r.wait # 0,
         r.phase = "back" => r.ver \in BadVersions,
         r.phase # "none" => Beside(file', r),
         Restartable(file', procsUp'),
         r.phase \in {"none", "stopping"} => gaveUp',
         settings'.previous < settings'.version,
         r.phase \in {"announced", "serving"} => settings'.version = r.ver
  PROVE  UpInv'
  <1>. USE DEF UpAt, Alive
  <1>1. procsUp \in [Pids -> UpProc]
    BY DEF UpInv, UpShape
  <1>2. procsUp'[p] = r /\ \A q \in Pids : q # p => procsUp'[q] = procsUp[q] /\ procsUp'[q].phase = "none"
    BY <1>1 DEF Solo
  <1>3. UpShape'
    BY <1>1 DEF UpShape, UpFile, UpSettings
  <1>4. Numbered'
    <2>1. \A q \in Pids : procsUp'[q].ver = procsUp[q].ver
      BY <1>2
    <2>2. r.ver # Absent
      BY DEF UpInv, FilesFound, Beside
    <2>. QED BY <1>2, <2>1, <2>2 DEF UpInv, Numbered
  <1>5. Alone' /\ WaitsForOther'
    BY <1>2 DEF Alone, WaitsForOther
  <1>6. FilesFound'
    BY <1>2 DEF FilesFound
  <1>7. StartableAgain'
    BY DEF Restartable, StartableAgain
  <1>8. EndsForCause' /\ NeverVanishes'
    BY <1>2 DEF EndsForCause, NeverVanishes
  <1>9. VersionKept'
    BY <1>2 DEF VersionKept
  <1>. QED BY <1>3, <1>4, <1>5, <1>6, <1>7, <1>8, <1>9 DEF UpInv

\* The next number is that of a process not started yet.
LEMMA NextPid ==
  ASSUME UpInv, NEW P \in [Pids -> UpProc], \A q \in Pids : P[q].ver = procsUp[q].ver,
         NEW n, n = Cardinality({q \in Pids : P[q].ver # 0}) + 1, n \in Pids
  PROVE  /\ procsUp[n] = Quiet
         /\ \E k \in 0 .. Cardinality(Pids) :
              \A p \in Pids : procsUp[p].ver # Absent \/ p = n <=> p <= k
  <1>1. PICK k \in 0 .. Cardinality(Pids) : \A p \in Pids : procsUp[p].ver # Absent <=> p <= k
    BY DEF UpInv, Numbered
  <1>2. Cardinality(Pids) \in Nat /\ Pids = 1 .. Cardinality(Pids)
    BY PidsAssumption, FS_CardinalityType
  <1>3. {q \in Pids : P[q].ver # 0} = 1 .. k
    BY <1>1, <1>2 DEF Absent
  <1>4. Cardinality(1 .. k) = k
    <2>1. k \in Nat
      BY <1>1, <1>2
    <2>2. Cardinality(1 .. k) = IF 1 > k THEN 0 ELSE k - 1 + 1
      BY <2>1, FS_Interval
    <2>. QED BY <2>1, <2>2
  <1>5. n = k + 1
    BY <1>3, <1>4
  <1>6. procsUp[n].ver = Absent
    BY <1>1, <1>2, <1>5
  <1>7. procsUp[n] = Quiet
    BY <1>6 DEF UpInv, Numbered
  <1>8. n \in 0 .. Cardinality(Pids) /\ \A p \in Pids : procsUp[p].ver # Absent \/ p = n <=> p <= n
    <2>1. k \in Nat /\ \A p \in Pids : p \in Nat
      BY <1>2
    <2>2. \A p \in Pids : p <= k + 1 <=> p <= k \/ p = k + 1
      BY <2>1
    <2>3. n \in 0 .. Cardinality(Pids)
      BY <1>2
    <2>. QED BY <1>1, <1>5, <2>2, <2>3
  <1>. QED BY <1>7, <1>8

\* Of the others at most one is alive in P, and it ends and is waited for.
Yields(P, F, r) ==
  /\ \A q \in Pids : P[q].phase # "none" =>
       /\ P[q].phase = "stopping" /\ r.phase = "wait" /\ r.wait = q
       /\ P[q].stage \in {"idle", "failed", "restarting"}
       /\ Beside(F, P[q])
  /\ \A q, s \in Pids : P[q].phase # "none" /\ P[s].phase # "none" => q = s

\* A start: the process p that starts it, the only one, is on its way out or gone, and the new
\* one is that of the executable.
LEMMA StartStep ==
  ASSUME UpInv, NEW P \in [Pids -> UpProc], \A q \in Pids : P[q].ver = procsUp[q].ver,
         NEW n, n = Cardinality({q \in Pids : P[q].ver # 0}) + 1, n \in Pids,
         \A q \in Pids : procsUp[q].ver = Absent => P[q] = procsUp[q],
         NEW r \in UpProc, procsUp' = [P EXCEPT ![n] = r], r.stage = "idle", r.ver = file'.exe,
         r.ver # Absent, r.phase = "claim" \/ (r.phase = "wait" /\ r.wait # 0),
         Yields(P, file', r),
         file' \in UpFile, settings' = settings, published' = published, gaveUp' = gaveUp,
         file'.exe \in BadVersions => file'.old \notin BadVersions \cup {Absent}
  PROVE  UpInv'
  <1>. USE DEF UpAt, Alive
  <1>1. procsUp[n] = Quiet /\ P[n] = Quiet
    BY NextPid DEF Quiet, Absent
  <1>2. procsUp'[n] = r /\ \A q \in Pids : q # n => procsUp'[q] = P[q]
    OBVIOUS
  <1>3. UpShape'
    BY DEF UpInv, UpShape, UpFile
  <1>4. Numbered'
    <2>1. PICK k \in 0 .. Cardinality(Pids) :
            \A p \in Pids : procsUp[p].ver # Absent \/ p = n <=> p <= k
      BY NextPid
    <2>2. \A p \in Pids : procsUp'[p].ver = Absent => procsUp'[p] = Quiet
      BY <1>2 DEF UpInv, Numbered
    <2>3. \A p \in Pids : procsUp'[p].ver # Absent <=> procsUp[p].ver # Absent \/ p = n
      BY <1>2
    <2>. QED BY <2>1, <2>2, <2>3 DEF Numbered
  <1>5. Alone'
    BY <1>2 DEF Alone, HandsOver, Yields
  <1>6. WaitsForOther' /\ FilesFound'
    <2>1. WaitsForOther'
      BY <1>2 DEF WaitsForOther, Yields
    <2>2. Beside(file', r)
      BY DEF Beside
    <2>. QED BY <1>2, <2>1, <2>2 DEF FilesFound, Yields
  <1>7. StartableAgain'
    BY DEF StartableAgain
  <1>8. EndsForCause' /\ NeverVanishes'
    BY <1>1, <1>2 DEF EndsForCause, NeverVanishes, Quiet, Yields
  <1>9. VersionKept'
    BY <1>2 DEF UpInv, VersionKept, Yields
  <1>. QED BY <1>3, <1>4, <1>5, <1>6, <1>7, <1>8, <1>9 DEF UpInv
-----------------------------------------------------------------------------
(* The steps of an update.                                                 *)

\* What UpInv says of a live process.
LEMMA UpFacts ==
  ASSUME UpInv, NEW p \in Pids
  PROVE  /\ procsUp \in [Pids -> UpProc] /\ procsUp[p] \in UpProc
         /\ file \in UpFile /\ settings \in UpSettings /\ published \in UpVersions
         /\ gaveUp \in BOOLEAN /\ settings.previous < settings.version
         /\ Restartable(file, procsUp)
         /\ Alive(p) => Beside(file, procsUp[p])
         /\ procsUp[p].phase \in {"wait", "back"} => procsUp[p].wait # 0
         /\ UpAt(p, "back") => procsUp[p].ver \in BadVersions
         /\ procsUp[p].phase \in {"announced", "serving"} => settings.version = procsUp[p].ver
  BY DEF UpInv, UpShape, UpFile, UpSettings, StartableAgain, Restartable, FilesFound, WaitsForOther,
         VersionKept, UpAt

\* A process that is not between its renames leaves a swap that is, or was, as it is.
LEMMA StillRestartable ==
  ASSUME UpInv, NEW p \in Pids, NEW r \in UpProc, procsUp' = [procsUp EXCEPT ![p] = r],
         r.stage = procsUp[p].stage \/ file.exe # Absent, file' = file
  PROVE  Restartable(file', procsUp')
  BY UpFacts DEF Restartable

LEMMA CheckStep ==
  ASSUME UpInv, NEW p \in Pids, Check(p)
  PROVE  UpInv'
  <1> DEFINE r == [procsUp[p] EXCEPT !.rel = published]
  <1>1. Alive(p) /\ Solo(p)
    BY UpAlone DEF Check, UpAt, Alive
  <1>2. r \in UpProc /\ procsUp' = [procsUp EXCEPT ![p] = r]
    BY UpFacts DEF Check, UpProc, VerOrNone
  <1>3. settings' \in UpSettings /\ settings'.version = settings.version
        /\ settings'.previous = settings.previous
    BY UpFacts DEF Check, Notify, UpSettings, VerOrNone
  <1>4. Restartable(file', procsUp')
    BY <1>2, StillRestartable, UpFacts DEF Check, UpProc
  <1>5. Beside(file', r)
    BY <1>1, UpFacts DEF Check, Beside, UpProc
  <1>6. r.ver = procsUp[p].ver /\ r.phase = procsUp[p].phase /\ r.wait = procsUp[p].wait
    BY UpFacts DEF UpProc
  <1>. QED BY <1>1, <1>2, <1>3, <1>4, <1>5, <1>6, SoloStep, UpFacts DEF Check, UpAt

LEMMA ApplyStep ==
  ASSUME UpInv, NEW p \in Pids, Apply(p)
  PROVE  UpInv'
  <1> DEFINE r == [procsUp[p] EXCEPT !.stage = "downloading", !.from = procsUp[p].rel]
  <1>1. Alive(p) /\ Solo(p)
    BY UpAlone DEF Apply, UpAt, Alive
  <1>2. r \in UpProc /\ procsUp' = [procsUp EXCEPT ![p] = r]
    BY UpFacts DEF Apply, UpProc, Stages
  <1>3. file.exe # Absent /\ Beside(file', r)
    BY <1>1, UpFacts, AbsentIsNone, VersionsAssumption DEF Apply, Claim, Beside, UpProc, VerOrNone, Absent, UpAt
  <1>4. Restartable(file', procsUp')
    BY <1>2, <1>3, StillRestartable DEF Apply
  <1>. QED BY <1>1, <1>2, <1>3, <1>4, SoloStep, UpFacts DEF Apply, UpAt, UpProc

LEMMA FetchedStep ==
  ASSUME UpInv, NEW p \in Pids, Verified(p) \/ ReleaseFails(p)
  PROVE  UpInv'
  <1>1. Alive(p) /\ Solo(p) /\ procsUp[p].phase \in {"serving", "stopping"} /\ file.exe # Absent
    BY UpAlone, UpFacts DEF Verified, ReleaseFails, Beside
  <1>2. UpAt(p, "stopping") => gaveUp
    BY <1>1 DEF UpInv, EndsForCause, Solo, Alive, UpAt
  <1>3. CASE Verified(p)
    <2> DEFINE r == [procsUp[p] EXCEPT !.stage = "verified"]
    <2>1. r \in UpProc /\ procsUp' = [procsUp EXCEPT ![p] = r]
      BY <1>3, UpFacts DEF Verified, Stage, UpProc, Stages
    <2>2. file' \in UpFile /\ Beside(file', r)
      BY <1>1, <1>3, UpFacts DEF Verified, Beside, UpProc, UpFile
    <2>3. Restartable(file', procsUp')
      BY <1>1, <1>3, UpFacts DEF Verified, Restartable, UpFile
    <2>. QED BY <1>1, <1>2, <1>3, <2>1, <2>2, <2>3, SoloStep, UpFacts DEF Verified, UpAt, UpProc
  <1>4. CASE ReleaseFails(p)
    <2> DEFINE r == [procsUp[p] EXCEPT !.stage = "failed"]
    <2>1. r \in UpProc /\ procsUp' = [procsUp EXCEPT ![p] = r]
      BY <1>4, UpFacts DEF ReleaseFails, Stage, UpProc, Stages
    <2>2. Beside(file', r)
      BY <1>1, <1>4, UpFacts DEF ReleaseFails, Beside, UpProc
    <2>3. Restartable(file', procsUp')
      BY <1>1, <1>4, <2>1, StillRestartable DEF ReleaseFails
    <2>. QED BY <1>1, <1>2, <1>4, <2>1, <2>2, <2>3, SoloStep, UpFacts DEF ReleaseFails, UpAt, UpProc
  <1>. QED BY <1>3, <1>4

\* The two renames, and what undoes them.
LEMMA SwapStep ==
  ASSUME UpInv, NEW p \in Pids, MoveAside(p) \/ MoveIn(p) \/ SwapFails(p) \/ LaunchFails(p)
  PROVE  UpInv'
  <1>1. Alive(p) /\ Solo(p) /\ procsUp[p].phase \in {"serving", "stopping"}
    BY UpAlone, UpFacts DEF MoveAside, MoveIn, SwapFails, LaunchFails, Beside
  <1>2. UpAt(p, "stopping") => gaveUp
    BY <1>1 DEF UpInv, EndsForCause, Solo, Alive, UpAt
  <1>3. UNCHANGED <<settings, published, gaveUp>>
    BY DEF MoveAside, MoveIn, SwapFails, LaunchFails
  <1>4. ASSUME NEW s \in Stages, NEW F \in UpFile, Stage(p, s), file' = F,
               Beside(F, [procsUp[p] EXCEPT !.stage = s]),
               F.exe = Absent => s = "aside",
               F.exe \in BadVersions => F.old \notin BadVersions \cup {Absent}
        PROVE  UpInv'
    <2> DEFINE r == [procsUp[p] EXCEPT !.stage = s]
    <2>1. r \in UpProc /\ procsUp' = [procsUp EXCEPT ![p] = r]
      BY <1>4, UpFacts DEF Stage, UpProc
    <2>2. Restartable(file', procsUp')
      BY <1>4, <2>1, UpFacts DEF Restartable, UpProc
    <2>. QED BY <1>1, <1>2, <1>3, <1>4, <2>1, <2>2, SoloStep, UpFacts DEF UpAt, UpProc
  <1>5. CASE MoveAside(p)
    <2> DEFINE F == [file EXCEPT !.old = file.exe, !.exe = Absent]
    <2>1. F \in UpFile
      BY UpFacts DEF UpFile, VerOrNone
    <2>2. Beside(F, [procsUp[p] EXCEPT !.stage = "aside"])
      BY <1>1, <1>5, UpFacts DEF MoveAside, Beside, UpProc, UpFile
    <2>3. /\ F.exe = Absent => "aside" = "aside"
          /\ F.exe \in BadVersions => F.old \notin BadVersions \cup {Absent}
      BY <1>1, <1>5, UpFacts, AbsentIsNone DEF MoveAside, Beside, UpFile
    <2>4. Stage(p, "aside") /\ file' = F /\ "aside" \in Stages
      BY <1>5 DEF MoveAside, Stages
    <2> HIDE DEF F
    <2>. QED BY <1>4, <2>1, <2>2, <2>3, <2>4
  <1>6. CASE MoveIn(p)
    <2> DEFINE F == [file EXCEPT !.exe = file.new, !.new = Absent]
    <2>1. F \in UpFile
      BY UpFacts DEF UpFile, VerOrNone
    <2>2. Beside(F, [procsUp[p] EXCEPT !.stage = "swapped"])
      BY <1>1, <1>6, UpFacts DEF MoveIn, Beside, UpProc, UpFile
    <2>3. /\ F.exe = Absent => "swapped" = "aside"
          /\ F.exe \in BadVersions => F.old \notin BadVersions \cup {Absent}
      BY <1>1, <1>6, UpFacts, AbsentIsNone DEF MoveIn, Beside, UpFile
    <2>4. Stage(p, "swapped") /\ file' = F /\ "swapped" \in Stages
      BY <1>6 DEF MoveIn, Stages
    <2> HIDE DEF F
    <2>. QED BY <1>4, <2>1, <2>2, <2>3, <2>4
  <1>7. CASE SwapFails(p) /\ procsUp[p].stage = "aside"
    <2> DEFINE F == [file EXCEPT !.exe = file.old, !.old = Absent, !.new = Absent]
    <2>1. F \in UpFile
      BY UpFacts DEF UpFile, VerOrNone
    <2>2. Beside(F, [procsUp[p] EXCEPT !.stage = "failed"])
      BY <1>1, <1>7, UpFacts DEF SwapFails, Beside, UpProc, UpFile
    <2>3. /\ F.exe = Absent => "failed" = "aside"
          /\ F.exe \in BadVersions => F.old \notin BadVersions \cup {Absent}
      BY <1>1, <1>7, UpFacts, AbsentIsNone DEF SwapFails, Beside, UpFile
    <2>4. Stage(p, "failed") /\ file' = F /\ "failed" \in Stages
      BY <1>7 DEF SwapFails, Stages
    <2> HIDE DEF F
    <2>. QED BY <1>4, <2>1, <2>2, <2>3, <2>4
  <1>8. CASE SwapFails(p) /\ procsUp[p].stage # "aside"
    <2> DEFINE F == [file EXCEPT !.old = Absent, !.new = Absent]
    <2>1. F \in UpFile
      BY UpFacts DEF UpFile, VerOrNone
    <2>2. Beside(F, [procsUp[p] EXCEPT !.stage = "failed"])
      BY <1>1, <1>8, UpFacts DEF SwapFails, Beside, UpProc, UpFile
    <2>3. /\ F.exe = Absent => "failed" = "aside"
          /\ F.exe \in BadVersions => F.old \notin BadVersions \cup {Absent}
      BY <1>1, <1>8, UpFacts, AbsentIsNone DEF SwapFails, Beside, UpFile
    <2>4. Stage(p, "failed") /\ file' = F /\ "failed" \in Stages
      BY <1>8 DEF SwapFails, Stages
    <2> HIDE DEF F
    <2>. QED BY <1>4, <2>1, <2>2, <2>3, <2>4
  <1>9. CASE LaunchFails(p)
    <2> DEFINE F == [file EXCEPT !.failed = file.exe, !.exe = file.old, !.old = Absent]
    <2>0. file.old # Absent
      BY <1>1, <1>9, UpFacts DEF LaunchFails, Beside
    <2>1. F \in UpFile
      BY UpFacts DEF UpFile, VerOrNone
    <2>2. Beside(F, [procsUp[p] EXCEPT !.stage = "failed"])
      BY <1>1, <1>9, <2>0, UpFacts DEF LaunchFails, Beside, UpProc, UpFile
    <2>3. /\ F.exe = Absent => "failed" = "aside"
          /\ F.exe \in BadVersions => F.old \notin BadVersions \cup {Absent}
      BY <1>1, <1>9, <2>0, UpFacts, AbsentIsNone DEF LaunchFails, Beside, UpFile
    <2>4. Stage(p, "failed") /\ file' = F /\ "failed" \in Stages
      BY <1>9, <2>0 DEF LaunchFails, Stages, Rollback
    <2> HIDE DEF F
    <2>. QED BY <1>4, <2>1, <2>2, <2>3, <2>4
  <1>. QED BY <1>5, <1>6, <1>7, <1>8, <1>9

-----------------------------------------------------------------------------
(* Starts and ends.                                                        *)

\* The successor waits for the one that started it.
LEMMA HandoverStep ==
  ASSUME UpInv, NEW p \in Pids, Launch(p) \/ RelaunchSelf(p)
  PROVE  UpInv'
  <1>1. Alive(p) /\ Solo(p) /\ procsUp[p].phase \in {"serving", "stopping"}
    BY UpAlone, UpFacts DEF Launch, RelaunchSelf, Beside, UpAt, Alive
  <1>2. ASSUME NEW s \in {"idle", "failed", "restarting"}, NEW P,
               P = [procsUp EXCEPT ![p].stage = s, ![p].phase = "stopping"], procsUp' \in Starts(P, p),
               Beside(file, [procsUp[p] EXCEPT !.stage = s, !.phase = "stopping"]),
               UNCHANGED <<file, settings, published, gaveUp>>
        PROVE  UpInv'
    <2> DEFINE n == Cardinality({q \in Pids : P[q].ver # 0}) + 1
               r == [Quiet EXCEPT !.ver = file.exe, !.phase = "wait", !.wait = p]
    <2>0. p # 0
      BY PidsAssumption, FS_CardinalityType
    <2>1. n \in Pids /\ file.exe # Absent /\ procsUp' = [P EXCEPT ![n] = r]
      BY <1>2, <2>0 DEF Starts
    <2>2. r \in UpProc
      BY <1>2, UpFacts DEF UpProc, UpFile, Quiet, Phases, Stages, VerOrNone, Absent
    <2>7. P \in [Pids -> UpProc]
      <3>1. [procsUp[p] EXCEPT !.stage = s, !.phase = "stopping"] \in UpProc
        BY <1>2, UpFacts DEF UpProc, Phases, Stages
      <3>2. P = [procsUp EXCEPT ![p] = [procsUp[p] EXCEPT !.stage = s, !.phase = "stopping"]]
        BY <1>2, UpFacts
      <3>. QED BY <3>1, <3>2, UpFacts
    <2>3. /\ \A q \in Pids : P[q].ver = procsUp[q].ver
          /\ P[p] = [procsUp[p] EXCEPT !.stage = s, !.phase = "stopping"]
          /\ \A q \in Pids : q # p => P[q] = procsUp[q] /\ P[q].phase = "none"
      BY <1>1, <1>2, UpFacts DEF Solo, Alive, UpProc
    <2>4. procsUp[p].ver # Absent
      BY <1>1, UpFacts DEF Beside
    <2>5. r.stage = "idle" /\ r.ver = file.exe /\ r.phase = "wait" /\ r.wait = p /\ p # 0
      BY <2>0 DEF Quiet
    <2>6. P[p].stage = s /\ P[p].phase = "stopping"
      BY <2>3, UpFacts DEF UpProc
    <2>8. \A q \in Pids : procsUp[q].ver = Absent => P[q] = procsUp[q]
      BY <2>3, <2>4
    <2>9. Yields(P, file', r)
      BY <1>2, <2>3, <2>5, <2>6 DEF Yields
    <2>11. /\ file' \in UpFile /\ r.ver = file'.exe
           /\ file'.exe \in BadVersions => file'.old \notin BadVersions \cup {Absent}
           /\ settings' = settings /\ published' = published /\ gaveUp' = gaveUp
      BY <1>2, <2>5, UpFacts DEF Restartable
    <2>12. n = Cardinality({q \in Pids : P[q].ver # 0}) + 1 /\ r.ver # Absent
      BY <2>1, <2>5
    <2>13. r.phase = "claim" \/ (r.phase = "wait" /\ r.wait # 0)
      BY <2>0, <2>5
    <2> HIDE DEF r, n
    <2>. QED BY <2>1, <2>2, <2>3, <2>5, <2>7, <2>8, <2>9, <2>11, <2>12, <2>13, StartStep
  <1>3. CASE Launch(p)
    <2>2. Beside(file, [procsUp[p] EXCEPT !.stage = "restarting", !.phase = "stopping"])
      BY <1>1, <1>3, UpFacts DEF Launch, Beside, UpProc
    <2>. QED BY <1>2, <1>3, <2>2 DEF Launch
  <1>4. CASE RelaunchSelf(p)
    <2>1. [procsUp EXCEPT ![p].phase = "stopping"] =
          [procsUp EXCEPT ![p].stage = procsUp[p].stage, ![p].phase = "stopping"]
      BY UpFacts DEF UpProc
    <2>2. Beside(file, [procsUp[p] EXCEPT !.stage = procsUp[p].stage, !.phase = "stopping"])
      BY <1>1, <1>4, UpFacts DEF RelaunchSelf, Claim, Beside, UpProc
    <2>. QED BY <1>2, <1>4, <2>1, <2>2 DEF RelaunchSelf, Claim
  <1>. QED BY <1>3, <1>4

\* WaitFor, ClaimLock and Started: with its predecessor gone a process is the only one, so it
\* finds the lock free.
LEMMA ClaimStep ==
  ASSUME UpInv, ~SlowStop, NEW p \in Pids, WaitFor(p) \/ ClaimLock(p) \/ Started(p)
  PROVE  UpInv'
  <1>1. Alive(p) /\ Solo(p) /\ procsUp[p].phase \in {"wait", "claim", "starting"}
    BY UpAlone DEF WaitFor, ClaimLock, Started, UpAt, Alive
  <1>2. ASSUME NEW ph \in {"claim", "starting", "announced"}, Goes(p, ph),
               UNCHANGED <<file, published, gaveUp>>, settings' \in UpSettings,
               settings'.previous < settings'.version,
               ph = "announced" => settings'.version = procsUp[p].ver
        PROVE  UpInv'
    <2> DEFINE r == [procsUp[p] EXCEPT !.phase = ph]
    <2>1. r \in UpProc /\ procsUp' = [procsUp EXCEPT ![p] = r]
      BY <1>2, UpFacts DEF Goes, UpProc, Phases
    <2>2. r.phase = ph /\ r.stage = procsUp[p].stage /\ r.ver = procsUp[p].ver
      BY UpFacts DEF UpProc
    <2>3. Beside(file', r)
      BY <1>1, <1>2, <2>2, UpFacts DEF Beside
    <2>4. Restartable(file', procsUp')
      BY <1>2, <2>1, <2>2, StillRestartable
    <2> HIDE DEF r
    <2>. QED BY <1>1, <1>2, <2>1, <2>2, <2>3, <2>4, SoloStep, UpFacts
  <1>3. CASE WaitFor(p)
    BY <1>2, <1>3, UpFacts DEF WaitFor
  <1>4. CASE ClaimLock(p)
    <2>1. ~ \E q \in Pids : Holds(q)
      BY <1>1, <1>4 DEF ClaimLock, Solo, Alive, Holds, UpAt
    <2>. QED BY <1>2, <1>4, <2>1, UpFacts DEF ClaimLock
  <1>5. CASE Started(p)
    <2>1. procsUp[p].ver \in UpVersions
      BY <1>1, UpFacts DEF Beside, UpProc, VerOrNone
    <2>2. settings' \in UpSettings /\ settings'.version = procsUp[p].ver
      BY <1>5, <2>1, UpFacts DEF Started, UpSettings, VerOrNone
    <2>3. settings'.previous < settings'.version
      <3>1. procsUp[p].ver \in Nat \ {0} /\ settings.version \in Nat \ {0}
        BY <2>1, UpFacts, VersionsAssumption DEF UpSettings
      <3>2. CASE settings' = settings
        BY <3>2, UpFacts
      <3>3. CASE settings' # settings
        <4>1. /\ settings' = [settings EXCEPT !.version = procsUp[p].ver,
                             !.previous = IF procsUp[p].ver > settings.version THEN settings.version ELSE Absent]
          BY <1>5, <3>3 DEF Started
        <4>2. settings'.previous = IF procsUp[p].ver > settings.version THEN settings.version ELSE 0
          BY <4>1, UpFacts DEF UpSettings, Absent
        <4>. QED BY <2>2, <3>1, <4>2
      <3>. QED BY <3>2, <3>3
    <2>. QED BY <1>2, <1>5, <2>2, <2>3 DEF Started
  <1>. QED BY <1>3, <1>4, <1>5

\* A start that comes through removes the way back, one that does not leaves it.
LEMMA ServesStep ==
  ASSUME UpInv, NEW p \in Pids, Serves(p) \/ Dies(p) \/ Closes(p)
  PROVE  UpInv'
  <1>1. Alive(p) /\ Solo(p) /\ procsUp[p].phase \in {"starting", "announced", "serving"}
    BY UpAlone DEF Serves, Dies, Closes, UpAt, Alive
  <1>2. procsUp[p].ver \in UpVersions
    BY <1>1, UpFacts DEF Beside, UpProc, VerOrNone
  <1>3. ASSUME NEW ph \in {"serving", "back", "none", "stopping"}, Goes(p, ph), file' \in UpFile,
               UNCHANGED <<settings, published>>, gaveUp' \in BOOLEAN, Restartable(file', procsUp),
               ph = "back" => procsUp[p].wait # 0 /\ procsUp[p].ver \in BadVersions,
               ph # "none" => Beside(file', [procsUp[p] EXCEPT !.phase = ph]),
               ph \in {"none", "stopping"} => gaveUp',
               ph = "serving" => settings.version = procsUp[p].ver
        PROVE  UpInv'
    <2> DEFINE r == [procsUp[p] EXCEPT !.phase = ph]
    <2>1. r \in UpProc /\ procsUp' = [procsUp EXCEPT ![p] = r]
      BY <1>3, UpFacts DEF Goes, UpProc, Phases
    <2>2. r.phase = ph /\ r.stage = procsUp[p].stage /\ r.ver = procsUp[p].ver /\ r.wait = procsUp[p].wait
      BY UpFacts DEF UpProc
    <2>3. Restartable(file', procsUp')
      BY <1>3, <2>1, <2>2, UpFacts DEF Restartable
    <2>4. ph # "none" => Beside(file', r)
      BY <1>3
    <2> HIDE DEF r
    <2>. QED BY <1>1, <1>3, <2>1, <2>2, <2>3, <2>4, SoloStep, UpFacts
  <1>4. CASE Serves(p)
    <2> DEFINE F == [file EXCEPT !.old = Absent, !.new = Absent, !.failed = Absent]
    <2>1. F \in UpFile /\ F.exe = file.exe
      BY UpFacts DEF UpFile, VerOrNone
    <2>2. file.exe = procsUp[p].ver /\ procsUp[p].stage = "idle" /\ procsUp[p].ver \notin BadVersions
      BY <1>1, <1>4, UpFacts DEF Serves, Beside, UpAt
    <2>3. Restartable(F, procsUp)
      BY <1>2, <2>1, <2>2, AbsentIsNone DEF Restartable
    <2>4. Beside(F, [procsUp[p] EXCEPT !.phase = "serving"])
      BY <1>2, <2>1, <2>2, UpFacts, AbsentIsNone DEF Beside, UpProc
    <2>5. file' = F /\ Goes(p, "serving") /\ UNCHANGED <<settings, published, gaveUp>>
          /\ settings.version = procsUp[p].ver
      BY <1>4, UpFacts DEF Serves, UpAt
    <2> HIDE DEF F
    <2>. QED BY <1>3, <2>1, <2>3, <2>4, <2>5, UpFacts
  <1>5. CASE Dies(p)
    <2>1. Beside(file, [procsUp[p] EXCEPT !.phase = "back"])
      BY <1>1, <1>5, UpFacts DEF Dies, Beside, UpProc
    <2>. QED BY <1>3, <1>5, <2>1, UpFacts DEF Dies, Returns
  <1>6. CASE Closes(p)
    <2>1. Beside(file, [procsUp[p] EXCEPT !.phase = "stopping"])
      BY <1>1, <1>6, UpFacts DEF Closes, Beside, UpProc, UpAt
    <2>. QED BY <1>3, <1>6, <2>1, UpFacts DEF Closes
  <1>. QED BY <1>4, <1>5, <1>6

\* A handover that failed has the old version beside it: it goes back, and that version starts.
LEMMA HandsBackStep ==
  ASSUME UpInv, NEW p \in Pids, HandsBack(p)
  PROVE  UpInv'
  <1>1. Alive(p) /\ Solo(p)
    BY UpAlone DEF HandsBack, UpAt, Alive
  <1>2. file.old \notin BadVersions \cup {Absent}
    <2>1. file.exe = procsUp[p].ver /\ procsUp[p].ver \in BadVersions
      BY <1>1, UpFacts DEF HandsBack, Beside, UpAt
    <2>. QED BY <2>1, UpFacts DEF Restartable
  <1> DEFINE P == [procsUp EXCEPT ![p].phase = "none"]
             F == [file EXCEPT !.failed = file.exe, !.exe = file.old, !.old = Absent]
             n == Cardinality({q \in Pids : P[q].ver # 0}) + 1
             r == [Quiet EXCEPT !.ver = F.exe, !.phase = "claim"]
  <1>3. F \in UpFile /\ F.exe = file.old
    BY UpFacts DEF UpFile, VerOrNone
  <1>4. /\ n \in Pids /\ procsUp' = [P EXCEPT ![n] = r] /\ file' = F /\ gaveUp' = gaveUp
        /\ settings' = settings /\ published' = published
    BY <1>2 DEF HandsBack, Rollback
  <1>5. P \in [Pids -> UpProc]
    BY UpFacts DEF UpProc, Phases
  <1>6. /\ \A q \in Pids : P[q].ver = procsUp[q].ver /\ P[q].phase = "none"
        /\ \A q \in Pids : q # p => P[q] = procsUp[q]
    BY <1>1, UpFacts DEF Solo, Alive, UpProc
  <1>7. \A q \in Pids : procsUp[q].ver = Absent => P[q] = procsUp[q]
    BY <1>1, <1>6, UpFacts DEF Beside
  <1>8. r \in UpProc /\ r.stage = "idle" /\ r.ver = F.exe /\ r.ver # Absent /\ r.phase = "claim"
    BY <1>2, <1>3 DEF UpProc, UpFile, Quiet, Phases, Stages, VerOrNone, Absent
  <1>9. Yields(P, F, r)
    BY <1>6 DEF Yields
  <1> HIDE DEF P, F, r
  <1>. QED BY <1>2, <1>3, <1>4, <1>5, <1>6, <1>7, <1>8, <1>9, StartStep

LEMMA UserStartsStep ==
  ASSUME UpInv, ~SecondLaunch, UserStarts
  PROVE  UpInv'
  <1> DEFINE n == Cardinality({q \in Pids : procsUp[q].ver # 0}) + 1
             r == [Quiet EXCEPT !.ver = file.exe, !.phase = "claim", !.wait = 0]
  <1>1. /\ n \in Pids /\ file.exe # Absent /\ procsUp' = [procsUp EXCEPT ![n] = r]
        /\ \A q \in Pids : procsUp[q].phase = "none"
        /\ UNCHANGED <<file, settings, published, gaveUp>>
    BY DEF UserStarts, Starts, Alive
  <1>2. r \in UpProc /\ r.stage = "idle" /\ r.ver = file.exe /\ r.phase = "claim"
    BY <1>1, UpFacts DEF UpProc, UpFile, Quiet, Phases, Stages, VerOrNone, Absent
  <1>3. /\ procsUp \in [Pids -> UpProc] /\ file \in UpFile
        /\ file.exe \in BadVersions => file.old \notin BadVersions \cup {Absent}
    BY <1>1, UpFacts DEF Restartable
  <1>4. n = Cardinality({q \in Pids : procsUp[q].ver # 0}) + 1 /\ r.ver = file'.exe /\ r.ver # Absent
    BY <1>1, <1>2
  <1>5. /\ \A q \in Pids : procsUp[q].ver = procsUp[q].ver
        /\ file' \in UpFile /\ (file'.exe \in BadVersions => file'.old \notin BadVersions \cup {Absent})
    BY <1>1, <1>3
  <1>6. Yields(procsUp, file', r)
    BY <1>1 DEF Yields
  <1> HIDE DEF r, n
  <1>. QED BY <1>1, <1>2, <1>3, <1>4, <1>5, <1>6, StartStep

\* The last of a process: by then it was closed, or its successor is there.
LEMMA EndsStep ==
  ASSUME UpInv, NEW p \in Pids, Ends(p)
  PROVE  UpInv'
  <1>1. procsUp \in [Pids -> UpProc] /\ UpAt(p, "stopping")
    BY UpFacts DEF Ends
  <1>2. /\ procsUp'[p] = [procsUp[p] EXCEPT !.phase = "none"]
        /\ \A q \in Pids : q # p => procsUp'[q] = procsUp[q]
        /\ UNCHANGED <<file, settings, published, gaveUp>>
    BY <1>1 DEF Ends, Goes
  <1>3. /\ procsUp'[p].phase = "none" /\ procsUp'[p].ver = procsUp[p].ver
        /\ procsUp'[p].stage = procsUp[p].stage /\ procsUp[p].ver # Absent
    BY <1>1, <1>2, UpFacts DEF UpProc, Beside, Alive, UpAt
  <1>4. UpShape'
    BY <1>1, <1>2 DEF UpInv, UpShape, Ends, Goes, UpProc, Phases
  <1>5. Numbered'
    BY <1>2, <1>3 DEF UpInv, Numbered
  <1>6. Alone' /\ WaitsForOther' /\ FilesFound'
    <2>1. \A q \in Pids : Alive(q)' => q # p /\ Alive(q)
      BY <1>2, <1>3 DEF Alive
    <2>2. Alone'
      BY <1>2, <2>1 DEF UpInv, Alone, HandsOver, UpAt
    <2>3. WaitsForOther'
      BY <1>2, <1>3 DEF UpInv, WaitsForOther, UpAt
    <2>. QED BY <1>2, <2>1, <2>2, <2>3 DEF UpInv, FilesFound
  <1>7. StartableAgain'
    BY <1>2, <1>3 DEF UpInv, StartableAgain
  <1>8. EndsForCause'
    <2>1. SUFFICES ASSUME NEW q \in Pids, UpAt(q, "stopping")', ~gaveUp
                   PROVE  \E t \in Pids : t # q /\ UpAt(t, "wait")' /\ procsUp'[t].wait = q
      BY <1>2 DEF EndsForCause
    <2>2. q # p /\ UpAt(q, "stopping")
      BY <1>2, <1>3, <2>1 DEF UpAt
    <2>. QED BY <1>1, <1>2, <2>1, <2>2 DEF UpInv, EndsForCause, UpAt
  <1>9. NeverVanishes'
    BY <1>1, <1>2, <1>3 DEF UpInv, NeverVanishes, EndsForCause, Alive, UpAt
  <1>10. VersionKept'
    BY <1>2, <1>3 DEF UpInv, VersionKept
  <1>. QED BY <1>4, <1>5, <1>6, <1>7, <1>8, <1>9, <1>10 DEF UpInv

-----------------------------------------------------------------------------
(* update.go, main.go run: with predecessors that end within WaitFor's thirty seconds and users
   who do not start kuro while it runs, every live process finds beside it the executable it
   needs and at most two processes are alive, one handing over to the other. *)
THEOREM UpInvariant == ~SlowStop /\ ~SecondLaunch => (UpSpec => []UpInv)
<1> SUFFICES ASSUME ~SlowStop, ~SecondLaunch PROVE UpSpec => []UpInv
  OBVIOUS
<1>1. UpInit => UpInv
  <2> SUFFICES ASSUME UpInit PROVE UpInv
    OBVIOUS
  <2> DEFINE r == [Quiet EXCEPT !.ver = 1, !.phase = "serving"]
  <2>1. 1 \in Pids /\ \A p \in Pids : procsUp[p] = IF p = 1 THEN r ELSE Quiet
    BY PidsAssumption DEF UpInit
  <2>2. Quiet \in UpProc /\ r \in UpProc /\ r.stage = "idle" /\ r.phase = "serving" /\ r.ver = 1
    BY VersionsAssumption DEF Quiet, UpProc, Phases, Stages, VerOrNone, Absent
  <2> HIDE DEF r
  <2>3. UpShape
    BY <2>1, <2>2, VersionsAssumption DEF UpInit, UpShape, VerOrNone, Absent
  <2>4. Quiet.ver = 0 /\ Quiet.phase = "none"
    BY DEF Quiet
  <2>5. Numbered
    <3>1. Cardinality(Pids) \in Nat /\ Pids = 1 .. Cardinality(Pids)
      BY PidsAssumption, FS_CardinalityType
    <3>2. 1 \in 0 .. Cardinality(Pids) /\ \A p \in Pids : p <= 1 <=> p = 1
      BY <2>1, <3>1
    <3>3. \A p \in Pids : procsUp[p].ver # Absent <=> p <= 1
      BY <2>1, <2>2, <2>4, <3>2 DEF Absent
    <3>4. \A p \in Pids : procsUp[p].ver = Absent => procsUp[p] = Quiet
      BY <2>1, <2>2 DEF Absent
    <3>. QED BY <3>2, <3>3, <3>4 DEF Numbered
  <2>6. Alone /\ WaitsForOther /\ FilesFound /\ EndsForCause /\ NeverVanishes
    BY <2>1, <2>2, <2>4, VersionsAssumption
    DEF UpInit, Alone, WaitsForOther, FilesFound, Beside, EndsForCause, NeverVanishes, Alive, UpAt, Absent
  <2>7. StartableAgain /\ VersionKept
    BY <2>1, <2>2, <2>4, VersionsAssumption DEF UpInit, StartableAgain, VersionKept, Absent
  <2>. QED BY <2>3, <2>5, <2>6, <2>7 DEF UpInv
<1>2. UpInv /\ [UpNext]_upVars => UpInv'
  <2> SUFFICES ASSUME UpInv, [UpNext]_upVars PROVE UpInv'
    OBVIOUS
  <2>1. CASE Publish
    BY <2>1 DEF Publish, UpInv, UpShape, Numbered, Alone, HandsOver, WaitsForOther, FilesFound,
      StartableAgain, EndsForCause, NeverVanishes, VersionKept, Alive, UpAt
  <2>2. CASE UserStarts
    BY <2>2, UserStartsStep
  <2>3. ASSUME NEW p \in Pids,
               \/ Check(p) \/ Apply(p) \/ Verified(p) \/ ReleaseFails(p) \/ MoveAside(p) \/ MoveIn(p)
               \/ SwapFails(p) \/ Launch(p) \/ LaunchFails(p) \/ RelaunchSelf(p)
               \/ WaitFor(p) \/ ClaimLock(p) \/ Started(p) \/ Serves(p) \/ Dies(p) \/ HandsBack(p)
               \/ Ends(p) \/ Closes(p)
        PROVE  UpInv'
    BY <2>3, CheckStep, ApplyStep, FetchedStep, SwapStep, HandoverStep, ClaimStep, ServesStep,
       HandsBackStep, EndsStep
  <2>4. CASE UNCHANGED upVars
    BY <2>4 DEF upVars, UpInv, UpShape, Numbered, Alone, HandsOver, WaitsForOther, FilesFound,
      StartableAgain, EndsForCause, NeverVanishes, VersionKept, Alive, UpAt
  <2>. QED BY <2>1, <2>2, <2>3, <2>4 DEF UpNext
<1>. QED BY <1>1, <1>2, PTL DEF UpSpec

(* update.go swap, Rollback and UpdatedFrom: whatever crashes, fails or is closed between two
   steps, an executable is there unless a swap is or was cut between its renames, one that
   cannot start has its way back beside it, kuro does not vanish by an update, one process
   holds the data folder, and what is shown as the version before is older. *)
THEOREM UpdateStaysSafe == ~SlowStop /\ ~SecondLaunch => (UpSpec => []UpdateSafe)
<1>1. UpInv => UpdateSafe
  <2> SUFFICES ASSUME UpInv PROVE UpdateSafe
    OBVIOUS
  <2>1. \A f \in DOMAIN file : file[f] \in UpVersions \cup {Absent}
    BY DEF UpInv, UpShape, VerOrNone
  <2>2. Cardinality({p \in Pids : Holds(p)}) <= 1
    <3>1. \A p, q \in Pids : Holds(p) /\ Holds(q) => p = q
      BY DEF UpInv, Alone, HandsOver, Holds, Alive, UpAt
    <3>2. CASE {p \in Pids : Holds(p)} = {}
      BY <3>2, FS_EmptySet
    <3>3. ASSUME NEW p \in Pids, Holds(p) PROVE Cardinality({q \in Pids : Holds(q)}) <= 1
      <4>1. {q \in Pids : Holds(q)} = {p}
        BY <3>1, <3>3
      <4>. QED BY <4>1, FS_Singleton
    <3>. QED BY <3>2, <3>3
  <2>3. WhatsNewIsNew
    BY DEF UpInv, VersionKept, WhatsNewIsNew, UpAt
  <2>. QED BY <2>1, <2>2, <2>3 DEF UpInv, UpTypeOK, UpdateSafe
<1>. QED BY <1>1, UpInvariant, PTL

-----------------------------------------------------------------------------
(* Access: the devices table, what the server remembers of it, and what the *)
(* host's page puts in force.                                               *)

Statuses == {"none", "pending", "approved", "denied"}
AccTable == [DeviceIDs -> [status : Statuses, addr : Devices \cup {NoID}]]
AccMemory == [loaded : BOOLEAN, mode : Modes, status : [DeviceIDs -> Statuses], seen : SUBSET DeviceIDs]
Nets == {"loop", "lan"}
TabOps == {"idle", "mode", "token", "listen", "saved"}
AccPhone == [on : BOOLEAN, token : Nat, id : DeviceIDs \cup {NoID}]
AccShape ==
  /\ table \in AccTable /\ memory \in AccMemory
  /\ setting \in [mode : Modes, token : Nat, lan : Nets] /\ accToken \in Nat
  /\ phone \in [Devices -> AccPhone]
  /\ tab = [h \in HostTabs |-> [op |-> tab[h].op, val |-> tab[h].val]]
  /\ \A h \in HostTabs : tab[h].op \in TabOps

(* A row that is not there has no address. *)
EmptyRows == \A i \in DeviceIDs : table[i].status = "none" => table[i].addr = NoID
(* Whoever is approved was so by the host, and nothing since took it back. *)
ApprovedAreBlessed == \A i \in DeviceIDs : table[i].status = "approved" => i \in blessed
(* What a request of the host saved is what it is about to put in force. *)
TabSays ==
  \A h \in HostTabs : /\ tab[h].op = "mode" => tab[h].val = setting.mode
                      /\ tab[h].op = "token" => tab[h].val = setting.token
                      /\ tab[h].op \in {"listen", "saved"} => tab[h].val \in Nets
HostBusy(busy) == \E h \in HostTabs : tab[h].op \in busy
(* Without one, memory and listener are what was saved. *)
InForce ==
  /\ accToken = setting.token \/ HostBusy({"token"})
  /\ memory.loaded => memory.mode = setting.mode \/ HostBusy({"mode"})
  /\ again = NotAgain => astray \/ listener = setting.lan \/ HostBusy({"listen", "saved"})

AccInv == /\ AccShape /\ EmptyRows /\ ApprovedAreBlessed /\ MemoryIsTable /\ PendingBounded
          /\ TabSays /\ InForce

-----------------------------------------------------------------------------
(* Rows and memory.                                                        *)

Waiting(T) == {i \in DeviceIDs : T[i].status = "pending"}
RowsKept ==
  /\ table \in AccTable /\ memory \in AccMemory
  /\ EmptyRows /\ ApprovedAreBlessed /\ MemoryIsTable /\ PendingBounded
HostKept ==
  /\ setting \in [mode : Modes, token : Nat, lan : Nets] /\ accToken \in Nat
  /\ tab = [h \in HostTabs |-> [op |-> tab[h].op, val |-> tab[h].val]]
  /\ \A h \in HostTabs : tab[h].op \in TabOps
  /\ TabSays /\ InForce

LEMMA AccInvParts == AccInv <=> RowsKept /\ HostKept /\ phone \in [Devices -> AccPhone]
  BY DEF AccInv, AccShape, RowsKept, HostKept

\* What loadApprovals leaves: the rows and the mode that were saved, what memory held, or,
\* when the read failed, nobody.
LEMMA LoadedFacts ==
  ASSUME AccInv, NEW ok \in BOOLEAN
  PROVE  /\ Loaded(ok) \in AccMemory
         /\ Loaded(ok).loaded => \A i \in DeviceIDs : Loaded(ok).status[i] = table[i].status
         /\ memory.loaded => Loaded(ok) = memory
         /\ Loaded(ok).loaded /\ ~memory.loaded => Loaded(ok).mode = setting.mode /\ ok
         /\ Loaded(ok).loaded => Loaded(ok) = Loaded(TRUE)
         /\ ~Loaded(ok).loaded => /\ ~memory.loaded /\ ~ok /\ Loaded(ok).mode = "once"
                                  /\ \A i \in DeviceIDs : Loaded(ok).status[i] = "none"
  <1>1. CASE memory.loaded
    BY <1>1 DEF Loaded, AccInv, AccShape, MemoryIsTable
  <1>2. CASE ~memory.loaded /\ ok
    <2>1. Loaded(ok) = [loaded |-> TRUE, mode |-> setting.mode,
                        status |-> [i \in DeviceIDs |-> table[i].status], seen |-> {}]
      BY <1>2 DEF Loaded
    <2>2. [i \in DeviceIDs |-> table[i].status] \in [DeviceIDs -> Statuses] /\ setting.mode \in Modes
      BY DEF AccInv, AccShape, AccTable
    <2>. QED BY <1>2, <2>1, <2>2 DEF AccMemory, Loaded
  <1>3. CASE ~memory.loaded /\ ~ok
    <2>1. Loaded(ok) = [loaded |-> FALSE, mode |-> "once", status |-> NoStatus, seen |-> {}]
      BY <1>3 DEF Loaded, Unloaded
    <2>2. NoStatus \in [DeviceIDs -> Statuses] /\ "once" \in Modes /\ \A i \in DeviceIDs : NoStatus[i] = "none"
      BY DEF NoStatus, Statuses, Modes
    <2>. QED BY <1>3, <2>1, <2>2 DEF AccMemory
  <1>. QED BY <1>1, <1>2, <1>3

\* One row more, or fewer, among those that wait.
LEMMA WaitingBound ==
  ASSUME NEW T \in AccTable, NEW U \in AccTable, NEW i \in DeviceIDs,
         \A j \in DeviceIDs : j # i => U[j] = T[j]
  PROVE  /\ Cardinality(Waiting(T)) \in Nat /\ Cardinality(Waiting(U)) \in Nat
         /\ Cardinality(Waiting(U)) <= Cardinality(Waiting(T)) + 1
         /\ U[i].status # "pending" => Cardinality(Waiting(U)) <= Cardinality(Waiting(T))
  <1>1. IsFiniteSet(Waiting(T)) /\ IsFiniteSet(Waiting(U)) /\ IsFiniteSet(Waiting(T) \cup {i})
    <2>1. Waiting(T) \subseteq DeviceIDs /\ Waiting(U) \subseteq DeviceIDs
      BY DEF Waiting
    <2>. QED BY <2>1, FS_Subset, FS_AddElement, DevicesAssumption
  <1>2. Waiting(U) \subseteq Waiting(T) \cup {i}
    BY DEF Waiting
  <1>3. Cardinality(Waiting(T) \cup {i}) <= Cardinality(Waiting(T)) + 1
    BY <1>1, FS_AddElement, FS_CardinalityType
  <1>4. U[i].status # "pending" => Waiting(U) \subseteq Waiting(T)
    BY DEF Waiting
  <1>5. Cardinality(Waiting(T)) \in Nat /\ Cardinality(Waiting(U)) \in Nat
        /\ Cardinality(Waiting(T) \cup {i}) \in Nat
    BY <1>1, FS_CardinalityType
  <1>6. Cardinality(Waiting(U)) <= Cardinality(Waiting(T) \cup {i})
    BY <1>1, <1>2, FS_Subset
  <1>7. U[i].status # "pending" => Cardinality(Waiting(U)) <= Cardinality(Waiting(T))
    BY <1>1, <1>4, FS_Subset
  <1>. QED BY <1>3, <1>5, <1>6, <1>7

\* Taking up what was read changes no row.
LEMMA TakeUp ==
  ASSUME AccInv, NEW ok \in BOOLEAN, NEW M \in AccMemory, memory' = M,
         M.loaded = Loaded(ok).loaded, M.status = Loaded(ok).status,
         UNCHANGED <<table, blessed>>, unread => unread'
  PROVE  RowsKept'
  <1>1. table' \in AccTable /\ memory' \in AccMemory
    BY DEF AccInv, AccShape
  <1>2. EmptyRows' /\ ApprovedAreBlessed'
    BY DEF AccInv, EmptyRows, ApprovedAreBlessed
  <1>3. MemoryIsTable'
    BY LoadedFacts DEF MemoryIsTable
  <1>4. PendingBounded'
    BY DEF AccInv, PendingBounded
  <1>. QED BY <1>1, <1>2, <1>3, <1>4 DEF RowsKept

\* One row written, in the store and then in memory.
TableRow == [status : Statuses, addr : Devices \cup {NoID}]
WritesRow(ok, i, entry, M) ==
  /\ table' = [table EXCEPT ![i] = entry] /\ memory' = M
  /\ M.loaded = Loaded(ok).loaded /\ M.status = [Loaded(ok).status EXCEPT ![i] = entry.status]
  /\ entry.status = "none" => entry.addr = NoID
  /\ \A j \in DeviceIDs : j # i /\ table[j].status = "approved" => j \in blessed'
  /\ entry.status = "approved" => i \in blessed'
  /\ unread => unread'
  /\ entry.status = "pending" => unread' \/ Cardinality(Waiting(table)) < MaxPending
LEMMA RowWritten ==
  ASSUME AccInv, NEW ok \in BOOLEAN, NEW i \in DeviceIDs, NEW M \in AccMemory, NEW entry \in TableRow,
         WritesRow(ok, i, entry, M)
  PROVE  RowsKept'
  <1> USE DEF WritesRow, TableRow
  <1>1. table \in AccTable /\ Loaded(ok) \in AccMemory
    BY LoadedFacts DEF AccInv, AccShape
  <1>2. table' \in AccTable /\ table'[i] = entry /\ \A j \in DeviceIDs : j # i => table'[j] = table[j]
    BY <1>1 DEF AccTable
  <1>3. EmptyRows' /\ ApprovedAreBlessed'
    BY <1>2 DEF AccInv, EmptyRows, ApprovedAreBlessed
  <1>4. MemoryIsTable'
    <2>1. \A j \in DeviceIDs : M.status[j] = IF j = i THEN entry.status ELSE Loaded(ok).status[j]
      BY <1>1 DEF AccMemory
    <2>2. M.loaded => \A j \in DeviceIDs : Loaded(ok).status[j] = table[j].status
      BY LoadedFacts
    <2>. QED BY <1>2, <2>1, <2>2 DEF MemoryIsTable
  <1>5. PendingBounded'
    <2>1. unread \/ Cardinality(Waiting(table)) <= MaxPending
      BY DEF AccInv, PendingBounded, Waiting
    <2>2. unread' \/ Cardinality(Waiting(table')) <= MaxPending
      <3>1. /\ Cardinality(Waiting(table)) \in Nat /\ Cardinality(Waiting(table')) \in Nat
            /\ Cardinality(Waiting(table')) <= Cardinality(Waiting(table)) + 1
            /\ entry.status # "pending" => Cardinality(Waiting(table')) <= Cardinality(Waiting(table))
        <4>1. PICK T \in AccTable : T = table
          BY <1>1
        <4>2. PICK U \in AccTable : U = table'
          BY <1>2
        <4>3. (\A j \in DeviceIDs : j # i => U[j] = T[j]) /\ U[i] = entry
          BY <1>2, <4>1, <4>2
        <4>4. /\ Cardinality(Waiting(T)) \in Nat /\ Cardinality(Waiting(U)) \in Nat
              /\ Cardinality(Waiting(U)) <= Cardinality(Waiting(T)) + 1
              /\ U[i].status # "pending" => Cardinality(Waiting(U)) <= Cardinality(Waiting(T))
          BY <4>3, WaitingBound
        <4>. QED BY <4>1, <4>2, <4>3, <4>4
      <3>. QED BY <2>1, <3>1, PendingAssumption
    <2>. QED BY <2>2 DEF PendingBounded, Waiting
  <1>. QED BY <1>2, <1>3, <1>4, <1>5 DEF RowsKept

\* admit: a device let in is an approved one, one that asks becomes a row that waits.
LEMMA AdmitRows ==
  ASSUME AccInv, NEW d \in Devices, NEW nav \in BOOLEAN, NEW ok \in BOOLEAN, admit(d, nav, ok)
  PROVE  RowsKept' /\ phone' \in [Devices -> AccPhone]
  <1> DEFINE M == Loaded(ok)
             id == phone[d].id
  <1>1. /\ M \in AccMemory /\ phone \in [Devices -> AccPhone] /\ id \in DeviceIDs \cup {NoID}
        /\ table \in AccTable
    BY LoadedFacts DEF AccInv, AccShape, AccPhone
  <1>2. (unread => unread') /\ (~M.loaded => unread')
    BY LoadedFacts DEF admit, Reads
  <1>3. CASE MayEnter(M, id)
    <2> DEFINE N == IF id # NoID /\ M.mode # "off" THEN [M EXCEPT !.seen = @ \cup {id}] ELSE M
    <2>1. memory' = N /\ UNCHANGED <<table, phone, blessed>>
      BY <1>3 DEF admit
    <2>2. N \in AccMemory /\ N.loaded = M.loaded /\ N.status = M.status
      BY <1>1 DEF AccMemory
    <2> HIDE DEF N
    <2>. QED BY <1>1, <1>2, <2>1, <2>2, TakeUp
  <1>4. CASE ~MayEnter(M, id) /\ memory' = M /\ UNCHANGED <<table, phone>>
    <2>1. blessed' = {i \in blessed : table'[i].status # "pending"}
      BY <1>4 DEF admit
    <2>2. table' \in AccTable /\ memory' \in AccMemory
      BY <1>1, <1>4
    <2>3. EmptyRows' /\ ApprovedAreBlessed'
      BY <1>4, <2>1 DEF AccInv, EmptyRows, ApprovedAreBlessed
    <2>4. MemoryIsTable'
      BY <1>4, LoadedFacts DEF MemoryIsTable
    <2>5. PendingBounded'
      BY <1>2, <1>4 DEF AccInv, PendingBounded
    <2>. QED BY <1>1, <1>4, <2>2, <2>3, <2>4, <2>5 DEF RowsKept
  <1>5. CASE ~MayEnter(M, id) /\ ~(memory' = M /\ UNCHANGED <<table, phone>>)
    <2> DEFINE i == IF id = NoID THEN Fresh ELSE id
               entry == [status |-> "pending", addr |-> d]
    <2>1. /\ ~Full(M) /\ (id = NoID => AnyFresh)
          /\ table' = [table EXCEPT ![i] = entry]
          /\ memory' = [M EXCEPT !.status[i] = "pending"]
          /\ phone' = [phone EXCEPT ![d].id = i]
          /\ blessed' = {j \in blessed : table'[j].status # "pending"}
      BY <1>5 DEF admit, requestAccess
    <2>2. i \in DeviceIDs
      BY <1>1, <2>1 DEF Fresh, AnyFresh
    <2>3. phone' \in [Devices -> AccPhone]
      BY <1>1, <2>1, <2>2 DEF AccPhone
    <2>4. entry \in TableRow /\ entry.status = "pending"
      BY DEF Statuses, TableRow
    <2> DEFINE N == [M EXCEPT !.status[i] = "pending"]
    <2>5. N \in AccMemory /\ N.loaded = M.loaded /\ N.status = [M.status EXCEPT ![i] = "pending"]
      BY <1>1, <2>2 DEF AccMemory, Statuses
    <2>6. unread' \/ Cardinality(Waiting(table)) < MaxPending
      <3>1. CASE M.loaded
        <4>1. {j \in DeviceIDs : M.status[j] = "pending"} = Waiting(table)
          BY <3>1, LoadedFacts DEF Waiting
        <4>2. Cardinality(Waiting(table)) \in Nat
          <5>1. Waiting(table) \subseteq DeviceIDs
            BY DEF Waiting
          <5>. QED BY <5>1, DevicesAssumption, FS_Subset, FS_CardinalityType
        <4>3. ~(Cardinality(Waiting(table)) >= MaxPending)
          <5>1. Full(M) <=> Cardinality({j \in DeviceIDs : M.status[j] = "pending"}) >= MaxPending
            BY DEF Full
          <5> HIDE DEF M
          <5>. QED BY <2>1, <4>1, <5>1
        <4>. QED BY <4>2, <4>3, PendingAssumption
      <3>. QED BY <1>2, <3>1
    <2> HIDE DEF i, entry, N
    <2>8. /\ table' = [table EXCEPT ![i] = entry] /\ memory' = N
          /\ blessed' = {j \in blessed : table'[j].status # "pending"}
      BY <2>1 DEF N
    <2>9. table'[i] = entry /\ \A j \in DeviceIDs : j # i => table'[j] = table[j]
      BY <1>1, <2>2, <2>8 DEF AccTable
    <2>10. \A j \in DeviceIDs : j # i /\ table[j].status = "approved" => j \in blessed'
      BY <2>8, <2>9 DEF AccInv, ApprovedAreBlessed
    <2>12. WritesRow(ok, i, entry, N)
      BY <1>2, <2>4, <2>5, <2>6, <2>8, <2>10 DEF WritesRow
    <2>11. RowsKept'
      BY <2>2, <2>4, <2>5, <2>12, RowWritten
    <2>. QED BY <2>3, <2>11
  <1>. QED BY <1>3, <1>4, <1>5

\* decideDevice and removeDevice.
LEMMA DecideRows ==
  ASSUME AccInv, NEW i \in DeviceIDs, NEW ok \in BOOLEAN, NEW st \in {"approved", "denied"},
         decideDevice(i, st, ok)
  PROVE  RowsKept'
  <1> DEFINE M == Loaded(ok)
             N == [M EXCEPT !.status[i] = st, !.seen = @ \cup {i}]
             entry == [table[i] EXCEPT !.status = st]
  <1>1. M \in AccMemory /\ table \in AccTable
    BY LoadedFacts DEF AccInv, AccShape
  <1>2. N \in AccMemory /\ N.loaded = M.loaded /\ N.status = [M.status EXCEPT ![i] = st]
    <2>1. [M.status EXCEPT ![i] = st] \in [DeviceIDs -> Statuses] /\ M.seen \cup {i} \in SUBSET DeviceIDs
      BY <1>1 DEF AccMemory, Statuses
    <2>2. N = [M EXCEPT !.status = [M.status EXCEPT ![i] = st], !.seen = M.seen \cup {i}]
      BY <1>1 DEF AccMemory
    <2> HIDE DEF N, M
    <2> QED BY <1>1, <2>1, <2>2 DEF AccMemory
  <1>3. entry \in TableRow /\ entry.status = st
    BY <1>1 DEF AccTable, TableRow, Statuses
  <1>4. /\ table' = [table EXCEPT ![i] = entry] /\ memory' = N /\ (unread => unread')
        /\ blessed' = IF st = "approved" THEN blessed \cup {i} ELSE blessed \ {i}
    BY <1>1 DEF decideDevice, Reads, AccTable
  <1>5. \A j \in DeviceIDs : j # i /\ table[j].status = "approved" => j \in blessed'
    BY <1>4 DEF AccInv, ApprovedAreBlessed
  <1> HIDE DEF N, entry
  <1>6. WritesRow(ok, i, entry, N)
    BY <1>2, <1>3, <1>4, <1>5 DEF WritesRow
  <1>. QED BY <1>2, <1>3, <1>6, RowWritten

LEMMA RemoveRows ==
  ASSUME AccInv, NEW i \in DeviceIDs, NEW ok \in BOOLEAN, removeDevice(i, ok)
  PROVE  RowsKept'
  <1> DEFINE M == Loaded(ok)
             N == [M EXCEPT !.status[i] = "none", !.seen = @ \ {i}]
             entry == [status |-> "none", addr |-> NoID]
  <1>1. M \in AccMemory
    BY LoadedFacts
  <1>2. N \in AccMemory /\ N.loaded = M.loaded /\ N.status = [M.status EXCEPT ![i] = "none"]
    BY <1>1 DEF AccMemory, Statuses
  <1>3. entry \in TableRow /\ entry.status = "none" /\ entry.addr = NoID
    BY DEF TableRow, Statuses
  <1>4. /\ table' = [table EXCEPT ![i] = entry] /\ memory' = N /\ (unread => unread')
        /\ blessed' = blessed \ {i}
    BY DEF removeDevice, Reads
  <1>5. \A j \in DeviceIDs : j # i /\ table[j].status = "approved" => j \in blessed'
    BY <1>4 DEF AccInv, ApprovedAreBlessed
  <1> HIDE DEF N, entry
  <1>6. WritesRow(ok, i, entry, N)
    BY <1>2, <1>3, <1>4, <1>5 DEF WritesRow
  <1>. QED BY <1>2, <1>3, <1>6, RowWritten

-----------------------------------------------------------------------------
(* The host's requests.                                                    *)

\* Nothing of the host's moves, and what memory read is what was saved.
LEMMA HostQuiet ==
  ASSUME AccInv, NEW ok \in BOOLEAN,
         memory'.loaded => Loaded(ok).loaded /\ memory'.mode = Loaded(ok).mode,
         UNCHANGED <<setting, accToken, listener, again, tab, astray>>
  PROVE  HostKept'
  <1>1. memory'.loaded => memory'.mode = setting.mode \/ HostBusy({"mode"})
    BY LoadedFacts DEF AccInv, InForce
  <1>2. InForce'
    BY <1>1 DEF AccInv, InForce, HostBusy
  <1>. QED BY <1>2 DEF AccInv, AccShape, HostKept, TabSays

\* Steps of devices, and of the host's decisions about them.
LEMMA DeviceStep ==
  ASSUME AccInv, NEW d \in Devices,
         \/ \E nav, ok \in BOOLEAN : Request(d, nav, ok)
         \/ RequestUnsaved(d) \/ Dial(d) \/ Pair(d) \/ DropCookie(d)
  PROVE  RowsKept' /\ phone' \in [Devices -> AccPhone]
  <1>. USE DEF RowsKept, EmptyRows, ApprovedAreBlessed, MemoryIsTable, PendingBounded
  <1>1. ASSUME NEW nav \in BOOLEAN, NEW ok \in BOOLEAN, Request(d, nav, ok)
        PROVE  RowsKept' /\ phone' \in [Devices -> AccPhone]
    BY <1>1, AdmitRows DEF Request
  <1>2. CASE RequestUnsaved(d)
    <2>1. memory' = Loaded(TRUE) /\ UNCHANGED <<table, phone, blessed, unread>>
      BY <1>2 DEF RequestUnsaved
    <2>2. RowsKept'
      BY <2>1, LoadedFacts, TakeUp
    <2>. QED BY <2>1, <2>2 DEF AccInv, AccShape
  <1>3. CASE Dial(d)
    BY <1>3 DEF Dial, AccInv, AccShape, AccPhone
  <1>4. CASE Pair(d)
    BY <1>4 DEF Pair, AccInv, AccShape, AccPhone
  <1>5. CASE DropCookie(d)
    BY <1>5 DEF DropCookie, AccInv, AccShape, AccPhone
  <1>. QED BY <1>1, <1>2, <1>3, <1>4, <1>5

LEMMA DeviceHost ==
  ASSUME AccInv, NEW d \in Devices,
         \/ \E nav, ok \in BOOLEAN : Request(d, nav, ok)
         \/ RequestUnsaved(d) \/ Dial(d) \/ Pair(d) \/ DropCookie(d)
  PROVE  HostKept'
  <1>1. ASSUME NEW nav \in BOOLEAN, NEW ok \in BOOLEAN, Request(d, nav, ok)
        PROVE  HostKept'
    <2>1. Loaded(ok) \in AccMemory
      BY LoadedFacts
    <2>2. memory'.loaded => Loaded(ok).loaded /\ memory'.mode = Loaded(ok).mode
      BY <1>1, <2>1 DEF Request, admit, requestAccess, AccMemory
    <2>. QED BY <1>1, <2>2, HostQuiet DEF Request
  <1>2. CASE RequestUnsaved(d)
    BY <1>2, HostQuiet, LoadedFacts DEF RequestUnsaved
  <1>3. CASE Dial(d) \/ Pair(d) \/ DropCookie(d)
    BY <1>3, HostQuiet, LoadedFacts DEF Dial, Pair, DropCookie
  <1>. QED BY <1>1, <1>2, <1>3

LEMMA DecideStep ==
  ASSUME AccInv, NEW i \in DeviceIDs, NEW ok \in BOOLEAN,
         removeDevice(i, ok) \/ \E st \in {"approved", "denied"} : decideDevice(i, st, ok)
  PROVE  AccInv'
  <1>1. Loaded(ok) \in AccMemory
    BY LoadedFacts
  <1>2. memory'.loaded => Loaded(ok).loaded /\ memory'.mode = Loaded(ok).mode
    BY <1>1 DEF removeDevice, decideDevice, AccMemory
  <1>3. HostKept' /\ phone' = phone
    BY <1>2, HostQuiet DEF removeDevice, decideDevice
  <1>4. RowsKept'
    BY DecideRows, RemoveRows
  <1>. QED BY <1>3, <1>4, AccInvParts DEF AccInv, AccShape, RowsKept, HostKept

\* The requests of the one page with Settings open, step by step.
LEMMA HostStep ==
  ASSUME AccInv, \A g, h \in HostTabs : g = h, NEW h \in HostTabs,
         \/ SaveToken(h) \/ UseToken(h) \/ (\E m \in Modes : SaveMode(h, m))
         \/ (\E ok \in BOOLEAN : UseMode(h, ok))
         \/ (\E a \in Nets : Rebind(h, a) \/ RebindCloses(h, a))
         \/ RebindListens(h) \/ RebindFails(h) \/ SaveLAN(h) \/ SaveLANFails(h)
  PROVE  HostKept'
  <1>. USE DEF HostBusy
  <1>1. HostKept
    BY AccInvParts
  <1>2. tab \in [HostTabs -> {[op |-> tab[g].op, val |-> tab[g].val] : g \in HostTabs}]
    BY <1>1 DEF HostKept
  <1>3. ASSUME NEW r, tab' = [tab EXCEPT ![h] = r], r = [op |-> r.op, val |-> r.val], r.op \in TabOps,
               setting' \in [mode : Modes, token : Nat, lan : Nets], accToken' \in Nat,
               r.op = "mode" => r.val = setting'.mode,
               r.op = "token" => r.val = setting'.token,
               r.op \in {"listen", "saved"} => r.val \in Nets,
               accToken' = setting'.token \/ r.op = "token",
               memory'.loaded => memory'.mode = setting'.mode \/ r.op = "mode",
               again' = NotAgain => astray' \/ listener' = setting'.lan \/ r.op \in {"listen", "saved"}
        PROVE  HostKept'
    <2>1. tab'[h] = r /\ \A g \in HostTabs : g = h
      BY <1>2, <1>3
    <2>2. tab' = [g \in HostTabs |-> r]
      BY <1>2, <1>3, <2>1
    <2>3. tab' = [g \in HostTabs |-> [op |-> tab'[g].op, val |-> tab'[g].val]]
      BY <1>3, <2>2
    <2>4. TabSays' /\ InForce'
      BY <1>3, <2>1 DEF TabSays, InForce
    <2>. QED BY <1>3, <2>1, <2>3, <2>4 DEF HostKept
  <1>4. \A g \in HostTabs : g = h /\ tab[h] = [op |-> tab[h].op, val |-> tab[h].val]
    BY <1>1 DEF HostKept
  <1>5. Idle = [op |-> Idle.op, val |-> Idle.val] /\ Idle.op = "idle" /\ "idle" \in TabOps
    BY DEF Idle, TabOps
  <1>6. /\ setting \in [mode : Modes, token : Nat, lan : Nets] /\ accToken \in Nat
        /\ tab[h].op = "mode" => tab[h].val = setting.mode
        /\ tab[h].op = "token" => tab[h].val = setting.token
        /\ tab[h].op \in {"listen", "saved"} => tab[h].val \in Nets
        /\ accToken = setting.token \/ tab[h].op = "token"
        /\ memory.loaded => memory.mode = setting.mode \/ tab[h].op = "mode"
        /\ again = NotAgain => astray \/ listener = setting.lan \/ tab[h].op \in {"listen", "saved"}
    BY <1>1, <1>4 DEF HostKept, TabSays, InForce
  <1>7. CASE SaveToken(h)
    <2>1. [setting EXCEPT !.token = setting.token + 1] \in [mode : Modes, token : Nat, lan : Nets]
      BY <1>6
    <2>. QED BY <1>3, <1>6, <1>7, <2>1 DEF SaveToken, Begins, TabOps
  <1>8. CASE UseToken(h)
    BY <1>3, <1>5, <1>6, <1>8 DEF UseToken, Finishes
  <1>9. ASSUME NEW m \in Modes, SaveMode(h, m) PROVE HostKept'
    BY <1>3, <1>6, <1>9 DEF SaveMode, Begins, TabOps
  <1>10. ASSUME NEW ok \in BOOLEAN, UseMode(h, ok) PROVE HostKept'
    <2>1. memory'.mode = setting.mode
      BY <1>6, <1>10, LoadedFacts DEF UseMode, Finishes, AccMemory
    <2>. QED BY <1>3, <1>5, <1>6, <1>10, <2>1 DEF UseMode, Finishes
  <1>11. ASSUME NEW a \in Nets, Rebind(h, a) \/ RebindCloses(h, a) PROVE HostKept'
    BY <1>3, <1>6, <1>11 DEF Rebind, RebindCloses, Begins, TabOps
  <1>12. CASE RebindListens(h)
    <2>1. tab' = [tab EXCEPT ![h] = [op |-> "saved", val |-> tab[h].val]]
      <3>1. PICK o, v : tab[h] = [op |-> o, val |-> v]
        BY <1>4
      <3>2. [tab[h] EXCEPT !.op = "saved"] = [op |-> "saved", val |-> tab[h].val]
        BY <3>1
      <3>3. tab' = [tab EXCEPT ![h] = [tab[h] EXCEPT !.op = "saved"]]
        BY <1>12 DEF RebindListens
      <3>. QED BY <3>2, <3>3
    <2>. QED BY <1>3, <1>6, <1>12, <2>1 DEF RebindListens, TabOps
  <1>13. CASE RebindFails(h)
    BY <1>3, <1>5, <1>6, <1>13 DEF RebindFails, Finishes
  <1>14. CASE SaveLAN(h)
    <2> DEFINE S == [setting EXCEPT !.lan = tab[h].val]
    <2>1. S \in [mode : Modes, token : Nat, lan : Nets] /\ S.mode = setting.mode /\ S.token = setting.token
          /\ S.lan = tab[h].val
      BY <1>6, <1>14 DEF SaveLAN, Finishes
    <2>2. /\ setting' = S /\ tab' = [tab EXCEPT ![h] = Idle] /\ tab[h].op = "saved"
          /\ astray' = (listener # tab[h].val) /\ UNCHANGED <<memory, accToken, listener, again>>
      BY <1>14 DEF SaveLAN, Finishes
    <2> HIDE DEF S
    <2>. QED BY <1>3, <1>5, <1>6, <2>1, <2>2
  <1>15. CASE SaveLANFails(h)
    BY <1>3, <1>5, <1>6, <1>15 DEF SaveLANFails, Finishes
  <1>. QED BY <1>7, <1>8, <1>9, <1>10, <1>11, <1>12, <1>13, <1>14, <1>15

LEMMA HostRows ==
  ASSUME AccInv, NEW h \in HostTabs,
         \/ SaveToken(h) \/ UseToken(h) \/ (\E m \in Modes : SaveMode(h, m))
         \/ (\E ok \in BOOLEAN : UseMode(h, ok))
         \/ (\E a \in Nets : Rebind(h, a) \/ RebindCloses(h, a))
         \/ RebindListens(h) \/ RebindFails(h) \/ SaveLAN(h) \/ SaveLANFails(h)
  PROVE  RowsKept' /\ phone' \in [Devices -> AccPhone]
  <1>1. ASSUME NEW ok \in BOOLEAN, UseMode(h, ok) PROVE RowsKept' /\ phone' = phone
    <2> DEFINE N == [Loaded(ok) EXCEPT !.mode = tab[h].val]
    <2>1. tab[h].val \in Modes
      BY <1>1 DEF UseMode, Finishes, AccInv, AccShape, TabSays
    <2>2. N \in AccMemory /\ N.loaded = Loaded(ok).loaded /\ N.status = Loaded(ok).status
      BY <2>1, LoadedFacts DEF AccMemory
    <2>3. memory' = N /\ UNCHANGED <<table, blessed, phone>> /\ (unread => unread')
      BY <1>1 DEF UseMode, Reads
    <2> HIDE DEF N
    <2>. QED BY <2>2, <2>3, TakeUp
  <1>2. CASE UNCHANGED <<table, memory, phone, blessed, unread>>
    BY <1>2 DEF AccInv, AccShape, RowsKept, EmptyRows, ApprovedAreBlessed, MemoryIsTable, PendingBounded
  <1>. QED BY <1>1, <1>2 DEF SaveToken, UseToken, SaveMode, Rebind, RebindCloses, RebindListens,
         RebindFails, SaveLAN, SaveLANFails, AccInv, AccShape

\* The listener's own failures, the passing of time and a restart.
LEMMA ServerStep ==
  ASSUME AccInv,
         \/ ServeFails \/ StillCurrent \/ (\E ok \in BOOLEAN : ListenAgain(ok)) \/ AccRestart
         \/ \E i \in DeviceIDs : Lapse(i)
  PROVE  AccInv'
  <1>. USE DEF AccInv, AccShape, EmptyRows, ApprovedAreBlessed, MemoryIsTable, PendingBounded, TabSays,
               InForce, HostBusy
  <1>1. CASE ServeFails
    BY <1>1 DEF ServeFails, NotAgain
  <1>2. CASE StillCurrent
    BY <1>2 DEF StillCurrent, NotAgain
  <1>3. ASSUME NEW ok \in BOOLEAN, ListenAgain(ok) PROVE AccInv'
    BY <1>3 DEF ListenAgain
  <1>4. CASE AccRestart
    <2>1. memory' \in AccMemory /\ ~memory'.loaded
      BY <1>4 DEF AccRestart, Unloaded, NoStatus, AccMemory, Statuses, Modes
    <2>2. phone' \in [Devices -> AccPhone]
      BY <1>4 DEF AccRestart, AccPhone
    <2>3. \A h \in HostTabs : tab'[h].op = "idle"
      BY <1>4 DEF AccRestart, Idle
    <2>4. tab' = [h \in HostTabs |-> [op |-> tab'[h].op, val |-> tab'[h].val]]
      BY <1>4 DEF AccRestart, Idle
    <2>5. UNCHANGED <<table, setting, blessed, unread>> /\ accToken' = setting.token /\ listener' = setting.lan
      BY <1>4 DEF AccRestart
    <2>6. AccShape'
      BY <2>1, <2>2, <2>3, <2>4, <2>5 DEF TabOps
    <2>. QED BY <2>1, <2>3, <2>5, <2>6
  <1>5. ASSUME NEW i \in DeviceIDs, Lapse(i) PROVE AccInv'
    <2>1. /\ memory' \in AccMemory /\ memory'.loaded = memory.loaded /\ memory'.mode = memory.mode
          /\ memory'.status = memory.status
      <3>1. memory \in AccMemory /\ memory' = [memory EXCEPT !.seen = memory.seen \ {i}]
        BY <1>5 DEF Lapse
      <3>2. memory.seen \ {i} \in SUBSET DeviceIDs
        BY <3>1 DEF AccMemory
      <3> QED BY <3>1, <3>2 DEF AccMemory
    <2>2. UNCHANGED <<table, setting, accToken, listener, again, phone, tab, blessed, unread, astray>>
      BY <1>5 DEF Lapse
    <2>3. AccShape' /\ EmptyRows' /\ ApprovedAreBlessed'
      BY <2>1, <2>2
    <2>4. MemoryIsTable' /\ PendingBounded'
      BY <2>1, <2>2
    <2>5. TabSays' /\ InForce'
      BY <2>1, <2>2
    <2>. QED BY <2>3, <2>4, <2>5
  <1>. QED BY <1>1, <1>2, <1>3, <1>4, <1>5

-----------------------------------------------------------------------------
(* access.go, approval.go: with one page of the host at a time, memory, rows and settings agree,
   and whoever is approved was approved by the host. *)
THEOREM AccInvariant == (\A g, h \in HostTabs : g = h) => (AccSpec => []AccInv)
<1> SUFFICES ASSUME \A g, h \in HostTabs : g = h PROVE AccSpec => []AccInv
  OBVIOUS
<1>1. AccInit => AccInv
  <2> SUFFICES ASSUME AccInit PROVE AccInv
    OBVIOUS
  <2>1. table \in AccTable /\ \A i \in DeviceIDs : table[i].status = "none" /\ table[i].addr = NoID
    BY DEF AccInit, AccTable, Statuses
  <2>2. memory \in AccMemory /\ ~memory.loaded
    BY DEF AccInit, Unloaded, NoStatus, AccMemory, Statuses, Modes
  <2>3. /\ setting \in [mode : Modes, token : Nat, lan : Nets] /\ accToken = setting.token
        /\ listener = setting.lan
    BY DEF AccInit, Modes, Nets
  <2>4. phone \in [Devices -> AccPhone]
    BY DEF AccInit, AccPhone
  <2>5. /\ tab = [h \in HostTabs |-> [op |-> tab[h].op, val |-> tab[h].val]]
        /\ \A h \in HostTabs : tab[h].op = "idle"
    BY DEF AccInit, Idle
  <2>6. AccShape /\ EmptyRows /\ ApprovedAreBlessed /\ MemoryIsTable /\ TabSays /\ InForce
    BY <2>1, <2>2, <2>3, <2>4, <2>5 DEF AccShape, EmptyRows, ApprovedAreBlessed, MemoryIsTable, TabSays,
      InForce, TabOps
  <2>7. PendingBounded
    <3>1. {i \in DeviceIDs : table[i].status = "pending"} = {}
      BY <2>1
    <3>. QED BY <3>1, FS_EmptySet, PendingAssumption DEF PendingBounded
  <2>. QED BY <2>6, <2>7 DEF AccInv
<1>2. AccInv /\ [AccNext]_accVars => AccInv'
  <2> SUFFICES ASSUME AccInv, [AccNext]_accVars PROVE AccInv'
    OBVIOUS
  <2>1. ASSUME RowsKept', HostKept', phone' \in [Devices -> AccPhone] PROVE AccInv'
    BY <2>1 DEF AccInv, AccShape, RowsKept, HostKept
  <2>2. ASSUME NEW d \in Devices,
               \/ \E nav, ok \in BOOLEAN : Request(d, nav, ok)
               \/ RequestUnsaved(d) \/ Dial(d) \/ Pair(d) \/ DropCookie(d)
        PROVE  AccInv'
    BY <2>1, <2>2, DeviceStep, DeviceHost
  <2>3. ASSUME NEW i \in DeviceIDs,
               \E ok \in BOOLEAN : removeDevice(i, ok) \/ \E s \in {"approved", "denied"} : decideDevice(i, s, ok)
        PROVE  AccInv'
    BY <2>3, DecideStep
  <2>4. ASSUME NEW h \in HostTabs,
               \/ SaveToken(h) \/ UseToken(h) \/ (\E m \in Modes : SaveMode(h, m))
               \/ (\E ok \in BOOLEAN : UseMode(h, ok))
               \/ (\E a \in Nets : Rebind(h, a) \/ RebindCloses(h, a))
               \/ RebindListens(h) \/ RebindFails(h) \/ SaveLAN(h) \/ SaveLANFails(h)
        PROVE  AccInv'
    BY <2>1, <2>4, HostStep, HostRows
  <2>5. CASE UNCHANGED accVars
    BY <2>5 DEF accVars, AccInv, AccShape, EmptyRows, ApprovedAreBlessed, MemoryIsTable, PendingBounded,
      TabSays, InForce, HostBusy
  <2>. QED BY <2>2, <2>3, <2>4, <2>5, ServerStep DEF AccNext, Nets
<1>. QED BY <1>1, <1>2, PTL DEF AccSpec

\* A request that is served.
LEMMA EnteredBlessed ==
  ASSUME AccInv, [AccNext]_accVars, letIn' # letIn
  PROVE  /\ letIn'.token = setting.token \/ \E h \in HostTabs : tab[h].op = "token"
         /\ Loaded(TRUE).mode = "off" \/ letIn'.id \in blessed
  <1>1. PICK d \in Devices, nav \in BOOLEAN, ok \in BOOLEAN : Request(d, nav, ok)
    BY DEF AccNext, accVars, RequestUnsaved, Dial, Pair, DropCookie, Lapse, removeDevice, decideDevice, SaveToken,
      UseToken, SaveMode, UseMode, Rebind, RebindCloses, RebindListens, RebindFails, SaveLAN, SaveLANFails,
      ServeFails, StillCurrent, ListenAgain, AccRestart
  <1>2. /\ MayEnter(Loaded(ok), phone[d].id) /\ letIn'.id = phone[d].id /\ letIn'.token = accToken
    BY <1>1 DEF Request, admit
  <1>3. letIn'.token = setting.token \/ \E h \in HostTabs : tab[h].op = "token"
    BY <1>2 DEF AccInv, InForce, HostBusy
  <1>4. Loaded(ok).loaded
    <2>1. phone[d].id \in DeviceIDs \cup {NoID}
      BY DEF AccInv, AccShape, AccPhone
    <2>. QED BY <1>2, <2>1, LoadedFacts DEF MayEnter
  <1>5. Loaded(ok) = Loaded(TRUE) /\ \A i \in DeviceIDs : Loaded(ok).status[i] = table[i].status
    BY <1>4, LoadedFacts
  <1>6. Loaded(TRUE).mode = "off" \/ phone[d].id \in blessed
    <2>1. phone[d].id \in DeviceIDs \cup {NoID}
      BY DEF AccInv, AccShape, AccPhone
    <2>. QED BY <1>2, <1>5, <2>1 DEF MayEnter, AccInv, ApprovedAreBlessed
  <1>. QED BY <1>2, <1>3, <1>6

\* A row is made for the device that asks, and not for a denied one.
LEMMA DeniedGetsNoRow ==
  ASSUME AccInv, [AccNext]_accVars, NEW d \in Devices, NEW i \in DeviceIDs,
         deniedAddr(d), phone[d].id = NoID, table[i].status = "none"
  PROVE  table'[i].addr # d
  <1>1. table \in AccTable /\ table[i].addr = NoID /\ NoID # d
    BY DevicesAssumption DEF AccInv, AccShape, EmptyRows
  <1>2. CASE table' = table
    BY <1>1, <1>2
  <1>3. ASSUME NEW j \in DeviceIDs, NEW ok \in BOOLEAN,
               removeDevice(j, ok) \/ \E s \in {"approved", "denied"} : decideDevice(j, s, ok)
        PROVE  table'[i].addr # d
    BY <1>1, <1>3 DEF removeDevice, decideDevice, AccTable
  <1>4. ASSUME NEW e \in Devices, NEW nav \in BOOLEAN, NEW ok \in BOOLEAN, Request(e, nav, ok), table' # table
        PROVE  table'[i].addr # d
    <2>1. ~(phone[e].id = NoID /\ deniedAddr(e))
      BY <1>4 DEF Request, admit, requestAccess
    <2>2. e # d
      BY <2>1
    <2>3. \E j \in DeviceIDs : table' = [table EXCEPT ![j] = [status |-> "pending", addr |-> e]]
      <3>1. phone[e].id \in DeviceIDs \cup {NoID}
        BY DEF AccInv, AccShape, AccPhone
      <3>2. phone[e].id = NoID => AnyFresh
        BY <1>4 DEF Request, admit, requestAccess
      <3>3. (IF phone[e].id = NoID THEN Fresh ELSE phone[e].id) \in DeviceIDs
        BY <3>1, <3>2 DEF Fresh, AnyFresh
      <3>4. table' = [table EXCEPT ![IF phone[e].id = NoID THEN Fresh ELSE phone[e].id] =
                        [status |-> "pending", addr |-> e]]
        BY <1>4 DEF Request, admit, requestAccess
      <3>. QED BY <3>3, <3>4
    <2>. QED BY <1>1, <2>2, <2>3 DEF AccTable
  <1>. QED BY <1>2, <1>3, <1>4
       DEF AccNext, accVars, RequestUnsaved, Dial, Pair, DropCookie, Lapse, SaveToken,
           UseToken, SaveMode, UseMode, Rebind, RebindCloses, RebindListens, RebindFails, SaveLAN, SaveLANFails,
           ServeFails, StillCurrent, ListenAgain, AccRestart

(* access.go guard, approval.go admit, requestAccess and decideDevice, main.go bind: with one page
   of the host at a time, memory answers what the table and the settings say, the rows that wait
   are bounded, only devices the host approved are served, and a denied one gets no new row. *)
THEOREM AccessStaysSafe == (\A g, h \in HostTabs : g = h) => (AccSpec => AccessSafe)
<1> SUFFICES ASSUME \A g, h \in HostTabs : g = h PROVE AccSpec => AccessSafe
  OBVIOUS
<1>1. AccSpec => []AccInv
  BY AccInvariant
<1>2. AccInv => AccStateOK
  BY DEF AccInv, AccStateOK, SettingsInForce, HostAtRest, InForce, HostBusy
<1>3. AccInv /\ [AccNext]_accVars =>
        [letIn' # letIn => /\ letIn'.token = setting.token \/ \E h \in HostTabs : tab[h].op = "token"
                           /\ Loaded(TRUE).mode = "off" \/ letIn'.id \in blessed]_accVars
  BY EnteredBlessed
<1>4. AccInv /\ [AccNext]_accVars =>
        [\A d \in Devices, i \in DeviceIDs :
           /\ ~unread' /\ deniedAddr(d) /\ phone[d].id = NoID
           => ~(table[i].status = "none" /\ table'[i].addr = d)]_accVars
  BY DeniedGetsNoRow
<1>. QED BY <1>1, <1>2, <1>3, <1>4, PTL DEF AccSpec, AccessSafe, OnlyBlessedEnter, DeniedStaysOut
-----------------------------------------------------------------------------
(* The cache *)

Absence == [count : 0 .. 2, age : 0 .. ForgetAge]
\* What an evictor has left to delete are torrents, none with a file it may not take.
Spares(e) ==
  /\ e = [on |-> "evict", order |-> e.order, after |-> e.after, target |-> e.target,
          freed |-> e.freed, safe |-> e.safe]
  /\ e.order \in Seq(PackTorrents)
  /\ \A i \in DOMAIN e.order : \A f \in CacheFiles : PackOf[f] = e.order[i] => f \notin e.safe
\* While the engine loads, no absence is old: both have counted the same ticks.
Young == \A t \in PackTorrents : lib.loading > 0 => absent[t].age + lib.loading <= LoadTime
CacheShape ==
  /\ row \in [CacheFiles -> Row \cup {NoRow}]
  /\ lib \in [held : SUBSET PackTorrents, live : SUBSET PackTorrents, loading : 0 .. LoadTime]
  /\ lib.live \subseteq lib.held
  /\ absent \in [PackTorrents -> Absence]
  /\ \A t \in PackTorrents : absent[t].count = 0 => absent[t].age = 0
  /\ ondisk \subseteq CacheFiles
Evictors ==
  /\ \/ sweep = IdleEvictor \/ sweep = [IdleEvictor EXCEPT !.on = "usage"]
     \/ sweep.on = "evict" /\ Spares(sweep)
  /\ \/ user = IdleEvictor
     \/ user.on = "evict" /\ user.order # <<>> /\ Spares(user)
CacheInv == CacheShape /\ Young /\ Evictors

\* What every step of the cache keeps: no file is lost to who may not take it.
Spared ==
  \A f \in CacheFiles : row[f] # NoRow /\ row'[f] = NoRow =>
    /\ user' = user => f \notin sweep.safe
    /\ sweep' = sweep => f \notin user.safe
Forgets ==
  sweep.on = "idle" /\ sweep'.on = "usage" =>
    \A f \in CacheFiles : row[f] # NoRow /\ row'[f] = NoRow =>
      /\ PackOf[f] \notin lib.held
      /\ ~(row[f].kept /\ f \in ondisk)
CacheKept == CacheInv' /\ Spared /\ Forgets

LEMMA RowIs ==
  ASSUME NEW r \in Row
  PROVE  r # NoRow
BY DEF Row, NoRow

LEMMA RowPlayed ==
  ASSUME NEW r \in Row, NEW p \in BOOLEAN, NEW l \in 1 .. 3
  PROVE  [r EXCEPT !.pinned = p, !.last = l] \in Row
<1>1. [r EXCEPT !.pinned = p] \in Row
  BY DEF Row
<1>2. [[r EXCEPT !.pinned = p] EXCEPT !.last = l] \in Row
  BY <1>1 DEF Row
<1> QED BY <1>2

LEMMA RowMeasured ==
  ASSUME NEW r \in Row, NEW b \in 0 .. 1, NEW c \in BOOLEAN
  PROVE  [r EXCEPT !.bytes = b, !.complete = c] \in Row
<1>1. [r EXCEPT !.bytes = b] \in Row
  BY DEF Row
<1>2. [[r EXCEPT !.bytes = b] EXCEPT !.complete = c] \in Row
  BY <1>1 DEF Row
<1> QED BY <1>2

LEMMA IdleIs ==
  /\ IdleEvictor.on = "idle" /\ IdleEvictor.safe = {} /\ IdleEvictor.order = <<>>
  /\ [IdleEvictor EXCEPT !.on = "usage"].on = "usage" /\ [IdleEvictor EXCEPT !.on = "usage"].safe = {}
BY DEF IdleEvictor

\* An order that is read on is a shorter one of the same torrents.
LEMMA ReadsOn ==
  ASSUME NEW e, Spares(e), e.order # <<>>, NEW s, s = Tail(e.order)
  PROVE  /\ Head(e.order) \in PackTorrents /\ s \in Seq(PackTorrents) /\ s # e.order
         /\ \A f \in CacheFiles : PackOf[f] = Head(e.order) => f \notin e.safe
         /\ \A i \in DOMAIN s : \A f \in CacheFiles : PackOf[f] = s[i] => f \notin e.safe
<1>1. e.order \in Seq(PackTorrents) /\ Len(e.order) \in Nat /\ Len(e.order) > 0
  BY DEF Spares
<1>2. Len(s) = Len(e.order) - 1 /\ s \in Seq(PackTorrents) /\ s # e.order
  <2> DEFINE o == e.order
  <2>1. o \in Seq(PackTorrents) /\ o # <<>>
    BY <1>1
  <2> HIDE DEF o
  <2>2. Tail(o) \in Seq(PackTorrents) /\ Len(Tail(o)) = Len(o) - 1
    BY <2>1, HeadTailProperties
  <2>3. Len(o) \in Nat
    BY <2>1
  <2>4. ASSUME Tail(o) = o PROVE FALSE
    <3>1. Len(o) = Len(o) - 1
      BY <2>2, <2>4
    <3> QED BY <2>3, <3>1
  <2> QED BY <2>2, <2>4 DEF o
<1>3. Head(e.order) = e.order[1] /\ 1 \in DOMAIN e.order
  BY <1>1
<1>4. \A i \in DOMAIN s : s[i] = e.order[i + 1] /\ i + 1 \in DOMAIN e.order
  BY <1>1, <1>2
<1> QED BY <1>1, <1>2, <1>3, <1>4 DEF Spares

LEMMA SetToSeqIs ==
  ASSUME NEW S, IsFiniteSet(S)
  PROVE  /\ Ext!SetToSeq(S) \in [1..Cardinality(S) -> S]
         /\ \A i, j \in DOMAIN Ext!SetToSeq(S) : Ext!SetToSeq(S)[i] = Ext!SetToSeq(S)[j] => i = j
<1>1. PICK f \in [1..Cardinality(S) -> S] : \A i, j \in 1..Cardinality(S) : f[i] = f[j] => i = j
  <2>1. ExistsBijection(1..Cardinality(S), S)
    BY FS_CardinalityType
  <2> QED BY <2>1 DEF ExistsBijection, Bijection, Injection, IsInjective
<1>2. Ext!Cardinality(S) = Cardinality(S)
  BY DEF Ext!Cardinality, Cardinality
<1>3. Ext!SetToSeq(S) = CHOOSE g \in [1..Cardinality(S) -> S] : \A i, j \in DOMAIN g : g[i] = g[j] => i = j
  BY <1>2, Zenon DEF Ext!SetToSeq, Ext!IsInjective
<1>4. \E g \in [1..Cardinality(S) -> S] : \A i, j \in DOMAIN g : g[i] = g[j] => i = j
  BY <1>1
<1> QED BY <1>3, <1>4, Zenon

\* A step that leaves the rows on record and the evictors alone.
LEMMA QuietStep ==
  ASSUME CacheInv, CacheShape', Young', UNCHANGED <<sweep, user>>,
         \A f \in CacheFiles : row[f] # NoRow => row'[f] # NoRow
  PROVE  CacheKept
<1>1. Evictors'
  BY DEF CacheInv, Evictors, Spares
<1>2. Spared
  BY DEF Spared
<1>3. Forgets
  BY IdleIs DEF Forgets, CacheInv, Evictors
<1> QED BY <1>1, <1>2, <1>3 DEF CacheKept, CacheInv

LEMMA CacheInvInit == CacheInit => CacheInv
<1> SUFFICES ASSUME CacheInit PROVE CacheInv
  OBVIOUS
<1>1. CacheShape
  BY CacheAssumption DEF CacheInit, CacheShape, Absence, NoAbsence
<1>2. Young
  BY DEF CacheInit, Young
<1> QED BY <1>1, <1>2 DEF CacheInit, CacheInv, Evictors

LEMMA RecordStep ==
  ASSUME CacheInv, NEW f \in CacheFiles, RecordFile(f)
  PROVE  CacheKept
<1>1. NewRow \in Row /\ PackOf[f] \in PackTorrents
  BY CacheAssumption DEF NewRow, Row
<1>2. row' \in [CacheFiles -> Row \cup {NoRow}] /\ \A g \in CacheFiles : row[g] # NoRow => row'[g] # NoRow
  <2>1. ASSUME NEW g \in CacheFiles PROVE row'[g] \in Row \cup {NoRow} /\ (row[g] # NoRow => row'[g] # NoRow)
    <3>1. CASE g # f
      BY <3>1 DEF CacheInv, CacheShape, RecordFile
    <3>2. CASE g = f /\ row[f] = NoRow
      BY <1>1, <3>2, RowIs DEF CacheInv, CacheShape, RecordFile
    <3>3. CASE g = f /\ row[f] # NoRow
      <4>1. row'[g] = [row[f] EXCEPT !.last = 3] /\ row[f] \in Row
        BY <3>3 DEF CacheInv, CacheShape, RecordFile
      <4>2. row'[g] \in Row
        BY <4>1 DEF Row
      <4> QED BY <4>2, RowIs
    <3> QED BY <3>1, <3>2, <3>3
  <2> QED BY <2>1 DEF CacheInv, CacheShape, RecordFile
<1>3. CacheShape'
  BY <1>1, <1>2 DEF CacheInv, CacheShape, RecordFile
<1>4. Young'
  BY DEF CacheInv, CacheShape, Young, RecordFile
<1> QED BY <1>2, <1>3, <1>4, QuietStep DEF RecordFile

LEMMA ArriveStep ==
  ASSUME CacheInv, NEW f \in CacheFiles, FileArrives(f)
  PROVE  CacheKept
<1>1. CacheShape'
  BY DEF CacheInv, CacheShape, FileArrives
<1>2. Young'
  BY DEF CacheInv, Young, FileArrives
<1> QED BY <1>1, <1>2, QuietStep DEF FileArrives

\* A step that gives some rows new columns.
LEMMA RowsStep ==
  ASSUME CacheInv, NEW R, row' = [g \in CacheFiles |-> R[g]],
         \A g \in CacheFiles : row[g] \in Row => R[g] \in Row,
         \A g \in CacheFiles : row[g] = NoRow => R[g] = NoRow,
         UNCHANGED <<lib, ondisk, absent, sweep, user>>
  PROVE  CacheKept
<1>1. \A g \in CacheFiles : row[g] \in Row \/ row[g] = NoRow
  BY DEF CacheInv, CacheShape
<1>2. \A g \in CacheFiles : row[g] # NoRow => row'[g] # NoRow
  BY <1>1, RowIs
<1>3. CacheShape'
  BY <1>1 DEF CacheInv, CacheShape
<1>4. Young'
  BY DEF CacheInv, Young
<1> QED BY <1>2, <1>3, <1>4, QuietStep

LEMMA PinStep ==
  ASSUME CacheInv, NEW f \in CacheFiles, PinFile(f)
  PROVE  CacheKept
<1> DEFINE R == [g \in CacheFiles |-> IF row[g] = NoRow THEN NoRow
                                  ELSE IF g = f THEN [row[g] EXCEPT !.pinned = TRUE, !.last = 3]
                                  ELSE [row[g] EXCEPT !.pinned = FALSE, !.last = IF @ = 3 THEN 2 ELSE @]]
<1>1. ASSUME NEW g \in CacheFiles, row[g] \in Row PROVE R[g] \in Row
  <2>1. row[g] # NoRow
    BY <1>1, RowIs
  <2>2. CASE g = f
    <3>1. R[g] = [row[g] EXCEPT !.pinned = TRUE, !.last = 3]
      BY <2>1, <2>2
    <3>2. 3 \in 1 .. 3 /\ TRUE \in BOOLEAN
      OBVIOUS
    <3> HIDE DEF R
    <3> QED BY <1>1, <3>1, <3>2, RowPlayed, Zenon
  <2>3. CASE g # f
    <3> DEFINE l == IF row[g].last = 3 THEN 2 ELSE row[g].last
    <3>1. R[g] = [row[g] EXCEPT !.pinned = FALSE, !.last = l]
      BY <2>1, <2>3
    <3>2. l \in 1 .. 3 /\ FALSE \in BOOLEAN
      BY <1>1 DEF Row
    <3> HIDE DEF R, l
    <3> QED BY <1>1, <3>1, <3>2, RowPlayed, Zenon
  <2> QED BY <2>2, <2>3
<1>2. \A g \in CacheFiles : row[g] = NoRow => R[g] = NoRow
  OBVIOUS
<1>3. row' = [g \in CacheFiles |-> R[g]]
  BY DEF PinFile
<1> HIDE DEF R
<1> QED BY <1>1, <1>2, <1>3, RowsStep DEF PinFile

LEMMA EndPlayStep ==
  ASSUME CacheInv, NEW f \in CacheFiles, NEW seen \in BOOLEAN, EndPlay(f, seen)
  PROVE  CacheKept
<1> DEFINE R == [row EXCEPT ![f].pinned = FALSE]
<1>0. row \in [CacheFiles -> Row \cup {NoRow}] /\ row[f] # NoRow
  BY DEF CacheInv, CacheShape, EndPlay
<1>1. ASSUME NEW g \in CacheFiles, row[g] \in Row PROVE R[g] \in Row
  <2>1. R[g] = IF g = f THEN [row[g] EXCEPT !.pinned = FALSE] ELSE row[g]
    BY <1>0
  <2> HIDE DEF R
  <2> QED BY <1>1, <2>1 DEF Row
<1>2. \A g \in CacheFiles : row[g] = NoRow => R[g] = NoRow
  BY <1>0
<1>3. row' = [g \in CacheFiles |-> R[g]]
  BY <1>0 DEF EndPlay
<1> HIDE DEF R
<1> QED BY <1>1, <1>2, <1>3, RowsStep DEF EndPlay

LEMMA KeepStep ==
  ASSUME CacheInv, NEW t \in PackTorrents, NEW k \in BOOLEAN, Keep(t, k)
  PROVE  CacheKept
<1> DEFINE R == [f \in CacheFiles |-> IF f \in FilesOf(t) \cap Rows THEN [row[f] EXCEPT !.kept = k] ELSE row[f]]
<1>1. \A g \in CacheFiles : row[g] \in Row => R[g] \in Row
  BY DEF Row
<1>2. \A g \in CacheFiles : row[g] = NoRow => R[g] = NoRow
  BY DEF Rows
<1>3. row' = [g \in CacheFiles |-> R[g]]
  BY DEF Keep
<1> HIDE DEF R
<1> QED BY <1>1, <1>2, <1>3, RowsStep DEF Keep

LEMMA EngineStep ==
  ASSUME CacheInv, NEW t \in PackTorrents, NEW b \in BOOLEAN, LostOutside(t, b) \/ SetLive(t, b)
  PROVE  CacheKept
<1>1. lib'.loading = lib.loading /\ absent' = absent /\ row' = row /\ UNCHANGED <<sweep, user>>
  BY DEF CacheInv, CacheShape, LostOutside, SetLive
<1>2. lib' \in [held : SUBSET PackTorrents, live : SUBSET PackTorrents, loading : 0 .. LoadTime]
      /\ lib'.live \subseteq lib'.held /\ ondisk' \subseteq CacheFiles
  <2>1. CASE LostOutside(t, b)
    BY <2>1 DEF CacheInv, CacheShape, LostOutside
  <2>2. CASE SetLive(t, b)
    BY <2>2 DEF CacheInv, CacheShape, SetLive
  <2> QED BY <2>1, <2>2
<1>3. CacheShape'
  BY <1>1, <1>2 DEF CacheInv, CacheShape
<1>4. Young'
  BY <1>1 DEF CacheInv, Young
<1> QED BY <1>1, <1>3, <1>4, QuietStep

LEMMA OrphansStep ==
  ASSUME CacheInv, NEW list, RemoveOrphans(list)
  PROVE  CacheKept
<1>1. CacheShape'
  BY DEF CacheInv, CacheShape, RemoveOrphans
<1>2. Young'
  BY DEF CacheInv, Young, RemoveOrphans
<1> QED BY <1>1, <1>2, QuietStep DEF RemoveOrphans

LEMMA RestartStep ==
  ASSUME CacheInv, Restart
  PROVE  CacheKept
<1> DEFINE R == [f \in CacheFiles |-> IF row[f] = NoRow THEN NoRow ELSE [row[f] EXCEPT !.pinned = FALSE]]
<1>1. \A g \in CacheFiles : row[g] \in Row \/ row[g] = NoRow
  BY DEF CacheInv, CacheShape
<1>2. \A g \in CacheFiles : (row[g] = NoRow => R[g] = NoRow) /\ (row[g] # NoRow => R[g] \in Row)
  BY <1>1 DEF Row
<1>3. row' = R /\ R \in [CacheFiles -> Row \cup {NoRow}]
  BY <1>2 DEF Restart
<1> HIDE DEF R
<1>4. \A g \in CacheFiles : row[g] # NoRow => row'[g] # NoRow
  BY <1>2, <1>3, RowIs
<1>5. CacheShape'
  <2>1. /\ lib' \in [held : SUBSET PackTorrents, live : SUBSET PackTorrents, loading : 0 .. LoadTime]
        /\ lib'.live \subseteq lib'.held
    BY CacheAssumption DEF CacheInv, CacheShape, Restart
  <2>2. NoAbsence \in Absence /\ NoAbsence.age = 0
    BY CacheAssumption DEF NoAbsence, Absence
  <2>3. absent' \in [PackTorrents -> Absence] /\ \A t \in PackTorrents : absent'[t] = NoAbsence
    BY <2>2 DEF Restart
  <2> QED BY <1>3, <2>1, <2>2, <2>3 DEF CacheInv, CacheShape, Restart
<1>6. Young'
  BY CacheAssumption DEF CacheInv, CacheShape, Young, Restart, NoAbsence
<1>7. Evictors'
  BY DEF Evictors, Restart
<1>8. Spared /\ Forgets
  BY <1>4, IdleIs DEF Spared, Forgets, Restart
<1> QED BY <1>5, <1>6, <1>7, <1>8 DEF CacheKept, CacheInv

LEMMA TickStep ==
  ASSUME CacheInv, CacheTick
  PROVE  CacheKept
<1> DEFINE A(t) == IF absent[t].count = 0 THEN NoAbsence
                   ELSE [absent[t] EXCEPT !.age = IF @ < ForgetAge THEN @ + 1 ELSE @]
<1>1. \A t \in PackTorrents : /\ A(t) \in Absence /\ (A(t).count = 0 => A(t).age = 0)
                              /\ A(t).age <= absent[t].age + 1
  <2> TAKE t \in PackTorrents
  <2>1. absent[t] \in Absence
    BY DEF CacheInv, CacheShape
  <2> QED BY <2>1, CacheAssumption DEF Absence, NoAbsence
<1>2. absent' = [t \in PackTorrents |-> A(t)]
  BY DEF CacheTick
<1> HIDE DEF A
<1>3. /\ lib' \in [held : SUBSET PackTorrents, live : SUBSET PackTorrents, loading : 0 .. LoadTime]
      /\ lib'.live \subseteq lib'.held
      /\ lib'.loading > 0 => lib.loading > 0 /\ lib'.loading = lib.loading - 1
  BY CacheAssumption DEF CacheInv, CacheShape, CacheTick
<1>4. CacheShape'
  BY <1>1, <1>2, <1>3 DEF CacheInv, CacheShape, CacheTick
<1>5. Young'
  <2> SUFFICES ASSUME NEW t \in PackTorrents, lib'.loading > 0 PROVE absent'[t].age + lib'.loading <= LoadTime
    BY DEF Young
  <2>1. absent[t].age + lib.loading <= LoadTime /\ lib.loading \in Nat /\ lib'.loading = lib.loading - 1
    BY <1>3, CacheAssumption DEF CacheInv, CacheShape, Young
  <2>2. absent'[t].age <= absent[t].age + 1 /\ absent'[t].age \in Nat /\ absent[t].age \in Nat
    BY <1>1, <1>2, CacheAssumption DEF CacheInv, CacheShape, Absence
  <2> QED BY <2>1, <2>2, CacheAssumption
<1> QED BY <1>4, <1>5, QuietStep DEF CacheTick

\* What a listing shows to be gone has been away since the engine was loaded.
LEMMA VanishedIs ==
  ASSUME CacheInv, LoadTime <= ForgetAge, NEW list \in Listings, NEW t \in ForgetVanished(list)
  PROVE  t \notin lib.held /\ ~KeptOnDisk(t) /\ t \in PackTorrents
<1>1. t \in Tracked \ list /\ Missing(t) /\ ~KeptOnDisk(t)
  BY DEF ForgetVanished
<1>2. t \in PackTorrents
  BY <1>1, CacheAssumption DEF Tracked, Rows
<1>3. absent[t].age >= ForgetAge /\ absent[t].age \in Nat /\ lib.loading \in Nat
  BY <1>1, <1>2, CacheAssumption DEF Missing, CacheInv, CacheShape, Absence
<1>4. ~(lib.loading > 0)
  BY <1>2, <1>3, CacheAssumption DEF CacheInv, Young
<1>5. list = lib.held
  BY <1>4 DEF Listings
<1> QED BY <1>1, <1>2, <1>5

LEMMA RefreshStep ==
  ASSUME CacheInv, LoadTime <= ForgetAge, NEW list \in Listings, SweepRefresh(list)
  PROVE  CacheKept
<1> DEFINE M(f) == IF row[f] = NoRow \/ PackOf[f] \in ForgetVanished(list) THEN NoRow
                    ELSE IF PackOf[f] \notin list THEN row[f]
                    ELSE [row[f] EXCEPT !.bytes = IF f \in ondisk THEN 1 ELSE 0, !.complete = f \in ondisk]
<1>1. row' = [f \in CacheFiles |-> M(f)] /\ absent' = CountAbsent(list)
  BY DEF SweepRefresh, Refresh
<1>2. \A f \in CacheFiles : M(f) \in Row \cup {NoRow} /\ (row[f] # NoRow /\ M(f) = NoRow => PackOf[f] \in ForgetVanished(list))
  <2> TAKE f \in CacheFiles
  <2>1. CASE row[f] = NoRow \/ PackOf[f] \in ForgetVanished(list)
    BY <2>1
  <2>2. CASE ~(row[f] = NoRow \/ PackOf[f] \in ForgetVanished(list)) /\ PackOf[f] \notin list
    <3>1. M(f) = row[f] /\ row[f] \in Row
      BY <2>2 DEF CacheInv, CacheShape
    <3> HIDE DEF M
    <3> QED BY <3>1, RowIs
  <2>3. CASE ~(row[f] = NoRow \/ PackOf[f] \in ForgetVanished(list)) /\ PackOf[f] \in list
    <3> DEFINE b == IF f \in ondisk THEN 1 ELSE 0
               c == f \in ondisk
               r == row[f]
    <3>1. M(f) = [r EXCEPT !.bytes = b, !.complete = c] /\ r \in Row
      BY <2>3 DEF CacheInv, CacheShape
    <3>2. b \in 0 .. 1 /\ c \in BOOLEAN
      OBVIOUS
    <3> HIDE DEF M, b, c, r
    <3>3. [r EXCEPT !.bytes = b, !.complete = c] \in Row
      BY <3>1, <3>2, RowMeasured, Zenon
    <3>4. M(f) \in Row
      BY <3>1, <3>3, Zenon
    <3> QED BY <3>4, RowIs
  <2> QED BY <2>1, <2>2, <2>3
<1> HIDE DEF M
<1>3. \A t \in PackTorrents :
        /\ CountAbsent(list)[t] \in Absence
        /\ CountAbsent(list)[t].count = 0 => CountAbsent(list)[t].age = 0
        /\ CountAbsent(list)[t].age <= absent[t].age
  <2> TAKE t \in PackTorrents
  <2>0. absent[t] \in Absence /\ (absent[t].count = 0 => absent[t].age = 0)
    BY DEF CacheInv, CacheShape
  <2> DEFINE a == CountAbsent(list)[t]
  <2>1. a = NoAbsence \/ a = absent[t] \/ a = [absent[t] EXCEPT !.count = IF absent[t].count < 2 THEN absent[t].count + 1 ELSE absent[t].count]
    BY DEF CountAbsent
  <2> HIDE DEF a
  <2>2. a \in Absence /\ (a.count = 0 => a.age = 0) /\ a.age <= absent[t].age
    BY <2>0, <2>1, CacheAssumption DEF Absence, NoAbsence
  <2> QED BY <2>2 DEF a
<1>4. CacheShape'
  <2>1. absent' \in [PackTorrents -> Absence]
    BY <1>1, <1>3 DEF CountAbsent
  <2> QED BY <1>1, <1>2, <1>3, <2>1 DEF CacheInv, CacheShape, SweepRefresh
<1>5. Young'
  <2> SUFFICES ASSUME NEW t \in PackTorrents, lib'.loading > 0 PROVE absent'[t].age + lib'.loading <= LoadTime
    BY DEF Young
  <2>1. absent[t].age + lib.loading <= LoadTime /\ lib.loading \in Nat /\ lib' = lib
    BY CacheAssumption DEF CacheInv, CacheShape, Young, SweepRefresh
  <2>2. absent'[t].age <= absent[t].age /\ absent'[t].age \in Nat /\ absent[t].age \in Nat
    BY <1>1, <1>3, CacheAssumption DEF CacheInv, CacheShape, Absence
  <2> QED BY <2>1, <2>2, CacheAssumption
<1>6. Evictors' /\ sweep = IdleEvictor /\ sweep' # sweep
  BY IdleIs DEF CacheInv, Evictors, SweepRefresh, Spares
<1>7. Spared
  BY <1>6, IdleIs DEF Spared
<1>8. Forgets
  <2> SUFFICES ASSUME NEW f \in CacheFiles, row[f] # NoRow, row'[f] = NoRow
               PROVE  PackOf[f] \notin lib.held /\ ~(row[f].kept /\ f \in ondisk)
    BY DEF Forgets
  <2>1. PackOf[f] \in ForgetVanished(list)
    BY <1>1, <1>2
  <2>2. PackOf[f] \notin lib.held /\ ~KeptOnDisk(PackOf[f])
    BY <2>1, VanishedIs
  <2> QED BY <2>2 DEF KeptOnDisk, FilesOf, Rows
<1> QED BY <1>4, <1>5, <1>6, <1>7, <1>8 DEF CacheKept, CacheInv

\* A step of the sweep's holder that leaves the rows alone.
LEMMA PlanStep ==
  ASSUME CacheInv, UNCHANGED <<row, lib, ondisk, absent, user>>, sweep'.on # "usage",
         sweep' = IdleEvictor \/ (sweep'.on = "evict" /\ Spares(sweep'))
  PROVE  CacheKept
<1>1. CacheShape' /\ Young'
  BY DEF CacheInv, CacheShape, Young
<1>2. Evictors'
  BY DEF CacheInv, Evictors, Spares
<1>3. Spared /\ Forgets
  BY DEF Spared, Forgets
<1> QED BY <1>1, <1>2, <1>3 DEF CacheKept, CacheInv

\* An order of eviction is one of the torrents nothing holds.
LEMMA OrderIs ==
  ASSUME NEW spared, NEW s \in EvictionOrder(spared)
  PROVE  /\ s \in Seq(PackTorrents)
         /\ \A i \in DOMAIN s : s[i] \in Free(spared)
<1>1. Free(spared) \subseteq PackTorrents
  BY CacheAssumption DEF Free, Tracked, Rows
<1>2. IsFiniteSet(Free(spared)) /\ Cardinality(Free(spared)) \in Nat
  BY <1>1, CacheAssumption, FS_Subset, FS_CardinalityType
<1> DEFINE n == Cardinality(Free(spared))
<1>3. s \in [1 .. n -> Free(spared)]
  <2>1. s \in Ext!SetToSeqs(Free(spared))
    BY DEF EvictionOrder
  <2>2. Ext!Cardinality(Free(spared)) = n
    BY DEF Ext!Cardinality, Cardinality
  <2> HIDE DEF n
  <2> QED BY <2>1, <2>2 DEF Ext!SetToSeqs
<1> HIDE DEF n
<1>4. n \in Nat
  BY <1>2 DEF n
<1>5. s \in [1 .. n -> PackTorrents]
  BY <1>1, <1>3
<1>6. s \in Seq(PackTorrents)
  BY <1>4, <1>5, IsASeq
<1> QED BY <1>3, <1>6

LEMMA SweepUsageStep ==
  ASSUME CacheInv, SweepUsage
  PROVE  CacheKept
<1>1. CASE sweep' = IdleEvictor
  BY <1>1, PlanStep, IdleIs DEF SweepUsage
<1>2. ASSUME NEW order \in EvictionOrder({}),
             sweep' = [on |-> "evict", order |-> order, after |-> UsageBytes,
                       target |-> CacheBudget, freed |-> AllBytes, safe |-> HeldFiles]
      PROVE  CacheKept
  <2>1. \A i \in DOMAIN order : \A f \in CacheFiles : PackOf[f] = order[i] => f \notin HeldFiles
    BY <1>2, OrderIs DEF Free, HeldFiles, HoldsTorrent, FilesOf
  <2>2. sweep'.on = "evict" /\ sweep'.order = order /\ sweep'.safe = HeldFiles
    BY <1>2
  <2>3. Spares(sweep')
    BY <1>2, <2>1, <2>2, OrderIs DEF Spares
  <2> QED BY <2>2, <2>3, PlanStep DEF SweepUsage
<1> QED BY <1>1, <1>2 DEF SweepUsage

LEMMA MakeRoomStep ==
  ASSUME CacheInv, MakeRoom
  PROVE  CacheKept
<1> DEFINE unseen == {t \in PackTorrents : \E f \in FilesOf(t) \cap Rows : f \notin watched}
           safe == HeldFiles \cup (Rows \ watched)
<1>1. PICK order \in EvictionOrder(unseen) :
             sweep' = [on |-> "evict", order |-> order, after |-> UsageBytes,
                       target |-> CacheBudget - 1, freed |-> AllBytes, safe |-> safe]
  BY DEF MakeRoom
<1>2. \A i \in DOMAIN order : \A f \in CacheFiles : PackOf[f] = order[i] => f \notin safe
  <2> SUFFICES ASSUME NEW i \in DOMAIN order, NEW f \in CacheFiles, PackOf[f] = order[i], f \in safe PROVE FALSE
    OBVIOUS
  <2>1. PackOf[f] \in Free(unseen)
    BY OrderIs
  <2>2. f \in Rows /\ f \in FilesOf(PackOf[f]) /\ PackOf[f] \in PackTorrents
    BY CacheAssumption DEF HeldFiles, FilesOf, Rows
  <2>3. PackOf[f] \notin unseen /\ ~HoldsTorrent(f)
    <3> HIDE DEF unseen
    <3> QED BY <2>1, <2>2 DEF Free
  <2>4. f \in watched
    BY <2>2, <2>3
  <2>5. f \in HeldFiles
    BY <2>4
  <2> QED BY <2>3, <2>5 DEF HeldFiles, HoldsTorrent
<1>3. sweep'.on = "evict" /\ sweep'.order = order /\ sweep'.safe = safe
  BY <1>1
<1> HIDE DEF unseen, safe
<1>4. Spares(sweep')
  BY <1>1, <1>2, <1>3, OrderIs DEF Spares
<1> QED BY <1>3, <1>4, PlanStep DEF MakeRoom

LEMMA SweepEndStep ==
  ASSUME CacheInv, SweepEnd
  PROVE  CacheKept
BY PlanStep, IdleIs DEF SweepEnd

LEMMA EvictIs ==
  ASSUME CacheInv, NEW t, Evict(t), absent' = absent
  PROVE  /\ CacheShape' /\ Young'
         /\ \A f \in CacheFiles : row[f] # NoRow /\ row'[f] = NoRow => PackOf[f] = t
<1>1. row' = [f \in CacheFiles |-> IF PackOf[f] = t THEN NoRow ELSE row[f]] /\ lib'.loading = lib.loading
  BY DEF Evict, CacheInv, CacheShape
<1>2. /\ lib' \in [held : SUBSET PackTorrents, live : SUBSET PackTorrents, loading : 0 .. LoadTime]
      /\ lib'.live \subseteq lib'.held /\ ondisk' \subseteq CacheFiles
  BY DEF Evict, CacheInv, CacheShape
<1>3. CacheShape'
  BY <1>1, <1>2 DEF CacheInv, CacheShape
<1>4. Young'
  BY <1>1 DEF CacheInv, Young
<1> QED BY <1>1, <1>3, <1>4

\* An evictor that has read on still spares what it may not take.
LEMMA ReadOnSpares ==
  ASSUME NEW e, Spares(e), e.order # <<>>, NEW a, NEW n,
         n = [e EXCEPT !.order = Tail(e.order), !.after = a] \/ n = [e EXCEPT !.order = Tail(e.order)]
  PROVE  n.on = "evict" /\ n.order = Tail(e.order) /\ Spares(n) /\ n # e
<1> DEFINE o == Tail(e.order)
<1>1. /\ o \in Seq(PackTorrents) /\ o # e.order
      /\ \A i \in DOMAIN o : \A f \in CacheFiles : PackOf[f] = o[i] => f \notin e.safe
  BY ReadsOn
<1>2. e = [on |-> "evict", order |-> e.order, after |-> e.after, target |-> e.target,
           freed |-> e.freed, safe |-> e.safe]
  BY DEF Spares
<1> HIDE DEF o
<1>3. \E b : n = [on |-> "evict", order |-> o, after |-> b, target |-> e.target, freed |-> e.freed, safe |-> e.safe]
  <2>1. n = [e EXCEPT !.order = o, !.after = a] \/ n = [e EXCEPT !.order = o]
    BY DEF o
  <2>2. CASE n = [e EXCEPT !.order = o, !.after = a]
    <3> DEFINE m == [e EXCEPT !.order = o]
    <3>1. m = [on |-> "evict", order |-> o, after |-> e.after, target |-> e.target, freed |-> e.freed, safe |-> e.safe]
      BY <1>2
    <3>2. n = [m EXCEPT !.after = a]
      BY <2>2
    <3> HIDE DEF m
    <3>3. n = [on |-> "evict", order |-> o, after |-> a, target |-> e.target, freed |-> e.freed, safe |-> e.safe]
      BY <3>1, <3>2
    <3> QED BY <3>3
  <2>3. CASE n = [e EXCEPT !.order = o]
    <3>1. n = [on |-> "evict", order |-> o, after |-> e.after, target |-> e.target, freed |-> e.freed, safe |-> e.safe]
      BY <1>2, <2>3
    <3> QED BY <3>1
  <2> QED BY <2>1, <2>2, <2>3
<1>4. n.on = "evict" /\ n.order = o /\ n.safe = e.safe
  BY <1>3
<1>5. Spares(n)
  BY <1>1, <1>3, <1>4 DEF Spares
<1> QED BY <1>1, <1>4, <1>5 DEF o

LEMMA SweepEvictStep ==
  ASSUME CacheInv, NEW ok \in BOOLEAN, SweepEvict(ok)
  PROVE  CacheKept
<1> DEFINE t == Head(sweep.order)
           a == IF ok THEN sweep.after - sweep.freed[t] ELSE sweep.after
<1>1. sweep.on = "evict" /\ Spares(sweep) /\ sweep.order # <<>>
  BY IdleIs DEF SweepEvict, CacheInv, Evictors
<1>2. \A f \in CacheFiles : PackOf[f] = t => f \notin sweep.safe
  BY <1>1, ReadsOn
<1>3. sweep' = [sweep EXCEPT !.order = Tail(sweep.order), !.after = a]
  BY DEF SweepEvict
<1>4. sweep'.on = "evict" /\ Spares(sweep') /\ sweep' # sweep
  <2> DEFINE n == [sweep EXCEPT !.order = Tail(sweep.order), !.after = a]
  <2>1. Spares(sweep) /\ sweep.order # <<>>
    BY <1>1
  <2>2. n = [sweep EXCEPT !.order = Tail(sweep.order), !.after = a]
    OBVIOUS
  <2> HIDE DEF a, n
  <2>3. n.on = "evict" /\ Spares(n) /\ n # sweep
    BY <2>1, <2>2, ReadOnSpares, Zenon
  <2>4. sweep' = n
    BY <1>3 DEF n
  <2> QED BY <2>3, <2>4
<1>5. user' = user /\ absent' = absent
  BY DEF SweepEvict
<1>6. CacheShape' /\ Young' /\ \A f \in CacheFiles : row[f] # NoRow /\ row'[f] = NoRow => PackOf[f] = t
  <2>1. CASE ok
    <3>1. Evict(t)
      BY <2>1 DEF SweepEvict
    <3> QED BY <1>5, <3>1, EvictIs
  <2>2. CASE ~ok
    BY <1>5, <2>2 DEF SweepEvict, CacheInv, CacheShape, Young
  <2> QED BY <2>1, <2>2
<1>7. Evictors'
  BY <1>4, <1>5 DEF CacheInv, Evictors, Spares
<1>8. Spared /\ Forgets
  BY <1>1, <1>2, <1>4, <1>6 DEF Spared, Forgets
<1> QED BY <1>6, <1>7, <1>8 DEF CacheKept, CacheInv

\* A deletion of the viewer's starts on torrents of which nothing plays.
LEMMA BeginStep ==
  ASSUME CacheInv, NEW S, S \subseteq Tracked, UserBegins(S),
         \A t \in S : \A f \in FilesOf(t) \cap Rows : ~row[f].pinned
  PROVE  CacheKept
<1> DEFINE o == Ext!SetToSeq(S)
           safe == {f \in Rows : row[f].pinned}
<1>1. S \subseteq PackTorrents /\ S # {}
  BY CacheAssumption DEF Tracked, Rows, UserBegins
<1>2. IsFiniteSet(S) /\ Cardinality(S) \in Nat /\ Cardinality(S) # 0
  BY <1>1, CacheAssumption, FS_Subset, FS_CardinalityType, FS_EmptySet
<1>3. o \in [1 .. Cardinality(S) -> S]
  BY <1>2, SetToSeqIs
<1>4. o \in Seq(PackTorrents) /\ o # <<>>
  <2> DEFINE n == Cardinality(S)
  <2>1. n \in Nat /\ n # 0 /\ o \in [1 .. n -> PackTorrents]
    BY <1>1, <1>2, <1>3
  <2> HIDE DEF n, o
  <2>2. o \in Seq(PackTorrents)
    BY <2>1, IsASeq
  <2>3. 1 \in DOMAIN o
    BY <2>1
  <2> QED BY <2>2, <2>3
<1>5. \A i \in DOMAIN o : \A f \in CacheFiles : PackOf[f] = o[i] => f \notin safe
  <2> SUFFICES ASSUME NEW i \in DOMAIN o, NEW f \in CacheFiles, PackOf[f] = o[i], f \in safe PROVE FALSE
    OBVIOUS
  <2>1. PackOf[f] \in S
    <3> HIDE DEF o
    <3> QED BY <1>3
  <2> QED BY <2>1 DEF FilesOf
<1>6. user' = [IdleEvictor EXCEPT !.on = "evict", !.order = o, !.safe = safe]
  BY DEF UserBegins
<1> HIDE DEF o, safe
<1>7. user' = [on |-> "evict", order |-> o, after |-> 0, target |-> 0, freed |-> NoBytes, safe |-> safe]
  BY <1>6 DEF IdleEvictor
<1>8. user'.on = "evict" /\ user'.order = o /\ user'.safe = safe
  BY <1>7
<1>9. Spares(user')
  BY <1>4, <1>5, <1>7, <1>8 DEF Spares
<1>10. UNCHANGED <<row, lib, ondisk, absent, sweep>>
  BY DEF UserBegins
<1>11. CacheShape' /\ Young'
  BY <1>10 DEF CacheInv, CacheShape, Young
<1>12. Evictors'
  BY <1>4, <1>8, <1>9, <1>10 DEF CacheInv, Evictors, Spares
<1>13. Spared /\ Forgets
  BY <1>10 DEF Spared, Forgets
<1> QED BY <1>11, <1>12, <1>13 DEF CacheKept, CacheInv

LEMMA DeletionsStep ==
  ASSUME CacheInv, NEW b \in BOOLEAN, NEW mode, NEW t,
         RemoveDownload(t) \/ Clear(b) \/ AutoDelete(mode, b)
  PROVE  CacheKept
<1>1. CASE RemoveDownload(t)
  <2>1. {t} \subseteq Tracked /\ UserBegins({t}) /\ \A u \in {t} : \A f \in FilesOf(u) \cap Rows : ~row[f].pinned
    BY <1>1 DEF RemoveDownload
  <2> QED BY <2>1, BeginStep
<1>2. CASE Clear(b)
  <2> DEFINE S == {u \in Tracked : \A f \in FilesOf(u) \cap Rows :
                     ~row[f].pinned /\ ~row[f].kept /\ (b => row[f].complete)}
  <2>1. UserBegins(S)
    BY <1>2 DEF Clear
  <2>2. S \subseteq Tracked /\ \A u \in S : \A f \in FilesOf(u) \cap Rows : ~row[f].pinned
    OBVIOUS
  <2> HIDE DEF S
  <2> QED BY <2>1, <2>2, BeginStep
<1>3. CASE AutoDelete(mode, b)
  <2> DEFINE S == {u \in Tracked : \A f \in FilesOf(u) \cap Rows :
                     ~row[f].pinned /\ (b \/ ~row[f].kept) /\ Done(f, mode)}
  <2>1. UserBegins(S)
    BY <1>3 DEF AutoDelete
  <2>2. S \subseteq Tracked /\ \A u \in S : \A f \in FilesOf(u) \cap Rows : ~row[f].pinned
    OBVIOUS
  <2> HIDE DEF S
  <2> QED BY <2>1, <2>2, BeginStep
<1> QED BY <1>1, <1>2, <1>3

LEMMA UserEvictStep ==
  ASSUME CacheInv, UserEvict
  PROVE  CacheKept
<1> DEFINE t == Head(user.order)
<1>1. user.on = "evict" /\ Spares(user) /\ user.order # <<>>
  BY IdleIs DEF UserEvict, CacheInv, Evictors
<1>2. \A f \in CacheFiles : PackOf[f] = t => f \notin user.safe
  BY <1>1, ReadsOn
<1>3. Evict(t) /\ sweep' = sweep /\ absent' = absent
  BY DEF UserEvict
<1>4. CacheShape' /\ Young' /\ \A f \in CacheFiles : row[f] # NoRow /\ row'[f] = NoRow => PackOf[f] = t
  <2> HIDE DEF t
  <2> QED BY <1>3, EvictIs
<1>5. user' # user /\ (user' = IdleEvictor \/ (user'.on = "evict" /\ user'.order # <<>> /\ Spares(user')))
  <2>1. CASE Len(user.order) = 1
    BY <1>1, <2>1, IdleIs DEF UserEvict
  <2>2. CASE Len(user.order) # 1
    <3>1. user' = [user EXCEPT !.order = Tail(user.order)]
      BY <2>2 DEF UserEvict
    <3>2. user'.on = "evict" /\ user'.order = Tail(user.order) /\ Spares(user') /\ user' # user
      BY <1>1, <3>1, ReadOnSpares
    <3>3. Tail(user.order) # <<>>
      <4> DEFINE o == user.order
      <4>1. o \in Seq(PackTorrents) /\ o # <<>> /\ Len(o) # 1
        BY <1>1, <2>2 DEF Spares
      <4> HIDE DEF o
      <4>2. Len(Tail(o)) = Len(o) - 1 /\ Len(o) \in Nat /\ Len(<<>>) = 0
        BY <4>1, HeadTailProperties
      <4>3. ASSUME Tail(o) = <<>> PROVE FALSE
        <5>1. Len(Tail(o)) = 0
          BY <4>2, <4>3
        <5>2. Len(o) = 1
          BY <4>2, <5>1
        <5> QED BY <4>1, <5>2
      <4> QED BY <4>3 DEF o
    <3> QED BY <3>2, <3>3
  <2> QED BY <2>1, <2>2
<1>6. Evictors'
  BY <1>3, <1>5 DEF CacheInv, Evictors, Spares
<1>7. Spared /\ Forgets
  BY <1>2, <1>3, <1>4, <1>5 DEF Spared, Forgets
<1> QED BY <1>4, <1>6, <1>7 DEF CacheKept, CacheInv

LEMMA CacheInvNext ==
  ASSUME CacheInv, LoadTime <= ForgetAge, [CacheNext]_cacheVars
  PROVE  CacheKept
<1>1. CASE UNCHANGED cacheVars
  <2>1. CacheShape' /\ Young'
    BY <1>1 DEF cacheVars, CacheInv, CacheShape, Young
  <2> QED BY <1>1, <2>1, QuietStep DEF cacheVars
<1>2. CASE \E f \in CacheFiles : RecordFile(f) \/ FileArrives(f) \/ PinFile(f)
                           \/ \E seen \in BOOLEAN : EndPlay(f, seen)
  BY <1>2, RecordStep, ArriveStep, PinStep, EndPlayStep
<1>3. CASE \E t \in PackTorrents, b \in BOOLEAN : Keep(t, b) \/ LostOutside(t, b) \/ SetLive(t, b)
  BY <1>3, KeepStep, EngineStep
<1>4. CASE Restart \/ CacheTick
  BY <1>4, RestartStep, TickStep
<1>5. CASE \E list \in Listings : SweepRefresh(list) \/ RemoveOrphans(list)
  BY <1>5, RefreshStep, OrphansStep
<1>6. CASE SweepUsage \/ MakeRoom \/ SweepEnd \/ \E ok \in BOOLEAN : SweepEvict(ok)
  BY <1>6, SweepUsageStep, MakeRoomStep, SweepEndStep, SweepEvictStep
<1>7. CASE \/ \E t \in PackTorrents : RemoveDownload(t)
           \/ \E b \in BOOLEAN : Clear(b) \/ \E mode \in {"now", "keep2"} : AutoDelete(mode, b)
  BY <1>7, DeletionsStep
<1>8. CASE UserEvict
  BY <1>8, UserEvictStep
<1> QED BY <1>1, <1>2, <1>3, <1>4, <1>5, <1>6, <1>7, <1>8 DEF CacheNext

(* Nothing held is deleted and nothing present forgotten (cache.go evictDownTo,
   forgetVanished): in every state the rows, the engine's torrents and the evictors
   have their types, no file held when an evictor read the rows is lost to it, and a
   refresh forgets only what the engine has really lost.  The hypothesis is the one
   forgetAge is chosen for: a starting engine lists all it holds within that time. *)
THEOREM CacheStaysSafe ==
  ASSUME LoadTime <= ForgetAge
  PROVE  CacheSpec => CacheSafe
<1>1. CacheInv => CacheTypeOK
  BY IdleIs DEF CacheInv, CacheShape, Evictors, CacheTypeOK
<1>2. CacheInv /\ [CacheNext]_cacheVars => CacheInv'
  BY CacheInvNext DEF CacheKept
<1>3. CacheInv /\ [CacheNext]_cacheVars =>
        [\A f \in CacheFiles : row[f] # NoRow /\ row'[f] = NoRow =>
           /\ user' = user => f \notin sweep.safe
           /\ sweep' = sweep => f \notin user.safe]_cacheVars
  BY CacheInvNext DEF CacheKept, Spared
<1>4. CacheInv /\ [CacheNext]_cacheVars =>
        [sweep.on = "idle" /\ sweep'.on = "usage" =>
           \A f \in CacheFiles : row[f] # NoRow /\ row'[f] = NoRow =>
             /\ PackOf[f] \notin lib.held
             /\ ~(row[f].kept /\ f \in ondisk)]_cacheVars
  BY CacheInvNext DEF CacheKept, Forgets
<1> QED BY <1>1, <1>2, <1>3, <1>4, CacheInvInit, PTL DEF CacheSpec, CacheSafe, HeldFilesSpared, ForgetsOnlyLost
=============================================================================
