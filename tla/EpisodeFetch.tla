------------------------------ MODULE EpisodeFetch ------------------------------
(* One episode's release being fetched (library/prefetch.go), played
   (library/play.go) and adopted by the cache sweep, all at once: the fetch the
   queue or a prefetch runs, the play that may take its torrent over, and the
   record in the store (store/playback.go) that says which release is the
   episode's.  A release is its info hash.  What the swarm does is a choice. *)
EXTENDS Naturals, FiniteSets

CONSTANTS Releases, NoRelease,
          Fetchers,        \* the goroutines that may fetch the episode
          MaxFetches,      \* bound on the fetches begun
          MaxPlays         \* bound on the plays started
ASSUME NoReleaseAssumption == NoRelease \notin Releases

VARIABLES flight,    \* Prefetcher.fetching[episode]
          claimed,   \* Prefetcher.claimed
          prepared,  \* Prefetcher.prepared[episode]
          held,      \* the engine: each release absent, running or paused
          rows,      \* torrent_file: the release's row for the episode
          kept, pinned,
          fetch,     \* each fetcher: where it stands, its release, what it saw
          play,      \* the play under way
          counts     \* fetches begun and plays started
fetchVars == <<flight, claimed, prepared, held, rows, kept, pinned, fetch, play, counts>>

NoFlight == [on |-> FALSE, rec |-> NoRelease, hash |-> NoRelease, taken |-> FALSE]
FetchIdle == [pc |-> "idle", r |-> NoRelease, prior |-> NoRelease, keep |-> FALSE,
              pick |-> NoRelease, ahead |-> FALSE, stale |-> NoRelease, gone |-> {}, then |-> "end"]
PlayIdle == [pc |-> "idle", r |-> NoRelease, before |-> {}, tried |-> {}, gone |-> {}]

Selected == {r \in Releases : rows[r] = "selected"}
TorrentForEpisode == IF Selected = {} THEN NoRelease ELSE CHOOSE r \in Selected : TRUE
InEngine(r) == r # NoRelease /\ held[r] # "absent"
TorrentClaimed(r) == rows[r] \in {"selected", "superseded"}

FetchInit ==
  /\ flight = NoFlight /\ claimed = {} /\ prepared = NoRelease
  /\ held = [r \in Releases |-> "absent"] /\ rows = [r \in Releases |-> "none"]
  /\ kept = {} /\ pinned = {}
  /\ fetch = [f \in Fetchers |-> FetchIdle] /\ play = PlayIdle
  /\ counts = [fetches |-> 0, plays |-> 0]

\* Variant for mutation: the release recorded before stays selected.
RecordBeside(r) ==
  /\ rows' = [rows EXCEPT ![r] = "selected"]
  /\ kept' = IF \E x \in kept : TorrentClaimed(x) THEN kept \cup {r} ELSE kept

(* RecordTorrent: the release becomes the episode's, another selected one is
   superseded, and a kept episode stays kept. *)
RecordTorrent(r) ==
  /\ rows' = [x \in Releases |-> IF x = r THEN "selected"
                                 ELSE IF rows[x] = "selected" THEN "superseded" ELSE rows[x]]
  /\ kept' = IF \E x \in kept : TorrentClaimed(x) THEN kept \cup {r} ELSE kept

Superseded == {r \in Releases : rows[r] = "superseded"}

(* Deleting releases: out of the engine, then the record with its flags. *)
DeleteReleases(S) ==
  /\ held' = [r \in Releases |-> IF r \in S THEN "absent" ELSE held[r]]
  /\ rows' = [r \in Releases |-> IF r \in S THEN "none" ELSE rows[r]]
  /\ kept' = kept \ S /\ pinned' = pinned \ S

-----------------------------------------------------------------------------
(* resolveAsync: a release is found ahead and kept in memory; nothing is added. *)
Prepare(r) ==
  /\ prepared = NoRelease /\ Selected = {} /\ ~flight.on
  /\ prepared' = r
  /\ UNCHANGED <<flight, claimed, held, rows, kept, pinned, fetch, play, counts>>

Go(f, pc) == fetch' = [fetch EXCEPT ![f].pc = pc]

(* download, a copy already held: promoted to kept and resumed under a claim, then
   awaited; a chosen release is not held under another one. *)
Promote(f, pick) ==
  /\ fetch[f].pc = "idle" /\ counts.fetches < MaxFetches
  /\ LET r == TorrentForEpisode IN
     /\ InEngine(r) /\ pick \in {NoRelease, r}
     /\ kept' = kept \cup {r} /\ claimed' = claimed \cup {r}
     /\ held' = [held EXCEPT ![r] = "running"]
     /\ fetch' = [fetch EXCEPT ![f] = [FetchIdle EXCEPT !.pc = "promoted", !.r = r]]
  /\ counts' = [counts EXCEPT !.fetches = @ + 1]
  /\ UNCHANGED <<flight, prepared, rows, pinned, play>>

(* awaitOrStop: it finishes, or is paused unless it is playing; the claim ends. *)
AwaitOrStop(f, done) ==
  /\ fetch[f].pc \in {"await", "promoted"}
  /\ LET r == fetch[f].r IN
     /\ held' = IF done \/ r \in pinned \/ ~InEngine(r) THEN held ELSE [held EXCEPT ![r] = "paused"]
     /\ claimed' = IF fetch[f].pc = "promoted" THEN claimed \ {r} ELSE claimed
  /\ fetch' = [fetch EXCEPT ![f] = FetchIdle]
  /\ UNCHANGED <<flight, prepared, rows, kept, pinned, play, counts>>

(* beginFetch: one fetch of the episode at a time; a queued one is kept and may
   name the release it wants. *)
BeginFetch(f, keep, pick) ==
  /\ fetch[f].pc = "idle" /\ ~flight.on /\ counts.fetches < MaxFetches
  /\ pick # NoRelease => keep
  /\ flight' = [NoFlight EXCEPT !.on = TRUE]
  /\ fetch' = [fetch EXCEPT ![f] = [FetchIdle EXCEPT !.pc = "check", !.keep = keep, !.pick = pick]]
  /\ counts' = [counts EXCEPT !.fetches = @ + 1]
  /\ UNCHANGED <<claimed, prepared, held, rows, kept, pinned, play>>

(* fetchRelease's checks: nothing to do for a release on record and in the engine,
   unless another was chosen over it. *)
CheckHeld(f) ==
  /\ fetch[f].pc = "check"
  /\ fetch' = [fetch EXCEPT
       ![f].pc = IF fetch[f].pick = NoRelease /\ InEngine(TorrentForEpisode) THEN "end" ELSE "add",
       ![f].prior = TorrentForEpisode]
  /\ UNCHANGED <<flight, claimed, prepared, held, rows, kept, pinned, play, counts>>

(* addFirst: the chosen release; else the one resolved ahead, else one the search
   ranks, never the one that just failed. It is added to the engine. *)
AddFirst(f, r) ==
  /\ fetch[f].pc = "add" /\ r # fetch[f].stale
  /\ LET ahead == fetch[f].pick = NoRelease /\ prepared # NoRelease IN
     /\ fetch[f].pick \in {r, NoRelease} /\ (ahead => r = prepared)
     /\ fetch' = [fetch EXCEPT ![f].pc = "claim", ![f].r = r, ![f].ahead = ahead]
     /\ prepared' = IF ahead THEN NoRelease ELSE prepared
  /\ held' = [held EXCEPT ![r] = IF @ = "absent" THEN "running" ELSE @]
  /\ UNCHANGED <<flight, claimed, rows, kept, pinned, play, counts>>
NothingFound(f) ==
  /\ fetch[f].pc = "add" /\ (prepared = NoRelease \/ fetch[f].pick # NoRelease) /\ Go(f, "end")
  /\ UNCHANGED <<flight, claimed, prepared, held, rows, kept, pinned, play, counts>>

(* claim and setTorrent: the sweep leaves it be, and a play can take it over. *)
ClaimTorrent(f) ==
  /\ fetch[f].pc = "claim" /\ Go(f, "warm")
  /\ claimed' = claimed \cup {fetch[f].r}
  /\ flight' = [flight EXCEPT !.hash = fetch[f].r, !.rec = fetch[f].r]
  /\ UNCHANGED <<prepared, held, rows, kept, pinned, play, counts>>

(* WaitLive resumes a paused torrent; Prewarm then reads its first bytes, or not:
   a dead swarm, or the caller stops. *)
Warm(f, outcome) ==
  /\ fetch[f].pc = "warm"
  /\ outcome = "record" => InEngine(fetch[f].r)
  /\ held' = [held EXCEPT ![fetch[f].r] = IF @ = "absent" THEN @ ELSE "running"]
  /\ Go(f, outcome)
  /\ UNCHANGED <<flight, claimed, prepared, rows, kept, pinned, play, counts>>

(* start's error path: a torrent play took over is play's; an interrupted or dead
   one is recorded for the retry, one resolved ahead is replaced by a search. *)
WarmFailed(f) ==
  /\ fetch[f].pc \in {"dead", "stopped"}
  /\ fetch' = [fetch EXCEPT
       ![f].pc = IF flight.taken THEN "end"
                 ELSE IF fetch[f].pc = "stopped" \/ ~fetch[f].ahead THEN "record" ELSE "pause",
       ![f].then = IF fetch[f].pc = "stopped" \/ ~fetch[f].ahead THEN "pause" ELSE "again"]
  /\ UNCHANGED <<flight, claimed, prepared, held, rows, kept, pinned, play, counts>>

(* record, the look: another release recorded meanwhile is the viewer's. *)
RecordLook(f) ==
  /\ fetch[f].pc = "record"
  /\ IF TorrentForEpisode \in {NoRelease, fetch[f].r, fetch[f].prior}
     THEN Go(f, "write") /\ UNCHANGED flight
     ELSE /\ fetch' = [fetch EXCEPT ![f].pc = "discard", ![f].then = "end"]
          /\ flight' = [flight EXCEPT !.rec = NoRelease]
  /\ UNCHANGED <<claimed, prepared, held, rows, kept, pinned, play, counts>>

(* record, the write. *)
RecordWrite(f) ==
  /\ fetch[f].pc = "write"
  /\ RecordTorrent(fetch[f].r)
  /\ Go(f, "keep")
  /\ UNCHANGED <<flight, claimed, prepared, held, pinned, play, counts>>

(* KeepDownload, a transaction of its own: a queued download is kept. *)
KeepDownload(f) ==
  /\ fetch[f].pc = "keep"
  /\ kept' = IF fetch[f].keep /\ rows[fetch[f].r] # "none" THEN kept \cup {fetch[f].r} ELSE kept
  /\ Go(f, IF fetch[f].then = "pause" THEN "pause" ELSE "supersede")
  /\ UNCHANGED <<flight, claimed, prepared, held, rows, pinned, play, counts>>

(* stop: paused unless it is playing; one resolved ahead then makes way. *)
PauseAbandoned(f) ==
  /\ fetch[f].pc = "pause"
  /\ held' = IF fetch[f].r \in pinned \/ ~InEngine(fetch[f].r) THEN held
             ELSE [held EXCEPT ![fetch[f].r] = "paused"]
  /\ IF fetch[f].then = "again"
     THEN /\ fetch' = [fetch EXCEPT ![f].pc = "discard", ![f].stale = fetch[f].r]
          /\ flight' = [flight EXCEPT !.rec = NoRelease]
     ELSE Go(f, "end") /\ UNCHANGED flight
  /\ UNCHANGED <<claimed, prepared, rows, kept, pinned, play, counts>>

(* discardUnclaimed: a release on record for an episode stays; any other goes. *)
DiscardLook(f) ==
  /\ fetch[f].pc = "discard"
  /\ Go(f, IF ~TorrentClaimed(fetch[f].r) THEN "delete"
           ELSE IF fetch[f].then = "again" THEN "add" ELSE "end")
  /\ UNCHANGED <<flight, claimed, prepared, held, rows, kept, pinned, play, counts>>
DiscardDelete(f) ==
  /\ fetch[f].pc = "delete"
  /\ DeleteReleases({fetch[f].r})
  /\ Go(f, IF fetch[f].then = "again" THEN "add" ELSE "end")
  /\ UNCHANGED <<flight, claimed, prepared, play, counts>>

(* dropSuperseded: the replaced releases are listed, then deleted. *)
SupersededLook(f) ==
  /\ fetch[f].pc = "supersede"
  /\ fetch' = [fetch EXCEPT ![f].pc = "drop", ![f].gone = Superseded]
  /\ UNCHANGED <<flight, claimed, prepared, held, rows, kept, pinned, play, counts>>
SupersededDrop(f) ==
  /\ fetch[f].pc = "drop"
  /\ DeleteReleases(fetch[f].gone)
  /\ fetch' = [fetch EXCEPT ![f].pc = "end", ![f].then = "await"]
  /\ UNCHANGED <<flight, claimed, prepared, play, counts>>

(* endFetch: the episode is free again, and so is the claim; a queued download
   that started is awaited. *)
EndFetch(f) ==
  /\ fetch[f].pc = "end"
  /\ flight' = NoFlight
  /\ claimed' = claimed \ {flight.hash}
  /\ fetch' = [fetch EXCEPT ![f] = IF fetch[f].then = "await" /\ fetch[f].keep
                                   THEN [FetchIdle EXCEPT !.pc = "await", !.r = fetch[f].r]
                                   ELSE FetchIdle]
  /\ UNCHANGED <<prepared, held, rows, kept, pinned, play, counts>>

-----------------------------------------------------------------------------
(* Start: the release on record, else the one a fetch is warming, taken over. *)
Reattach ==
  /\ play.pc = "idle" /\ counts.plays < MaxPlays
  /\ counts' = [counts EXCEPT !.plays = @ + 1]
  /\ LET taken == TorrentForEpisode = NoRelease /\ flight.rec # NoRelease
         r == IF taken THEN flight.rec ELSE TorrentForEpisode
     IN /\ flight' = [flight EXCEPT !.taken = @ \/ taken]
        /\ play' = [PlayIdle EXCEPT !.pc = IF r = NoRelease THEN "attach" ELSE "resume", !.r = r]
  /\ UNCHANGED <<claimed, prepared, held, rows, kept, pinned, fetch>>

(* reattach: the engine still holds it, it is resumed; else a search. *)
ResumeHeld ==
  /\ play.pc = "resume"
  /\ IF InEngine(play.r)
     THEN /\ held' = [held EXCEPT ![play.r] = "running"]
          /\ play' = [play EXCEPT !.pc = "reheat"]
     ELSE play' = [play EXCEPT !.pc = "attach"] /\ UNCHANGED held
  /\ UNCHANGED <<flight, claimed, prepared, rows, kept, pinned, fetch, counts>>

(* warmed: it delivers and is recorded again, or the search follows. *)
Reheated(ok) ==
  /\ play.pc = "reheat"
  /\ ok => InEngine(play.r)
  /\ IF ok THEN RecordTorrent(play.r) ELSE UNCHANGED <<rows, kept>>
  /\ play' = [play EXCEPT !.pc = IF ok THEN "play" ELSE "attach"]
  /\ UNCHANGED <<flight, claimed, prepared, held, pinned, fetch, counts>>

(* attachFrom: what the engine holds already is noted, and never discarded. *)
Attach ==
  /\ play.pc = "attach"
  /\ play' = [play EXCEPT !.pc = "try", !.before = {r \in Releases : InEngine(r)}]
  /\ UNCHANGED <<flight, claimed, prepared, held, rows, kept, pinned, fetch, counts>>

(* tryCandidate: the release is added and started. *)
TryCandidate(r) ==
  /\ play.pc = "try" /\ r \notin play.tried
  /\ prepared \in {r, NoRelease}
  /\ prepared' = NoRelease
  /\ held' = [held EXCEPT ![r] = "running"]
  /\ play' = [play EXCEPT !.pc = "warm", !.r = r, !.tried = @ \cup {r}]
  /\ UNCHANGED <<flight, claimed, rows, kept, pinned, fetch, counts>>
NoCandidate ==
  /\ play.pc = "try" /\ prepared = NoRelease
  /\ play' = PlayIdle
  /\ UNCHANGED <<flight, claimed, prepared, held, rows, kept, pinned, fetch, counts>>

(* It delivers: recorded as the episode's; or not, and discards itself unless
   it was there before. *)
Candidate(ok) ==
  /\ play.pc = "warm"
  /\ ok => InEngine(play.r)
  /\ IF ok THEN RecordTorrent(play.r) ELSE UNCHANGED <<rows, kept>>
  /\ play' = [play EXCEPT !.pc = IF ok THEN "supersede"
                                 ELSE IF play.r \in play.before THEN "try" ELSE "discard"]
  /\ UNCHANGED <<flight, claimed, prepared, held, pinned, fetch, counts>>
CandidateDiscard ==
  /\ play.pc = "discard"
  /\ play' = [play EXCEPT !.pc = IF TorrentClaimed(play.r) THEN "try" ELSE "delete"]
  /\ UNCHANGED <<flight, claimed, prepared, held, rows, kept, pinned, fetch, counts>>
CandidateDelete ==
  /\ play.pc = "delete"
  /\ DeleteReleases({play.r})
  /\ play' = [play EXCEPT !.pc = "try"]
  /\ UNCHANGED <<flight, claimed, prepared, fetch, counts>>

PlaySuperseded ==
  /\ play.pc = "supersede"
  /\ play' = [play EXCEPT !.pc = "drop", !.gone = Superseded]
  /\ UNCHANGED <<flight, claimed, prepared, held, rows, kept, pinned, fetch, counts>>
PlayDrop ==
  /\ play.pc = "drop"
  /\ DeleteReleases(play.gone)
  /\ play' = [play EXCEPT !.pc = "play"]
  /\ UNCHANGED <<flight, claimed, prepared, fetch, counts>>

(* The stream opens and pins its row; Suspend unpins and pauses. *)
PinOnly ==
  /\ play.pc = "play" /\ pinned # {play.r} /\ TorrentClaimed(play.r)
  /\ pinned' = {play.r}
  /\ UNCHANGED <<flight, claimed, prepared, held, rows, kept, fetch, play, counts>>
Suspend ==
  /\ play.pc = "play"
  /\ LET r == TorrentForEpisode IN
     /\ pinned' = pinned \ {r}
     /\ \/ held' = IF InEngine(r) THEN [held EXCEPT ![r] = "paused"] ELSE held
        \/ UNCHANGED held
  /\ play' = PlayIdle
  /\ UNCHANGED <<flight, claimed, prepared, rows, kept, fetch, counts>>

(* adopt, in the sweep: an untracked torrent no fetch has in hand gets a row. *)
Adopt(r) ==
  /\ InEngine(r) /\ rows[r] = "none" /\ r \notin claimed
  /\ rows' = [rows EXCEPT ![r] = "adopted"]
  /\ UNCHANGED <<flight, claimed, prepared, held, kept, pinned, fetch, play, counts>>

FetchStep(f) ==
  \/ CheckHeld(f) \/ NothingFound(f) \/ ClaimTorrent(f) \/ WarmFailed(f) \/ RecordLook(f)
  \/ RecordWrite(f) \/ KeepDownload(f) \/ PauseAbandoned(f) \/ DiscardLook(f) \/ DiscardDelete(f)
  \/ SupersededLook(f) \/ SupersededDrop(f) \/ EndFetch(f)
  \/ \E r \in Releases : AddFirst(f, r)
  \/ \E o \in {"record", "dead", "stopped"} : Warm(f, o)
  \/ \E done \in BOOLEAN : AwaitOrStop(f, done)
PlayStep ==
  \/ ResumeHeld \/ Attach \/ NoCandidate \/ CandidateDiscard \/ CandidateDelete
  \/ PlaySuperseded \/ PlayDrop
  \/ \E r \in Releases : TryCandidate(r)
  \/ \E ok \in BOOLEAN : Reheated(ok) \/ Candidate(ok)
FetchNext ==
  \/ \E f \in Fetchers : FetchStep(f) \/ \E pick \in Releases \cup {NoRelease} :
                           Promote(f, pick) \/ \E keep \in BOOLEAN : BeginFetch(f, keep, pick)
  \/ PlayStep \/ Reattach \/ PinOnly \/ Suspend
  \/ \E r \in Releases : Prepare(r) \/ Adopt(r)

FetchSpec == FetchInit /\ [][FetchNext]_fetchVars
-----------------------------------------------------------------------------
FetchTypeOK ==
  /\ held \in [Releases -> {"absent", "running", "paused"}]
  /\ rows \in [Releases -> {"none", "adopted", "selected", "superseded"}]
  /\ flight.rec \in Releases \cup {NoRelease} /\ claimed \subseteq Releases
  /\ kept \subseteq Releases /\ pinned \subseteq Releases

(* However fetches, plays and the sweep interleave, an episode has at most one
   release on record ("or a prepare and a play picking differently leave two"),
   and a kept release is one the store has a row for. *)
OneSelected ==
  /\ Cardinality(Selected) <= 1
  /\ \A r \in kept \cup pinned : rows[r] # "none"

QuietFetch == play.pc = "idle" /\ \A f \in Fetchers : fetch[f].pc = "idle"

(* With no viewer in between, what fetches leave in the engine is on record for
   the episode, at most one of them as its release: one that was interrupted or
   dead is there for the retry, one that was resolved ahead and replaced is gone. *)
FetchLeavesRecorded ==
  (QuietFetch /\ counts.plays = 0) =>
    \A r \in Releases : InEngine(r) => TorrentClaimed(r)

(* An episode has one release and the engine nothing unrecorded: the parts above. *)
FetchSafe == FetchTypeOK /\ OneSelected /\ FetchLeavesRecorded
=============================================================================
