------------------------------- MODULE CacheSweep -------------------------------
(* The download cache (library/cache.go, store/cache.go): a row per file the
   budget pays for, what the engine holds, and everything that deletes: the
   scheduled sweep, making room for a prefetch, deleting what was watched, and
   the viewer's own Remove, Clear and orphan cleanup.

   Deleting is always whole torrents.  The sweep and MakeRoom exclude each other;
   nothing else does, and each acts on the rows it read.  Every file has size one. *)
EXTENDS Naturals, Sequences, FiniteSets, FiniteSetsExt
Ext == INSTANCE SequencesExt

CONSTANTS CacheFiles,   \* files, numbered by the episode of the one show
          PackTorrents, \* torrents
          PackOf,       \* file |-> its torrent
          CacheBudget,
          ForgetAge,    \* forgetAge in ticks
          StalledAfter, \* stalledAfter in ticks
          LoadTime,     \* how long a starting engine may list too little, in ticks
          CacheOps      \* bound on the viewer's operations

ASSUME CacheAssumption ==
  /\ IsFiniteSet(CacheFiles) /\ IsFiniteSet(PackTorrents) /\ PackOf \in [CacheFiles -> PackTorrents]
  /\ ForgetAge \in Nat /\ LoadTime \in Nat

VARIABLES row,      \* cache_entry by file, or NoRow
          lib,      \* the engine: torrents held, those running, and ticks until it lists all
          ondisk,   \* files with bytes on disk
          absent,   \* Cache.absent: count and age by torrent
          stall,    \* Cache.progress: ticks without a byte by torrent
          watched,  \* playback.watched
          last,     \* the file played last and not finished, or 0
          sweep,    \* the holder of the sweeping lock: what it has left to evict
          user,     \* a deletion outside the lock, likewise
          ops
cacheVars == <<row, lib, ondisk, absent, stall, watched, last, sweep, user, ops>>

NoRow == [last |-> 0]
Row == [pinned : BOOLEAN, kept : BOOLEAN, complete : BOOLEAN, bytes : 0..1, last : 1..3]
NewRow == [pinned |-> FALSE, kept |-> FALSE, complete |-> FALSE, bytes |-> 0, last |-> 1]
NoBytes == [t \in PackTorrents |-> 0]
IdleEvictor == [on |-> "idle", order |-> <<>>, after |-> 0, target |-> 0, freed |-> NoBytes, safe |-> {}]
NoAbsence == [count |-> 0, age |-> 0]

FilesOf(t) == {f \in CacheFiles : PackOf[f] = t}
Rows == {f \in CacheFiles : row[f] # NoRow}
Tracked == {PackOf[f] : f \in Rows}

(* CacheUsage: kept files are outside the budget. *)
UsageBytes == Cardinality({f \in Rows : row[f].bytes = 1 /\ ~row[f].kept})
TorrentBytes(t) == Cardinality({f \in FilesOf(t) \cap Rows : row[f].bytes = 1})
AllBytes == [t \in PackTorrents |-> TorrentBytes(t)]

CacheInit ==
  /\ row = [f \in CacheFiles |-> NoRow]
  /\ lib = [held |-> {}, live |-> {}, loading |-> 0] /\ ondisk = {}
  /\ absent = [t \in PackTorrents |-> NoAbsence] /\ stall = [t \in PackTorrents |-> 0]
  /\ watched = {} /\ last = 0
  /\ sweep = IdleEvictor /\ user = IdleEvictor /\ ops = 0

-----------------------------------------------------------------------------
(* What happens to downloads meanwhile *)

(* RecordTorrent after a fetch or a play: the file gets its row. *)
RecordFile(f) ==
  /\ ops < CacheOps /\ ops' = ops + 1
  /\ row' = [row EXCEPT ![f] = IF @ = NoRow THEN NewRow ELSE [@ EXCEPT !.last = 3]]
  /\ lib' = [lib EXCEPT !.held = @ \cup {PackOf[f]}, !.live = @ \cup {PackOf[f]}]
  /\ UNCHANGED <<ondisk, absent, stall, watched, last, sweep, user>>

(* Bytes of a file arrive. *)
FileArrives(f) ==
  /\ PackOf[f] \in lib.live /\ row[f] # NoRow /\ f \notin ondisk
  /\ ondisk' = ondisk \cup {f}
  /\ UNCHANGED <<row, lib, absent, stall, watched, last, sweep, user, ops>>

(* PinOnly as a stream opens, and the play ending watched or not. *)
PinFile(f) ==
  /\ ops < CacheOps /\ ops' = ops + 1 /\ row[f] # NoRow
  /\ row' = [g \in CacheFiles |-> IF row[g] = NoRow THEN NoRow
                                  ELSE IF g = f THEN [row[g] EXCEPT !.pinned = TRUE, !.last = 3]
                                  ELSE [row[g] EXCEPT !.pinned = FALSE, !.last = IF @ = 3 THEN 2 ELSE @]]
  /\ last' = f
  /\ UNCHANGED <<lib, ondisk, absent, stall, watched, sweep, user>>
EndPlay(f, seen) ==
  /\ row[f] # NoRow /\ row[f].pinned
  /\ row' = [row EXCEPT ![f].pinned = FALSE]
  /\ watched' = IF seen THEN watched \cup {f} ELSE watched
  /\ last' = IF seen THEN 0 ELSE last
  /\ UNCHANGED <<lib, ondisk, absent, stall, sweep, user, ops>>

(* Keep moves a whole download into or out of the kept tier. *)
Keep(t, kept) ==
  /\ ops < CacheOps /\ ops' = ops + 1 /\ t \in Tracked
  /\ row' = [f \in CacheFiles |-> IF f \in FilesOf(t) \cap Rows THEN [row[f] EXCEPT !.kept = kept] ELSE row[f]]
  /\ UNCHANGED <<lib, ondisk, absent, stall, watched, last, sweep, user>>

(* A torrent leaves the engine outside kuro, its files staying on disk or not. *)
LostOutside(t, files) ==
  /\ ops < CacheOps /\ ops' = ops + 1 /\ t \in lib.held
  /\ lib' = [lib EXCEPT !.held = @ \ {t}, !.live = @ \ {t}]
  /\ ondisk' = IF files THEN ondisk ELSE ondisk \ FilesOf(t)
  /\ UNCHANGED <<row, absent, stall, watched, last, sweep, user>>

(* kuro starts again: pins left by a crash are cleared, what was counted in memory
   is gone, and the engine lists too little while it loads. *)
Restart ==
  /\ ops < CacheOps /\ ops' = ops + 1
  /\ row' = [f \in CacheFiles |-> IF row[f] = NoRow THEN NoRow ELSE [row[f] EXCEPT !.pinned = FALSE]]
  /\ lib' = [lib EXCEPT !.loading = LoadTime]
  /\ absent' = [t \in PackTorrents |-> NoAbsence] /\ stall' = [t \in PackTorrents |-> 0]
  /\ sweep' = IdleEvictor /\ user' = IdleEvictor
  /\ UNCHANGED <<ondisk, watched, last>>

SetLive(t, run) ==
  /\ t \in lib.held /\ (t \in lib.live) # run
  /\ lib' = [lib EXCEPT !.live = IF run THEN @ \cup {t} ELSE @ \ {t}]
  /\ UNCHANGED <<row, ondisk, absent, stall, watched, last, sweep, user, ops>>

(* Time passes: absences and stalls age, up to the thresholds they are read at. *)
CacheTick ==
  /\ absent' = [t \in PackTorrents |-> IF absent[t].count = 0 THEN NoAbsence
                                       ELSE [absent[t] EXCEPT !.age = IF @ < ForgetAge THEN @ + 1 ELSE @]]
  /\ stall' = [t \in PackTorrents |-> IF stall[t] \in 1..StalledAfter THEN stall[t] + 1 ELSE stall[t]]
  /\ lib' = [lib EXCEPT !.loading = IF @ = 0 THEN 0 ELSE @ - 1]
  /\ <<absent', stall', lib'>> # <<absent, stall, lib>>
  /\ UNCHANGED <<row, ondisk, watched, last, sweep, user, ops>>

-----------------------------------------------------------------------------
(* The sweep *)

(* A listing: all the engine holds, or fewer while it loads. *)
Listings == IF lib.loading > 0 THEN SUBSET lib.held ELSE {lib.held}

\* Variant for mutation: one listing without the torrent is enough.
MissingOnce(t) == TRUE

(* missing: one more absence; forgotten after two of them, ForgetAge apart. *)
Missing(t) == absent[t].count >= 1 /\ absent[t].age >= ForgetAge

(* keptOnDisk: a kept download whose files are still there stays on record. *)
KeptOnDisk(t) == \E f \in FilesOf(t) \cap Rows : row[f].kept /\ FilesOf(t) \cap ondisk # {}

(* forgetVanished: what the listing lacks is counted once per torrent; nothing
   listed is an engine still loading. *)
ForgetVanished(list) == IF list = {} THEN {} ELSE {t \in Tracked \ list : Missing(t) /\ ~KeptOnDisk(t)}
CountAbsent(list) ==
  [t \in PackTorrents |-> IF t \in list THEN NoAbsence
                          ELSE IF list # {} /\ t \in Tracked
                          THEN [absent[t] EXCEPT !.count = IF @ < 2 THEN @ + 1 ELSE @]
                          ELSE absent[t]]

(* watch and unwatch: a running torrent that gained nothing ages towards stalled,
   one that is done or not running does not. *)
Watch(t) ==
  LET got == FilesOf(t) \cap ondisk
      counted == {f \in FilesOf(t) \cap Rows : row[f].bytes = 1}
  IN IF t \notin lib.live \/ FilesOf(t) \cap Rows \subseteq ondisk THEN 0
     ELSE IF stall[t] = 0 \/ got # counted THEN 1 ELSE stall[t]

(* refresh: rows are forgotten, then sizes and completion are read from the engine. *)
Refresh(list) ==
  LET gone == ForgetVanished(list)
      measure(f) == IF row[f] = NoRow \/ PackOf[f] \in gone THEN NoRow
                    ELSE IF PackOf[f] \notin list THEN row[f]
                    ELSE [row[f] EXCEPT !.bytes = IF f \in ondisk THEN 1 ELSE 0, !.complete = f \in ondisk]
  IN /\ row' = [f \in CacheFiles |-> measure(f)]
     /\ absent' = CountAbsent(list)
     /\ stall' = [t \in PackTorrents |-> IF t \in list /\ t \in Tracked \ gone THEN Watch(t) ELSE stall[t]]

(* evictionOrder: a pin, a keep, the episode in progress or an unfinished file that
   is not stalled holds its whole torrent; the rest go by their latest play, those
   that tie in the order the table lists them, any here (Protected is the show's
   status, one for all the files of one show). *)
HoldsTorrent(f) ==
  row[f].pinned \/ row[f].kept \/ f = last \/ (~row[f].complete /\ stall[PackOf[f]] <= StalledAfter)
Latest(t) == Max({row[f].last : f \in FilesOf(t) \cap Rows})
Free(spared) == {t \in Tracked \ spared : \A f \in FilesOf(t) \cap Rows : ~HoldsTorrent(f)}
EvictionOrder(spared) ==
  {s \in Ext!SetToSeqs(Free(spared)) : \A i, j \in DOMAIN s : i < j => Latest(s[i]) <= Latest(s[j])}

(* Ghost: the files nobody may lose to this sweep, held when it read the rows. *)
HeldFiles == {f \in Rows : row[f].pinned \/ row[f].kept}

SweepRefresh(list) ==
  /\ sweep = IdleEvictor
  /\ Refresh(list)
  /\ sweep' = [IdleEvictor EXCEPT !.on = "usage"]
  /\ UNCHANGED <<lib, ondisk, watched, last, user, ops>>

(* Sweep: over budget, the rows of this moment decide the order. *)
SweepUsage ==
  /\ sweep.on = "usage"
  /\ \/ UsageBytes <= CacheBudget /\ sweep' = IdleEvictor
     \/ /\ UsageBytes > CacheBudget
        /\ \E order \in EvictionOrder({}) :
             sweep' = [on |-> "evict", order |-> order, after |-> UsageBytes,
                       target |-> CacheBudget, freed |-> AllBytes, safe |-> HeldFiles]
  /\ UNCHANGED <<row, lib, ondisk, absent, stall, watched, last, user, ops>>

(* MakeRoom: never a torrent with an unwatched episode of the show, and nothing at
   all unless what can go is enough for one more file. *)
MakeRoom ==
  /\ sweep = IdleEvictor /\ UsageBytes > CacheBudget - 1
  /\ LET unseen == {t \in PackTorrents : \E f \in FilesOf(t) \cap Rows : f \notin watched}
         available == Cardinality({f \in Rows : PackOf[f] \in Free(unseen) /\ row[f].bytes = 1})
     IN /\ UsageBytes <= CacheBudget - 1 + available
        /\ \E order \in EvictionOrder(unseen) :
             sweep' = [on |-> "evict", order |-> order, after |-> UsageBytes,
                       target |-> CacheBudget - 1, freed |-> AllBytes, safe |-> HeldFiles \cup (Rows \ watched)]
  /\ UNCHANGED <<row, lib, ondisk, absent, stall, watched, last, user, ops>>

(* evict: through the engine if it holds the torrent, else by name; then the rows. *)
Evict(t) ==
  /\ lib' = [lib EXCEPT !.held = @ \ {t}, !.live = @ \ {t}]
  /\ ondisk' = ondisk \ FilesOf(t)
  /\ row' = [f \in CacheFiles |-> IF PackOf[f] = t THEN NoRow ELSE row[f]]
  /\ UNCHANGED last

(* evictDownTo: one torrent at a time until the target; a failed delete is passed over. *)
SweepEvict(ok) ==
  /\ sweep.on = "evict" /\ sweep.order # <<>> /\ sweep.after > sweep.target
  /\ LET t == Head(sweep.order) IN
     /\ IF ok THEN Evict(t) ELSE UNCHANGED <<lib, ondisk, row, last>>
     /\ sweep' = [sweep EXCEPT !.order = Tail(@),
                               !.after = IF ok THEN @ - sweep.freed[t] ELSE @]
  /\ UNCHANGED <<absent, stall, watched, user, ops>>
SweepEnd ==
  /\ sweep.on = "evict" /\ (sweep.order = <<>> \/ sweep.after <= sweep.target)
  /\ sweep' = IdleEvictor
  /\ UNCHANGED <<row, lib, ondisk, absent, stall, watched, last, user, ops>>

-----------------------------------------------------------------------------
(* Deletions outside the lock *)

UserBegins(S) ==
  /\ user = IdleEvictor /\ ops < CacheOps /\ ops' = ops + 1 /\ S # {}
  /\ user' = [IdleEvictor EXCEPT !.on = "evict", !.order = Ext!SetToSeq(S), !.safe = {f \in Rows : row[f].pinned}]
  /\ UNCHANGED <<row, lib, ondisk, absent, stall, watched, last, sweep>>

(* Remove: refused while any of its files plays. *)
RemoveDownload(t) == t \in Tracked /\ (\A f \in FilesOf(t) \cap Rows : ~row[f].pinned) /\ UserBegins({t})

(* Clear: everything neither playing nor kept; completedOnly spares the unfinished. *)
Clear(completedOnly) ==
  UserBegins({t \in Tracked : \A f \in FilesOf(t) \cap Rows :
                ~row[f].pinned /\ ~row[f].kept /\ (completedOnly => row[f].complete)})

(* AutoDelete: torrents all of whose episodes are done with. *)
Done(f, mode) == f \in watched /\ (mode = "now" \/ {f + 1, f + 2} \subseteq watched)
AutoDelete(mode, downloads) ==
  UserBegins({t \in Tracked : \A f \in FilesOf(t) \cap Rows :
                ~row[f].pinned /\ (downloads \/ ~row[f].kept) /\ Done(f, mode)})

UserEvict ==
  /\ user.on = "evict"
  /\ Evict(Head(user.order))
  /\ user' = IF Len(user.order) = 1 THEN IdleEvictor ELSE [user EXCEPT !.order = Tail(@)]
  /\ UNCHANGED <<absent, stall, watched, sweep, ops>>

(* RemoveOrphans: files neither on record nor under a listed torrent go. *)
RemoveOrphans(list) ==
  /\ ops < CacheOps /\ ops' = ops + 1
  /\ LET named == Tracked \cup list
         gone == {f \in ondisk : PackOf[f] \notin named}
     IN gone # {} /\ ondisk' = ondisk \ gone
  /\ UNCHANGED <<row, lib, absent, stall, watched, last, sweep, user>>

CacheNext ==
  \/ \E f \in CacheFiles : RecordFile(f) \/ FileArrives(f) \/ PinFile(f)
                           \/ \E seen \in BOOLEAN : EndPlay(f, seen)
  \/ \E t \in PackTorrents, b \in BOOLEAN : Keep(t, b) \/ LostOutside(t, b) \/ SetLive(t, b)
  \/ Restart \/ CacheTick
  \/ \E list \in Listings : SweepRefresh(list) \/ RemoveOrphans(list)
  \/ SweepUsage \/ MakeRoom \/ SweepEnd \/ \E ok \in BOOLEAN : SweepEvict(ok)
  \/ \E t \in PackTorrents : RemoveDownload(t)
  \/ \E b \in BOOLEAN : Clear(b) \/ \E mode \in {"now", "keep2"} : AutoDelete(mode, b)
  \/ UserEvict

CacheSpec == CacheInit /\ [][CacheNext]_cacheVars
-----------------------------------------------------------------------------
CacheTypeOK ==
  /\ row \in [CacheFiles -> Row \cup {NoRow}]
  /\ lib.held \subseteq PackTorrents /\ lib.live \subseteq lib.held
  /\ sweep.on \in {"idle", "usage", "evict"} /\ user.on \in {"idle", "evict"}
  /\ ondisk \subseteq CacheFiles

(* A file that was pinned or kept when a sweep read the rows, or an unwatched
   episode of the show when MakeRoom did, is not lost to that sweep however many
   files its pack has; one pinned when the viewer's own deletion read the rows is
   not lost to that. *)
HeldFilesSpared ==
  [][\A f \in CacheFiles : row[f] # NoRow /\ row'[f] = NoRow =>
       /\ user' = user => f \notin sweep.safe
       /\ sweep' = sweep => f \notin user.safe]_cacheVars

(* Refreshing forgets only downloads the engine really lost, although a starting
   engine lists too little, and never a kept one that is still on disk. *)
ForgetsOnlyLost ==
  [][sweep.on = "idle" /\ sweep'.on = "usage" =>
       \A f \in CacheFiles : row[f] # NoRow /\ row'[f] = NoRow =>
         /\ PackOf[f] \notin lib.held
         /\ ~(row[f].kept /\ f \in ondisk)]_cacheVars

(* Nothing held is deleted and nothing present forgotten: the parts above. *)
CacheSafe == []CacheTypeOK /\ HeldFilesSpared /\ ForgetsOnlyLost
=============================================================================
