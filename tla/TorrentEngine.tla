----------------------------- MODULE TorrentEngine -----------------------------
(* The embedded torrent engine (internal/engine): the torrents it manages and
   the ones it only inspects, the names their files go under, the session file
   that survives a restart and the records of complete pieces.

   An API call is a sequence of steps, one per stretch of code under e.mu, so two
   calls interleave where the code releases the lock.  Every torrent here
   has the same name: that is the case the layout exists for, and a top is then
   the shared name (Own) or the name with the torrent's hash appended (the hash).
   kuro deletes with data only (Client.Delete), never through /forget. *)
EXTENDS Integers, FiniteSets

CONSTANTS EngHashes,   \* torrents, numbered in the order of their hex hashes
          EngFiles,    \* file indices inside a torrent
          EngCalls,    \* slots for API requests in flight, numbered above the ids
          EngMaxID,    \* bound on the ids handed out in one run of the process
          EngTTL,      \* inspectionTTL in janitor ticks
          EngMaxRuns,  \* bound on the starts of the process
          EngMaxCalls, \* bound on the requests
          EngLegacy,   \* the torrent an rqbit session holds at the first start
          EngDamage    \* whether a session naming tops of their own may be damaged

Own == 0
NoTop == -1
NoHash == 0
EngIds == 1..EngMaxID
EngPaths == EngHashes \cup {Own}
EngThreads == EngCalls \cup EngIds   \* thread i \in EngIds: entry i's resume goroutine

VARIABLES eng,    \* the Engine struct: phase, byID, byHash, nextID, inspected, tops, busy, saver
          bt,     \* the BitTorrent client's torrents, by hash
          disk,   \* what outlives the process: doc (session.json), metas, pieces, files, legacy,
                  \* calls (for the bound); torn notes that a crash cut a request short of its save
          call    \* each thread's request and where it stands
engVars == <<eng, bt, disk, call>>

Entry == [h : EngHashes, sel : SUBSET EngFiles, paused : BOOLEAN,
          verifying : BOOLEAN, quiet : BOOLEAN]
NoEntry == [h |-> NoHash]
Record == [sel : SUBSET EngFiles, paused : BOOLEAN, verify : BOOLEAN, top : EngPaths \cup {NoTop}]
NoRecord == [top |-> NoTop]
Torrent == [st : {"bare", "info"}, home : EngPaths \cup {NoTop}, prio : SUBSET EngFiles]
NoTorrent == [st |-> "none", home |-> NoTop, prio |-> {}]
Idle == [pc |-> "idle", h |-> NoHash]
NoSaver == [by |-> "none"]

InfoKnown(h) == bt[h].st = "info"
Held == {i \in EngIds : eng.byID[i] # NoEntry}

(* Completion trusts a record only while the bytes are on disk. *)
Have(h, home, d) == {f \in d.pieces[h] : home # NoTop /\ d.files[home][f] # NoHash}

(* wantsData: a selected file is not yet complete. *)
WantsData(en, b, d) == \E f \in en.sel : f \notin Have(en.h, b[en.h].home, d)

\* Variant for mutation: same-named torrents share the name.
TopShared(h, tops) == IF tops[h] # NoTop THEN tops[h] ELSE Own

(* top: the name decided on first sight and kept; a name another torrent has is
   taken with the hash appended. *)
Top(h, tops) == IF tops[h] # NoTop THEN tops[h]
                ELSE IF \E o \in EngHashes \ {h} : tops[o] = Own THEN h ELSE Own

(* focus: complete torrents go quiet while anything downloads or is inspected. *)
Refocus(e, b, d) ==
  LET held == {i \in EngIds : e.byID[i] # NoEntry}
      busy == \/ \E h \in EngHashes : e.inspected[h] > 0
              \/ \E i \in held : /\ ~e.byID[i].paused
                                 /\ b[e.byID[i].h].st = "info" => WantsData(e.byID[i], b, d)
      quieten(en) == IF b[en.h].st # "info" THEN en
                     ELSE [en EXCEPT !.quiet = en.paused \/ (busy /\ ~WantsData(en, b, d))]
  IN  [e EXCEPT !.busy = busy,
                !.byID = [i \in EngIds |-> IF i \in held THEN quieten(e.byID[i]) ELSE NoEntry]]

(* forgetMissing: records of pieces whose file is gone are cleared. *)
ForgetMissing(d, h, home) ==
  [d EXCEPT !.pieces[h] = {f \in d.pieces[h] : d.files[home][f] # NoHash}]

(* track: a new entry under the next id. *)
Track(e, h, sel, paused, verifying) ==
  [e EXCEPT !.byID[e.nextID] = [h |-> h, sel |-> sel, paused |-> paused,
                                verifying |-> verifying, quiet |-> FALSE],
            !.byHash[h] = e.nextID, !.nextID = e.nextID + 1]

(* The record writeSession makes of an entry. *)
RecordOf(en) ==
  [sel |-> en.sel, paused |-> en.paused, verify |-> en.verifying,
   top |-> IF InfoKnown(en.h) /\ Top(en.h, eng.tops) # Own THEN Top(en.h, eng.tops) ELSE NoTop]
Snapshot ==
  [h \in EngHashes |-> IF \E i \in Held : eng.byID[i].h = h
                       THEN RecordOf(eng.byID[CHOOSE i \in Held : eng.byID[i].h = h])
                       ELSE NoRecord]

EmptyMemory(runs) ==
  [phase |-> "off", runs |-> runs, byID |-> [i \in EngIds |-> NoEntry],
   byHash |-> [h \in EngHashes |-> 0], nextID |-> 1, inspected |-> [h \in EngHashes |-> 0],
   tops |-> [h \in EngHashes |-> NoTop], busy |-> FALSE, saver |-> NoSaver]

(* A first start finds rqbit's session: one torrent with its first file on disk. *)
EngInit ==
  LET first == CHOOSE f \in EngFiles : \A g \in EngFiles : f <= g IN
  /\ eng = EmptyMemory(0)
  /\ bt = [h \in EngHashes |-> NoTorrent]
  /\ disk = [st |-> "absent", doc |-> [h \in EngHashes |-> NoRecord], metas |-> {},
             pieces |-> [h \in EngHashes |-> {}], legacy |-> TRUE, torn |-> FALSE, calls |-> 0,
             files |-> [p \in EngPaths |-> [f \in EngFiles |->
                          IF p = Own /\ f = first THEN EngLegacy ELSE NoHash]]]
  /\ call = [t \in EngThreads |-> Idle]

-----------------------------------------------------------------------------
(* Starting and stopping *)

ImportLegacy ==
  [h \in EngHashes |-> IF disk.legacy /\ h = EngLegacy
                       THEN [sel |-> EngFiles, paused |-> FALSE, verify |-> TRUE, top |-> NoTop]
                       ELSE NoRecord]

(* rebuildSession: every torrent whose metainfo is saved, paused, all its files, no top. *)
RebuildSession ==
  [h \in EngHashes |-> IF h \in disk.metas
                       THEN [sel |-> EngFiles, paused |-> TRUE, verify |-> FALSE, top |-> NoTop]
                       ELSE NoRecord]

(* restore, one record: the saved top is claimed, the torrent added with its
   metainfo or bare, tracked, and its resume goroutine started. *)
RestoreOne(s, h) ==
  IF s.doc[h] = NoRecord THEN s ELSE
  LET r == s.doc[h]
      claimed == IF r.top = NoTop THEN s.e.tops ELSE [s.e.tops EXCEPT ![h] = r.top]
      home == IF h \in s.metas THEN Top(h, claimed) ELSE NoTop
      tops == IF h \in s.metas THEN [claimed EXCEPT ![h] = home] ELSE claimed
  IN [s EXCEPT !.e = Track([s.e EXCEPT !.tops = tops], h, r.sel, r.paused, r.verify),
               !.b[h] = [st |-> IF h \in s.metas THEN "info" ELSE "bare",
                         home |-> home, prio |-> {}],
               !.c[s.e.nextID] = [pc |-> "resume", h |-> h, id |-> s.e.nextID]]

(* Ensure: the first request starts the engine, holding startMu until the saved
   torrents are back in the order of their hashes and the session saved again. *)
Ensure ==
  /\ eng.phase = "off" /\ eng.runs < EngMaxRuns
  /\ LET doc == CASE disk.st = "absent" -> ImportLegacy
                  [] disk.st = "bad"    -> RebuildSession
                  [] OTHER              -> disk.doc
         metas == IF disk.st = "absent" /\ disk.legacy THEN disk.metas \cup {EngLegacy} ELSE disk.metas
         start == [doc |-> doc, metas |-> metas, e |-> EmptyMemory(eng.runs + 1),
                   b |-> [h \in EngHashes |-> NoTorrent], c |-> [t \in EngThreads |-> Idle]]
         restore[n \in 0..Cardinality(EngHashes)] ==
           IF n = 0 THEN start ELSE RestoreOne(restore[n - 1], n)
         done == restore[Cardinality(EngHashes)]
     IN /\ eng' = [done.e EXCEPT !.phase = "on"]
        /\ bt' = done.b
        /\ call' = done.c
        /\ disk' = [disk EXCEPT !.st = "ok", !.metas = metas,
                                !.doc = [h \in EngHashes |->
                                   IF doc[h] = NoRecord THEN NoRecord
                                   ELSE [doc[h] EXCEPT !.top = IF h \in metas /\ done.e.tops[h] # Own
                                                               THEN done.e.tops[h] ELSE NoTop]],
                                !.legacy = FALSE]

(* Stop marks the engine closed; requests in flight may run on. *)
Stop ==
  /\ eng.phase = "on"
  /\ eng' = [eng EXCEPT !.phase = "closing"]
  /\ UNCHANGED <<bt, disk, call>>

(* The final save waits for saveMu, then the client and the records are closed. *)
StopSave ==
  /\ eng.phase = "closing" /\ eng.saver = NoSaver
  /\ eng' = [eng EXCEPT !.phase = "closed"]
  /\ disk' = [disk EXCEPT !.st = "ok", !.doc = Snapshot,
                          !.metas = disk.metas \cup {h \in EngHashes :
                                       InfoKnown(h) /\ \E i \in Held : eng.byID[i].h = h}]
  /\ bt' = [h \in EngHashes |-> NoTorrent]
  /\ UNCHANGED call

(* The process ends, after Stop or in a crash: only the disk is left. *)
Exit ==
  /\ eng.phase # "off"
  /\ eng' = EmptyMemory(eng.runs)
  /\ bt' = [h \in EngHashes |-> NoTorrent]
  /\ call' = [t \in EngThreads |-> Idle]
  /\ disk' = [disk EXCEPT !.torn = @ \/ eng.phase = "closing" \/ \E c \in EngCalls : call[c] # Idle]

(* While kuro is down the session file may be damaged, or a download deleted by hand. *)
Damage ==
  /\ eng.phase = "off" /\ disk.st = "ok" /\ (EngDamage \/ \A h \in EngHashes : disk.doc[h].top = NoTop)
  /\ disk' = [disk EXCEPT !.st = "bad"]
  /\ UNCHANGED <<eng, bt, call>>
DeleteByHand(p, f) ==
  /\ eng.phase = "off" /\ disk.files[p][f] # NoHash
  /\ disk' = [disk EXCEPT !.files[p][f] = NoHash]
  /\ UNCHANGED <<eng, bt, call>>

-----------------------------------------------------------------------------
(* The swarm *)

(* The file list arrives: the storage is opened under the torrent's top. *)
GotInfo(h) ==
  /\ bt[h].st = "bare"
  /\ eng' = [eng EXCEPT !.tops[h] = Top(h, eng.tops)]
  /\ bt' = [bt EXCEPT ![h] = [@ EXCEPT !.st = "info", !.home = Top(h, eng.tops)]]
  /\ UNCHANGED <<disk, call>>

(* A wanted file completes: written where the storage was opened, and recorded. *)
PieceDone(h, f) ==
  /\ InfoKnown(h) /\ f \in bt[h].prio \ Have(h, bt[h].home, disk)
  /\ disk' = [disk EXCEPT !.files[bt[h].home][f] = h, !.pieces[h] = @ \cup {f}]
  /\ UNCHANGED <<eng, bt, call>>

-----------------------------------------------------------------------------
(* Requests *)

(* Two requests about one torrent do not overlap: the callers hold the torrent
   through their own claims.  A request takes the lowest free slot. *)
CanCall(c, h) ==
  /\ eng.phase = "on" /\ disk.calls < EngMaxCalls
  /\ call[c] = Idle /\ \A d \in EngCalls : d < c => call[d] # Idle
  /\ \A d \in EngCalls : call[d].h # h
Called == disk' = [disk EXCEPT !.calls = @ + 1]

SaveThen(h, then) == [pc |-> "save", h |-> h, then |-> then]

(* inspect, up to the wait for the file list. *)
InspectStart(c, h) ==
  /\ CanCall(c, h)
  /\ IF eng.byHash[h] # 0
     THEN UNCHANGED <<eng, bt>>
     ELSE /\ bt' = IF eng.inspected[h] > 0 THEN bt
                   ELSE [bt EXCEPT ![h] = [NoTorrent EXCEPT !.st = "bare"]]
          /\ LET e == [eng EXCEPT !.inspected[h] = EngTTL]
             IN eng' = IF eng.inspected[h] > 0 THEN e ELSE Refocus(e, bt', disk)
  /\ call' = [call EXCEPT ![c] = [pc |-> "look", h |-> h]]
  /\ Called

(* The list is known: a torrent nobody manages wants nothing; an add that took
   it over meanwhile keeps its selection. *)
InspectEnd(c) ==
  /\ call[c].pc = "look" /\ InfoKnown(call[c].h)
  /\ bt' = IF eng.byHash[call[c].h] # 0 THEN bt ELSE [bt EXCEPT ![call[c].h].prio = {}]
  /\ call' = [call EXCEPT ![c] = Idle]
  /\ UNCHANGED <<eng, disk>>

(* add, up to the wait for the file list: a held torrent, an inspected one taken
   over, or a new one. *)
AddStart(c, h, f) ==
  /\ CanCall(c, h)
  /\ \/ /\ eng.byHash[h] # 0
        /\ call' = [call EXCEPT ![c] = [pc |-> "add", h |-> h, id |-> eng.byHash[h],
                                        file |-> f, new |-> FALSE]]
        /\ UNCHANGED <<eng, bt>>
     \/ /\ eng.byHash[h] = 0 /\ eng.nextID \in EngIds
        /\ bt' = IF eng.inspected[h] > 0 THEN bt
                 ELSE [bt EXCEPT ![h] = [NoTorrent EXCEPT !.st = "bare"]]
        /\ eng' = Refocus(Track([eng EXCEPT !.inspected[h] = 0], h, {}, FALSE, FALSE), bt', disk)
        /\ call' = [call EXCEPT ![c] = [pc |-> "add", h |-> h, id |-> eng.nextID,
                                        file |-> f, new |-> TRUE]]
  /\ Called

(* add goes on: the file joins the selection, the rest as they were. *)
AddSelect(c) ==
  /\ call[c].pc = "add" /\ InfoKnown(call[c].h)
  /\ disk' = IF call[c].new THEN ForgetMissing(disk, call[c].h, bt[call[c].h].home) ELSE disk
  /\ eng' = [eng EXCEPT !.byID[call[c].id].sel = @ \cup {call[c].file}]
  /\ call' = [call EXCEPT ![c] = [pc |-> "apply", h |-> call[c].h, id |-> call[c].id]]
  /\ UNCHANGED bt

(* The caller gives up waiting; the entry, or the inspection, stays. *)
GiveUp(c) ==
  /\ call[c].pc \in {"add", "look"} /\ bt[call[c].h].st # "info"
  /\ call' = [call EXCEPT ![c] = Idle]
  /\ UNCHANGED <<eng, bt, disk>>

SetPaused(c, i, paused) ==
  /\ i \in Held /\ CanCall(c, eng.byID[i].h)
  /\ eng' = [eng EXCEPT !.byID[i].paused = paused]
  /\ call' = [call EXCEPT ![c] = [pc |-> "apply", h |-> eng.byID[i].h, id |-> i]]
  /\ Called /\ UNCHANGED bt

(* apply copies selection and pause under the lock ... *)
ApplyRead(t) ==
  /\ call[t].pc = "apply"
  /\ LET en == eng.byID[call[t].id] IN
     call' = [call EXCEPT ![t] = IF InfoKnown(en.h)
                                 THEN [pc |-> "set", h |-> en.h, id |-> call[t].id,
                                       want |-> IF en.paused THEN {} ELSE en.sel]
                                 ELSE SaveThen(en.h, Idle)]
  /\ eng' = IF InfoKnown(eng.byID[call[t].id].h) THEN eng ELSE Refocus(eng, bt, disk)
  /\ UNCHANGED <<bt, disk>>

(* ... and sets the priorities after it; a request then refocuses and saves. *)
ApplyWrite(t) ==
  /\ call[t].pc = "set"
  /\ bt' = IF InfoKnown(call[t].h) THEN [bt EXCEPT ![call[t].h].prio = call[t].want] ELSE bt
  /\ eng' = Refocus(eng, bt', disk)
  /\ call' = [call EXCEPT ![t] = IF t \in EngIds THEN Idle
                                 ELSE SaveThen(call[t].h, Idle)]
  /\ UNCHANGED disk

(* resume: a restored torrent's file list is known; carried-over data is hashed. *)
Resume(i) ==
  /\ call[i].pc = "resume" /\ InfoKnown(call[i].h)
  /\ LET h == call[i].h
         d == ForgetMissing(disk, h, bt[h].home)
     IN /\ disk' = IF ~eng.byID[i].verifying THEN d
                   ELSE [d EXCEPT !.pieces[h] = {f \in EngFiles : d.files[bt[h].home][f] = h}]
        /\ eng' = [eng EXCEPT !.byID[i].verifying = FALSE]
        /\ call' = [call EXCEPT ![i] =
                      IF eng.byID[i].verifying THEN SaveThen(h, [pc |-> "apply", h |-> h, id |-> i])
                      ELSE [pc |-> "apply", h |-> h, id |-> i]]
  /\ UNCHANGED bt

\* Variant for mutation: a save does not ask whether the engine was stopped.
SaveAnyway(c) ==
  /\ call[c].pc = "save" /\ eng.saver = NoSaver
  /\ eng' = [eng EXCEPT !.saver = [by |-> c, doc |-> Snapshot, metas |-> {}]]
  /\ call' = [call EXCEPT ![c].pc = "write"]
  /\ UNCHANGED <<bt, disk>>

(* writeSession takes saveMu and reads the entries; a save after Stop is dropped. *)
Save(c) ==
  /\ call[c].pc = "save" /\ eng.saver = NoSaver
  /\ IF eng.phase = "on"
     THEN /\ eng' = [eng EXCEPT !.saver =
                       [by |-> c, doc |-> Snapshot,
                        metas |-> {h \in EngHashes : InfoKnown(h) /\ \E i \in Held : eng.byID[i].h = h}]]
          /\ call' = [call EXCEPT ![c].pc = "write"]
     ELSE /\ call' = [call EXCEPT ![c] = @.then]
          /\ UNCHANGED eng
  /\ UNCHANGED <<bt, disk>>

(* Missing metainfo is written, then the list replaces the old one in one rename. *)
SaveWrite(c) ==
  /\ call[c].pc = "write"
  /\ disk' = [disk EXCEPT !.doc = eng.saver.doc, !.metas = @ \cup eng.saver.metas]
  /\ eng' = [eng EXCEPT !.saver = NoSaver]
  /\ call' = [call EXCEPT ![c] = @.then]
  /\ UNCHANGED bt

(* remove: out of the maps first; what a resume goroutine still does to the
   torrent dies with it ... *)
RemoveStart(c, i) ==
  /\ i \in Held /\ CanCall(c, eng.byID[i].h) /\ call[i].pc # "write"
  /\ LET h == eng.byID[i].h IN
     /\ eng' = [eng EXCEPT !.byID[i] = NoEntry, !.byHash[h] = 0]
     /\ call' = [call EXCEPT ![c] = [pc |-> "drop", h |-> h], ![i] = Idle]
  /\ Called /\ UNCHANGED bt

(* ... then the paths no other held torrent maps to are noted, the torrent
   dropped and its metainfo removed ... *)
RemoveDrop(c) ==
  /\ call[c].pc = "drop"
  /\ LET h == call[c].h
         path == Top(h, eng.tops)
         shared == \E i \in Held : LET o == eng.byID[i].h IN
                     o # h /\ InfoKnown(o) /\ Top(o, eng.tops) = path
     IN /\ bt' = [bt EXCEPT ![h] = NoTorrent]
        /\ eng' = Refocus(eng, bt', disk)
        /\ disk' = [disk EXCEPT !.metas = @ \ {h}]
        /\ call' = [call EXCEPT ![c] = SaveThen(h, [pc |-> "wipe", h |-> h,
                                          path |-> IF InfoKnown(h) /\ ~shared THEN path ELSE NoTop])]

(* ... and after the save the records and the files go, and the name is free; a
   file in use may stay. *)
RemoveWipe(c, gone) ==
  /\ call[c].pc = "wipe"
  /\ LET h == call[c].h IN
     /\ disk' = [disk EXCEPT !.pieces[h] = {},
                             !.files = [p \in EngPaths |-> IF gone /\ p = call[c].path
                                          THEN [f \in EngFiles |-> NoHash] ELSE @[p]]]
     /\ eng' = [eng EXCEPT !.tops[h] = NoTop]
  /\ call' = [call EXCEPT ![c] = Idle]
  /\ UNCHANGED bt

(* The janitor: inspections past their time are dropped and their names freed,
   the rest count down; then focus. *)
Janitor ==
  /\ eng.phase = "on"
  /\ LET old == {h \in EngHashes : eng.inspected[h] = 1}
         gone == {h \in old : eng.byHash[h] = 0}
         e == [eng EXCEPT !.inspected = [h \in EngHashes |-> IF @[h] = 0 THEN 0 ELSE @[h] - 1],
                          !.tops = [h \in EngHashes |-> IF h \in gone THEN NoTop ELSE @[h]]]
     IN /\ bt' = [h \in EngHashes |-> IF h \in gone THEN NoTorrent ELSE bt[h]]
        /\ eng' = Refocus(e, bt', disk)
  /\ UNCHANGED <<disk, call>>

EngNext ==
  \/ Ensure \/ Stop \/ StopSave \/ Exit \/ Damage
  \/ \E p \in EngPaths, f \in EngFiles : DeleteByHand(p, f)
  \/ \E h \in EngHashes : GotInfo(h) \/ \E f \in EngFiles : PieceDone(h, f)
  \/ \E c \in EngCalls :
       \/ \E h \in EngHashes : InspectStart(c, h) \/ \E f \in EngFiles : AddStart(c, h, f)
       \/ \E i \in EngIds : RemoveStart(c, i) \/ \E b \in BOOLEAN : SetPaused(c, i, b)
       \/ InspectEnd(c) \/ AddSelect(c) \/ GiveUp(c) \/ RemoveDrop(c)
       \/ \E gone \in BOOLEAN : RemoveWipe(c, gone)
  \/ \E t \in EngThreads : ApplyRead(t) \/ ApplyWrite(t) \/ Save(t) \/ SaveWrite(t)
  \/ \E i \in EngIds : Resume(i)
  \/ Janitor

EngSpec == EngInit /\ [][EngNext]_engVars

-----------------------------------------------------------------------------
EngTypeOK ==
  /\ eng.phase \in {"off", "on", "closing", "closed"}
  /\ eng.byID \in [EngIds -> Entry \cup {NoEntry}]
  /\ eng.byHash \in [EngHashes -> EngIds \cup {0}]
  /\ eng.inspected \in [EngHashes -> 0..EngTTL]
  /\ eng.tops \in [EngHashes -> EngPaths \cup {NoTop}]
  /\ bt \in [EngHashes -> Torrent \cup {NoTorrent}]
  /\ disk.doc \in [EngHashes -> Record \cup {NoRecord}]
  /\ disk.pieces \in [EngHashes -> SUBSET EngFiles]

(* Whatever the restarts, deletions and same-named torrents in between, a torrent
   never counts a file as complete that holds another torrent's bytes: the layout
   keeps same-named torrents apart, the session keeps each where it was, and
   forgetMissing and remove clear records whose bytes are gone. *)
NoForeignBytes ==
  ~disk.torn => \A h \in EngHashes : InfoKnown(h) =>
    \A f \in Have(h, bt[h].home, disk) : disk.files[bt[h].home][f] = h

(* Once no request is under way, session.json names no torrent the engine dropped:
   a deleted torrent does not come back after a crash, although saves and
   removals interleave. *)
DeletedStaysGone ==
  (eng.phase = "on" /\ \A c \in EngCalls : call[c] = Idle) =>
    \A h \in EngHashes : disk.doc[h] # NoRecord => eng.byHash[h] # 0

(* Only files some add selected are ever fetched: an inspection taken over by an
   add, a pause and a restart never widen what a torrent wants. *)
OnlySelectedFetched ==
  \A h \in EngHashes : bt[h].prio # {} =>
    \/ \E i \in Held : eng.byID[i].h = h /\ bt[h].prio \subseteq eng.byID[i].sel
    \/ \E c \in EngCalls : call[c] = [pc |-> "drop", h |-> h]

(* After Stop wrote the last session, nothing of that run changes it: a request
   that was still under way loses its late save. *)
LateSaveDropped == [][eng.phase = "closed" /\ eng'.phase = "closed" => disk'.doc = disk.doc]_engVars

(* The engine keeps its promises about files and the session: its parts above. *)
EngineSafe == EngTypeOK /\ NoForeignBytes /\ DeletedStaysGone /\ OnlySelectedFetched
=============================================================================
