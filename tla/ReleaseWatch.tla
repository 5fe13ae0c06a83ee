---------------------------- MODULE ReleaseWatch ----------------------------
(* News of a followed show (library/watcher.go, store/notify.go, server/prefs.go): the job's
   poll, and one a person asks for, look for a release of the episode that aired last, put it
   in the bell once and queue it where the show downloads by itself.  One show stands for all:
   a poll takes them one after the other. *)
EXTENDS Integers, FiniteSets

CONSTANTS RwEpisodes,   \* 1..n
          RwCovers,     \* release |-> episodes it holds
          RwDubbed,     \* releases that are dub only
          RwPolls, RwFaults, RwChanges   \* bounds on polls, failures and changes of the settings
ASSUME RwAssumption ==
  /\ RwEpisodes \subseteq Nat \ {0} /\ \E n \in RwEpisodes : RwEpisodes = 1 .. n
  /\ 0 \notin DOMAIN RwCovers

VARIABLES rwNext,      \* anime.next_episode; its time has passed?
          rwProgress,  \* list_entry.progress
          rwOut,       \* releases the indexers have
          rwPref,      \* notify.enabled, autodownload.enabled, notify.releases = "either"
          rwRecord,    \* notified_release: info_hash |-> episode, or 0
          rwTold,      \* episode |-> notifications raised
          rwQueue,     \* episodes enqueued
          rwPoll,      \* poller |-> its poll
          rwOwed,      \* episodes a poll found that download by themselves
          rwCrossed,   \* two polls were at the same episode
          rwLost,      \* a write failed, or the program stopped between two
          rwUsed       \* [polls, faults, changes]
rwVars == <<rwNext, rwProgress, rwOut, rwPref, rwRecord, rwTold, rwQueue, rwPoll, rwOwed, rwCrossed,
            rwLost, rwUsed>>

Pollers == {"job", "hand"}
RwReleases == DOMAIN RwCovers
RwIdle == [pc |-> "idle", ep |-> 0, notify |-> FALSE, auto |-> FALSE, any |-> FALSE, announce |-> 0, fetch |-> 0]
RwInit ==
  /\ rwNext = [ep |-> 1, aired |-> FALSE] /\ rwProgress = 0 /\ rwOut = {}
  /\ rwPref = [notify |-> TRUE, auto |-> TRUE, any |-> TRUE]
  /\ rwRecord = [t \in RwReleases |-> 0] /\ rwTold = [e \in RwEpisodes |-> 0] /\ rwQueue = {}
  /\ rwPoll = [p \in Pollers |-> RwIdle] /\ rwOwed = {} /\ rwCrossed = FALSE /\ rwLost = FALSE
  /\ rwUsed = [polls |-> 0, faults |-> 0, changes |-> 0]
RwSpend(f, bound) == rwUsed[f] < bound /\ rwUsed' = [rwUsed EXCEPT ![f] = @ + 1]

(* Latest: the next episode once its time has passed, else the one before it. *)
Latest == IF rwNext.aired THEN rwNext.ep ELSE rwNext.ep - 1
(* AlreadyNotified: by the release, or by the episode whatever the release. *)
AlreadyNotified(t, e) == rwRecord[t] # 0 \/ \E u \in RwReleases : rwRecord[u] = e
Recorded(t, e) == IF rwRecord[t] # 0 THEN rwRecord ELSE [rwRecord EXCEPT ![t] = e]

(* Poll: either switch is reason to look, and only at what aired last and was not told. *)
PollStarts(p) ==
  /\ rwPoll[p].pc = "idle" /\ RwSpend("polls", RwPolls)
  /\ rwPref.notify \/ rwPref.auto
  /\ Latest > rwProgress /\ \A u \in RwReleases : rwRecord[u] # Latest
  /\ rwPoll' = [rwPoll EXCEPT ![p] = [RwIdle EXCEPT !.pc = "find", !.ep = Latest, !.notify = rwPref.notify,
                                                    !.auto = rwPref.auto, !.any = rwPref.any]]
  /\ rwCrossed' = (rwCrossed \/ \E q \in Pollers \ {p} : rwPoll[q].pc # "idle")
  /\ UNCHANGED <<rwNext, rwProgress, rwOut, rwPref, rwRecord, rwTold, rwQueue, rwOwed, rwLost>>
(* check: the first confirmed release to fetch, and the first of a wanted sound to announce. *)
Find(p) ==
  /\ rwPoll[p].pc = "find"
  /\ LET e == rwPoll[p].ep
         found == {t \in rwOut : e \in RwCovers[t] /\ ~AlreadyNotified(t, e)}
         wanted == {t \in found : rwPoll[p].any \/ t \notin RwDubbed} IN
     IF found = {} THEN rwPoll' = [rwPoll EXCEPT ![p] = RwIdle] /\ rwOwed' = rwOwed
     ELSE /\ rwOwed' = IF rwPoll[p].auto THEN rwOwed \cup {e} ELSE rwOwed
          /\ \E fetch \in found, announce \in IF wanted = {} THEN {0} ELSE wanted :
               rwPoll' = [rwPoll EXCEPT ![p].pc = "tell", ![p].fetch = fetch,
                                        ![p].announce = IF rwPoll[p].notify THEN announce ELSE 0]
  /\ UNCHANGED <<rwNext, rwProgress, rwOut, rwPref, rwRecord, rwTold, rwQueue, rwCrossed, rwLost, rwUsed>>
(* Nothing to announce: the release is recorded as known.  Else notify: the bell first. *)
Tell(p) ==
  /\ rwPoll[p].pc = "tell"
  /\ LET e == rwPoll[p].ep
         silent == rwPoll[p].announce = 0 IN
     /\ rwTold' = IF silent THEN rwTold ELSE [rwTold EXCEPT ![e] = @ + 1]
     /\ rwRecord' = IF silent THEN Recorded(rwPoll[p].fetch, e) ELSE rwRecord
     /\ rwPoll' = [rwPoll EXCEPT ![p].pc = IF silent THEN "queue" ELSE "record"]
  /\ UNCHANGED <<rwNext, rwProgress, rwOut, rwPref, rwQueue, rwOwed, rwCrossed, rwLost, rwUsed>>
RecordNotified(p) ==
  /\ rwPoll[p].pc = "record"
  /\ rwRecord' = Recorded(rwPoll[p].announce, rwPoll[p].ep)
  /\ rwPoll' = [rwPoll EXCEPT ![p].pc = "queue"]
  /\ UNCHANGED <<rwNext, rwProgress, rwOut, rwPref, rwTold, rwQueue, rwOwed, rwCrossed, rwLost, rwUsed>>
(* download: for a show that downloads by itself, told or not. *)
Download(p) ==
  /\ rwPoll[p].pc = "queue"
  /\ rwQueue' = IF rwPoll[p].auto THEN rwQueue \cup {rwPoll[p].ep} ELSE rwQueue
  /\ rwPoll' = [rwPoll EXCEPT ![p] = RwIdle]
  /\ UNCHANGED <<rwNext, rwProgress, rwOut, rwPref, rwRecord, rwTold, rwOwed, rwCrossed, rwLost, rwUsed>>
(* A write fails and the poll goes on: untold and unrecorded, told and unrecorded, or unqueued. *)
WriteFails(p) ==
  /\ rwPoll[p].pc \in {"tell", "record", "queue"} /\ RwSpend("faults", RwFaults)
  /\ rwPoll' = [rwPoll EXCEPT ![p] = IF @.pc = "queue" THEN RwIdle ELSE [@ EXCEPT !.pc = "queue"]]
  /\ rwLost' = TRUE
  /\ UNCHANGED <<rwNext, rwProgress, rwOut, rwPref, rwRecord, rwTold, rwQueue, rwOwed, rwCrossed>>
(* The program stops: polls are cut where they are. *)
Stops ==
  /\ \E p \in Pollers : rwPoll[p].pc # "idle"
  /\ RwSpend("faults", RwFaults)
  /\ rwPoll' = [p \in Pollers |-> RwIdle] /\ rwLost' = TRUE
  /\ UNCHANGED <<rwNext, rwProgress, rwOut, rwPref, rwRecord, rwTold, rwQueue, rwOwed, rwCrossed>>

(* Time, the catalogue, the uploaders, the viewer and the settings. *)
Airs ==
  /\ ~rwNext.aired /\ rwNext' = [rwNext EXCEPT !.aired = TRUE]
  /\ UNCHANGED <<rwProgress, rwOut, rwPref, rwRecord, rwTold, rwQueue, rwPoll, rwOwed, rwCrossed, rwLost, rwUsed>>
CatalogueMoves ==
  /\ rwNext.aired /\ rwNext.ep + 1 \in RwEpisodes /\ rwNext' = [ep |-> rwNext.ep + 1, aired |-> FALSE]
  /\ UNCHANGED <<rwProgress, rwOut, rwPref, rwRecord, rwTold, rwQueue, rwPoll, rwOwed, rwCrossed, rwLost, rwUsed>>
Uploaded(t) ==
  /\ t \notin rwOut /\ \A e \in RwCovers[t] : e <= Latest
  /\ rwOut' = rwOut \cup {t}
  /\ UNCHANGED <<rwNext, rwProgress, rwPref, rwRecord, rwTold, rwQueue, rwPoll, rwOwed, rwCrossed, rwLost, rwUsed>>
Watched ==
  /\ rwProgress < Latest /\ rwProgress' = rwProgress + 1
  /\ UNCHANGED <<rwNext, rwOut, rwPref, rwRecord, rwTold, rwQueue, rwPoll, rwOwed, rwCrossed, rwLost, rwUsed>>
SetPref(k) ==
  /\ RwSpend("changes", RwChanges) /\ rwPref' = [rwPref EXCEPT ![k] = ~@]
  /\ UNCHANGED <<rwNext, rwProgress, rwOut, rwRecord, rwTold, rwQueue, rwPoll, rwOwed, rwCrossed, rwLost>>

RwNext ==
  \/ \E p \in Pollers : PollStarts(p) \/ Find(p) \/ Tell(p) \/ RecordNotified(p) \/ Download(p) \/ WriteFails(p)
  \/ Stops \/ Airs \/ CatalogueMoves \/ Watched
  \/ \E t \in RwReleases : Uploaded(t)
  \/ \E k \in {"notify", "auto", "any"} : SetPref(k)
RwSpec == RwInit /\ [][RwNext]_rwVars

-----------------------------------------------------------------------------
(* An episode is told once, however many releases of it come out and however often it is
   looked for; unless two polls met at it or a write was lost. *)
ToldOnce == ~rwCrossed /\ ~rwLost => \A e \in RwEpisodes : rwTold[e] <= 1
(* No poll ends half done: what it found and told is on record as told, so the next poll is
   silent about it (two polls at a release of several episodes record it for one of them), and
   what downloads by itself is queued, whatever order two polls ran in. *)
PollsFinish == ~rwLost /\ (\A p \in Pollers : rwPoll[p].pc = "idle") =>
  /\ rwOwed \subseteq rwQueue
  /\ ~rwCrossed => \A e \in RwEpisodes : rwTold[e] > 0 => \E t \in RwReleases : rwRecord[t] = e
WatchNews == ToldOnce /\ PollsFinish
=============================================================================
