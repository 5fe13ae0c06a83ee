------------------------------ MODULE WatchState ------------------------------
(* What one show's watching leaves in the store: the playback row of each episode (position,
   time really played, tick), the list's progress and status, and what is offered from them to
   go on with (store/playback.go, store/sync.go, continuePicks in store/library.go, the handlers
   of server/watch.go).  Two players report at once; a report and the progress it earns are two
   writes, and so is a change of status.  Time is cut into quarters of an episode. *)
EXTENDS Integers, FiniteSets

CONSTANTS WsCount,   \* episode_count
          WsOps,     \* bound on reports and requests
          WsClock    \* bound on the seconds of last_played_at
ASSUME WsAssumption == WsCount \in Nat

WsEps == 1 .. WsCount
Whole == 4                       \* an episode's duration
Threshold == 3                   \* sync.progress_at
PlayedShare == 2                 \* playedShare of the duration
ResumeMin == 1                   \* 15 seconds
MaxPerReport == 1                \* maxPlayedPerReport

VARIABLES play,      \* e |-> its playback row
          entry,     \* the list entry: status, progress, repeat_count
          due,       \* episodes whose report came out watched, Watched still to be called
          change,    \* SetListStatus under way: after its read, after its first write
          sched,     \* next_episode (0: none), and its time has passed
          wsNow, wsOps,
          earned,    \* history: e |-> time played since the row was last rewound
          starts,    \* history: how often a rewatch was entered
          fresh      \* history: a rewatch was entered and nothing has happened since
watchVars == <<play, entry, due, change, sched, wsNow, wsOps, earned, starts, fresh>>

NoRow == [row |-> FALSE, pos |-> 0, dur |-> 0, played |-> 0, watched |-> FALSE, dismissed |-> FALSE, count |-> 0, at |-> 0]
WatchInit ==
  /\ play = [e \in WsEps |-> NoRow] /\ entry = [status |-> "none", prog |-> 0, repeat |-> 0]
  /\ due = {} /\ change = [at |-> "none", entering |-> FALSE, touched |-> FALSE]
  /\ sched \in {[next |-> 0, passed |-> FALSE], [next |-> WsCount, passed |-> FALSE]}
  /\ wsNow = 1 /\ wsOps = 0 /\ earned = [e \in WsEps |-> 0] /\ starts = 0 /\ fresh = FALSE

WsSpend == wsOps < WsOps /\ wsOps' = wsOps + 1
(* Anything that is watching, or marks as watched. *)
Touch == fresh' = FALSE /\ change' = [change EXCEPT !.touched = TRUE]

(* finished, resumable: what the player and the episode list go by. *)
Finished(r) == IF r.dur > 0 THEN r.pos >= Threshold ELSE r.watched
Resumable(r) == r.pos >= ResumeMin /\ ~Finished(r)
(* inProgress: the same rule in the query of the rail. *)
InProgress(r) ==
  /\ ~r.dismissed /\ r.pos >= ResumeMin
  /\ ~(r.dur > 0 /\ r.pos >= Threshold) /\ ~(r.dur <= 0 /\ r.watched)
(* latestFirst: newest, then the unfinished, then the higher key. *)
Later(e, f) ==
  \/ play[e].at > play[f].at
  \/ play[e].at = play[f].at /\ ~play[e].watched /\ play[f].watched
  \/ play[e].at = play[f].at /\ play[e].watched = play[f].watched /\ e > f
Offerable == {e \in WsEps : play[e].row /\ ~play[e].dismissed}
LatestRow == {e \in Offerable : \A f \in Offerable \ {e} : Later(e, f)}
Resume == {e \in LatestRow : InProgress(play[e])}
UpNext ==
  {e \in WsEps : /\ e = entry.prog + 1 /\ Resume = {} /\ entry.status \in {"CURRENT", "REPEATING"}
                 /\ entry.prog > 0 \/ entry.status = "REPEATING"
                 /\ sched.next = 0 \/ e < sched.next \/ sched.passed
                 /\ ~play[e].dismissed}
(* ContinueWatching: where the show's card on the rail leads. *)
Rail == Resume \cup UpNext

-----------------------------------------------------------------------------
(* SavePlayback, from the browser's reports and from an external player's: one transaction. *)
Report(e, pos, claimed, dur) ==
  LET old == play[e]
      d == IF dur > 0 THEN dur ELSE old.dur
      step == IF claimed > MaxPerReport THEN MaxPerReport ELSE claimed
      played == old.played + step
      reached == d > 0 /\ pos >= Threshold
      watched == old.watched \/ (reached /\ played >= PlayedShare)
  IN /\ WsSpend
     /\ play' = [play EXCEPT ![e] =
          [row |-> TRUE, pos |-> IF ~reached \/ watched \/ ~old.row THEN pos ELSE old.pos, dur |-> d,
           played |-> played, watched |-> watched, dismissed |-> old.dismissed /\ step = 0,
           count |-> old.count + IF watched /\ ~old.watched THEN 1 ELSE 0, at |-> wsNow]]
     /\ earned' = [earned EXCEPT ![e] = earned[e] + step]
     /\ due' = IF watched THEN due \cup {e} ELSE due
     /\ Touch /\ UNCHANGED <<entry, sched, wsNow, starts>>
(* MarkWatched: progress only moves forward; the last episode completes, and counts a rewatch. *)
Marked(e) ==
  LET prog == IF e > entry.prog THEN e ELSE entry.prog
      moved == e > entry.prog \/ entry.status = "none"
      status == IF moved /\ entry.status \notin {"COMPLETED", "REPEATING"} THEN "CURRENT" ELSE entry.status
      done == status # "COMPLETED" /\ prog >= WsCount
  IN [status |-> IF done THEN "COMPLETED" ELSE status, prog |-> prog,
      repeat |-> entry.repeat + IF done /\ status = "REPEATING" THEN 1 ELSE 0]
(* progress, Watched: the call that follows the report of a watched episode. *)
SyncWatched(e) ==
  /\ e \in due /\ due' = due \ {e} /\ entry' = Marked(e) /\ Touch
  /\ UNCHANGED <<play, sched, wsNow, wsOps, earned, starts>>
(* setWatched: by hand. *)
SetWatched(e) == WsSpend /\ entry' = Marked(e) /\ Touch /\ UNCHANGED <<play, due, sched, wsNow, earned, starts>>

Rewound(r) == [r EXCEPT !.watched = FALSE, !.pos = 0, !.played = 0]
\* Variant for mutation: the tick goes, the time played stays.
UnwatchTick(e) ==
  /\ WsSpend /\ Touch
  /\ entry' = [entry EXCEPT !.prog = IF entry.prog > e - 1 THEN e - 1 ELSE entry.prog,
                            !.status = IF entry.status = "COMPLETED" THEN "CURRENT" ELSE entry.status]
  /\ play' = [f \in WsEps |-> IF f >= e THEN [play[f] EXCEPT !.watched = FALSE, !.pos = 0] ELSE play[f]]
  /\ earned' = [f \in WsEps |-> IF f >= e THEN 0 ELSE earned[f]]
  /\ UNCHANGED <<due, sched, wsNow, starts>>
(* Unwatch: the count goes back, and the later episodes' rows with it. *)
Unwatch(e) ==
  /\ WsSpend /\ Touch
  /\ entry' = [entry EXCEPT !.prog = IF entry.prog > e - 1 THEN e - 1 ELSE entry.prog,
                            !.status = IF entry.status = "COMPLETED" THEN "CURRENT" ELSE entry.status]
  /\ play' = [f \in WsEps |-> IF f >= e THEN Rewound(play[f]) ELSE play[f]]
  /\ earned' = [f \in WsEps |-> IF f >= e THEN 0 ELSE earned[f]]
  /\ UNCHANGED <<due, sched, wsNow, starts>>

(* SetListStatus: the status before is read, the entry written, and on entering a rewatch the
   rows cleared, each a statement of its own. *)
ReadStatus(s) ==
  /\ change.at = "none" /\ WsSpend
  /\ change' = [at |-> s, entering |-> s = "REPEATING" /\ entry.status # "REPEATING", touched |-> FALSE]
  /\ UNCHANGED <<play, entry, due, sched, wsNow, earned, starts, fresh>>
WriteStatus ==
  /\ change.at \in {"CURRENT", "COMPLETED", "REPEATING"}
  /\ entry' = [entry EXCEPT !.status = change.at, !.prog = IF change.entering THEN 0 ELSE entry.prog]
  /\ starts' = IF change.at = "REPEATING" /\ entry.status # "REPEATING" THEN starts + 1 ELSE starts
  /\ change' = [change EXCEPT !.at = IF change.entering THEN "clear" ELSE "none", !.touched = FALSE]
  /\ fresh' = FALSE /\ UNCHANGED <<play, due, sched, wsNow, wsOps, earned>>
ClearRows ==
  /\ change.at = "clear"
  /\ play' = [e \in WsEps |-> [Rewound(play[e]) EXCEPT !.dismissed = FALSE]]
  /\ earned' = [e \in WsEps |-> 0]
  /\ change' = [change EXCEPT !.at = "none"] /\ fresh' = ~change.touched
  /\ UNCHANGED <<entry, due, sched, wsNow, wsOps, starts>>

(* DismissResume, ForgetHistory (one episode, or all). *)
Dismiss(e) ==
  /\ WsSpend /\ play' = [play EXCEPT ![e] = [@ EXCEPT !.row = TRUE, !.dismissed = TRUE]]
  /\ fresh' = FALSE /\ UNCHANGED <<entry, due, change, sched, wsNow, earned, starts>>
Forget(E) ==
  /\ WsSpend /\ play' = [e \in WsEps |-> IF e \in E THEN NoRow ELSE play[e]]
  /\ earned' = [e \in WsEps |-> IF e \in E THEN 0 ELSE earned[e]]
  /\ UNCHANGED <<entry, due, change, sched, wsNow, starts, fresh>>
(* ApplyRemote, ImportList: the entry as a tracker has it. *)
Pulled(s, n) ==
  /\ WsSpend /\ entry' = [entry EXCEPT !.status = s, !.prog = n]
  /\ starts' = IF s = "REPEATING" /\ entry.status # "REPEATING" THEN starts + 1 ELSE starts
  /\ Touch /\ UNCHANGED <<play, due, sched, wsNow, earned>>
WsTick ==
  \/ wsNow < WsClock /\ wsNow' = wsNow + 1 /\ UNCHANGED <<play, entry, due, change, sched, wsOps, earned, starts, fresh>>
  \/ /\ sched.next > 0 /\ ~sched.passed /\ sched' = [sched EXCEPT !.passed = TRUE]
     /\ UNCHANGED <<play, entry, due, change, wsNow, wsOps, earned, starts, fresh>>

WatchNext ==
  \/ \E e \in WsEps : \/ SyncWatched(e) \/ SetWatched(e) \/ Unwatch(e) \/ Dismiss(e)
                      \/ \E pos \in {0, 2, Whole} : \E claimed \in {0, 2} : \E dur \in {0, Whole} : Report(e, pos, claimed, dur)
  \/ \E s \in {"COMPLETED", "REPEATING"} : ReadStatus(s)
  \/ WriteStatus \/ ClearRows \/ WsTick
  \/ \E E \in {{1}, WsEps} : Forget(E)
  \/ Pulled("REPEATING", WsCount - 1) \/ Pulled("CURRENT", WsCount)
WatchSpec == WatchInit /\ [][WatchNext]_watchVars
-----------------------------------------------------------------------------
(* A tick of the player stands for time really played since the episode was last rewound, in
   whatever order reports, rewinds, rewatches and forgotten rows come: a jump to the end never
   earns it, not even on the time of an earlier watch. *)
TickIsEarned == \A e \in WsEps : play[e].watched => earned[e] >= PlayedShare
(* Every surface goes by one rule: the rail takes up an episode exactly where the player would. *)
SurfacesAgree == \A e \in Offerable : InProgress(play[e]) <=> Resumable(play[e])
(* A rewatch begins at the first episode: nothing of the pass before is offered to go on with. *)
RewatchIsFresh == fresh => entry.prog = 0 /\ Rail \subseteq {1} /\ Resume = {}
(* A rewatch is counted when one was entered, once each, however often the last episode is
   marked, unmarked and reported again. *)
RewatchesCounted == entry.repeat <= starts
(* The rail leads to one episode of the show. *)
WatchSafe == TickIsEarned /\ SurfacesAgree /\ RewatchIsFresh /\ RewatchesCounted /\ Cardinality(Rail) <= 1
=============================================================================
