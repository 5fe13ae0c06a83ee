---------------------------- MODULE ProgressProofs ----------------------------
(* The components that MCProgress runs, each proved by itself for any value of its
   constants, and then the run's own specification: a scheduled job, AniList's sync,
   the engine's peers, the race of the candidate releases and the desktop player. *)
EXTENDS MCProgress, FiniteSetTheorems, WellFoundedInduction, TLAPS

------------------------------------------------------------------------------
(* A scheduled job, for any callers, interval and cap.                          *)

\* Whatever the doubling gives, the wait is no shorter than the interval and
\* no longer than the cap, or than the interval when that is longer.
LEMMA BackoffBounds ==
    ASSUME NEW failures \in Nat, failures > 0
    PROVE  /\ backoff(Every, failures) \in Nat
           /\ backoff(Every, failures) >= Every
           /\ backoff(Every, failures) <= Most(MaxWait, Every)
<1> DEFINE step == Least(failures, 5)
           doubled == <<2, 4, 8, 16, 32>>[step]
<1>1. step \in 1 .. 5
  BY DEF Least
<1>2. doubled \in {2, 4, 8, 16, 32}
  BY <1>1
<1>3. Every * doubled \in Nat
  BY <1>2, TimesAssumption
<1> HIDE DEF step, doubled
<1>4. backoff(Every, failures) = Most(Least(Every * doubled, MaxWait), Every)
  BY DEF backoff, step, doubled
<1> QED
  BY <1>3, <1>4, TimesAssumption DEF Most, Least

\* The loop's next wait is a full interval at least and within the cap.
LEMMA WaitBounds ==
    ASSUME TypeOK, LoopWait
    PROVE  left' \in Nat /\ left' >= Every /\ left' <= Most(MaxWait, Every)
<1>1. consecutive \in Nat /\ Every \in Nat /\ MaxWait \in Nat
  BY TimesAssumption, ConsecutiveAssumption DEF TypeOK
<1>2. CASE consecutive > 0
  BY <1>1, <1>2, BackoffBounds DEF LoopWait
<1>3. CASE ~(consecutive > 0)
  BY <1>1, <1>3 DEF LoopWait, Most
<1> QED
  BY <1>2, <1>3

\* Time already passed only adds to a wait.
LEMMA WaitAdds == \A a, b, c \in Nat : b >= c => a + b >= c
  OBVIOUS

\* A loop that sleeps has slept, or has still to sleep, a full interval since
\* its last run began; a loop about to run has done so.
Rested ==
    /\ pc = "sleep" => since + left >= Every
    /\ pc = "execute" => since = Every

\* The inductive invariant of the scheduler.
Inv == TypeOK /\ RunsNeverOverlap /\ WaitCapped /\ Rested

\* A started process, with nothing run yet, satisfies it.
LEMMA InvInit == Init => Inv
<1> SUFFICES ASSUME Init
             PROVE  Inv
  OBVIOUS
<1>1. TypeOK
  <2>1. running \in BOOLEAN /\ done \in BOOLEAN /\ inRun \subseteq Goroutines
    BY DEF Init
  <2>2. /\ consecutive \in 0 .. MaxConsecutive /\ left \in Nat /\ since \in 0 .. Every
        /\ pc \in {"schedule", "sleep", "execute", "run", "ended"}
    BY TimesAssumption, ConsecutiveAssumption DEF Init
  <2> QED
    BY <2>1, <2>2 DEF TypeOK
<1>2. RunsNeverOverlap
  BY DEF Init, RunsNeverOverlap
<1>3. WaitCapped /\ Rested
  BY TimesAssumption DEF Init, WaitCapped, Most, Rested
<1> QED
  BY <1>1, <1>2, <1>3 DEF Inv

\* A claim finds nobody inside the job, and a finish leaves nobody there.
LEMMA ClaimAndFinish ==
    ASSUME TypeOK, RunsNeverOverlap, NEW g \in Goroutines
    PROVE  /\ claim(g) => /\ RunsNeverOverlap'
                          /\ running' \in BOOLEAN /\ inRun' \subseteq Goroutines
           /\ finish(g) => /\ RunsNeverOverlap'
                           /\ running' \in BOOLEAN /\ inRun' \subseteq Goroutines
                           /\ consecutive' \in 0 .. MaxConsecutive
<1>1. ASSUME claim(g)
      PROVE  RunsNeverOverlap' /\ running' \in BOOLEAN /\ inRun' \subseteq Goroutines
  <2>1. inRun' = {g} /\ running' = TRUE
    BY <1>1 DEF claim, RunsNeverOverlap
  <2> QED
    BY <2>1 DEF RunsNeverOverlap
<1>2. ASSUME finish(g)
      PROVE  /\ RunsNeverOverlap' /\ running' \in BOOLEAN /\ inRun' \subseteq Goroutines
             /\ consecutive' \in 0 .. MaxConsecutive
  <2>1. inRun' = {} /\ running' = FALSE
    BY <1>2 DEF finish, RunsNeverOverlap
  <2>2. consecutive' \in 0 .. MaxConsecutive
    BY <1>2, ConsecutiveAssumption DEF finish, Least, TypeOK
  <2> QED
    BY <2>1, <2>2 DEF RunsNeverOverlap
<1> QED
  BY <1>1, <1>2

\* Every step keeps the invariant.
LEMMA InvInductive == Inv /\ [Next]_vars => Inv'
<1> SUFFICES ASSUME Inv, [Next]_vars
             PROVE  Inv'
  OBVIOUS
<1> USE DEF Inv
<1>0. /\ Every \in Nat /\ Every > 0 /\ left \in Nat /\ since \in 0 .. Every
      /\ "loop" \in Goroutines /\ \A g \in Callers : g \in Goroutines
  BY TimesAssumption DEF TypeOK, Goroutines
<1>1. CASE LoopWait
  <2>1. TypeOK'
    BY <1>1, WaitBounds DEF LoopWait, TypeOK
  <2>2. RunsNeverOverlap'
    BY <1>1 DEF LoopWait, RunsNeverOverlap
  <2>3. WaitCapped'
    BY <1>1, WaitBounds DEF LoopWait, WaitCapped, Most
  <2>4. Rested'
    <3>1. since' = since /\ pc' = "sleep"
      BY <1>1 DEF LoopWait
    <3>2. since \in Nat /\ left' \in Nat /\ left' >= Every
      BY <1>0, <1>1, WaitBounds
    <3>3. since + left' >= Every
      BY <1>0, <3>2, WaitAdds
    <3> QED
      BY <3>1, <3>3 DEF Rested
  <2> QED
    BY <2>1, <2>2, <2>3, <2>4
<1>2. CASE LoopTimer
  BY <1>0, <1>2 DEF LoopTimer, TypeOK, RunsNeverOverlap, WaitCapped, Most, Rested
<1>3. CASE LoopExecute
  <2>1. TypeOK'
    BY <1>0, <1>3, ClaimAndFinish DEF LoopExecute, TypeOK
  <2>2. RunsNeverOverlap'
    BY <1>0, <1>3, ClaimAndFinish DEF LoopExecute
  <2> QED
    BY <1>3, <2>1, <2>2 DEF LoopExecute, WaitCapped, Most, Rested
<1>4. CASE LoopSkips
  BY <1>4 DEF LoopSkips, TypeOK, RunsNeverOverlap, WaitCapped, Most, Rested
<1>5. CASE LoopEnds
  BY <1>5 DEF LoopEnds, TypeOK, RunsNeverOverlap, WaitCapped, Most, Rested
<1>6. CASE LoopFinish
  <2>1. TypeOK'
    BY <1>0, <1>6, ClaimAndFinish DEF LoopFinish, TypeOK
  <2>2. RunsNeverOverlap'
    BY <1>0, <1>6, ClaimAndFinish DEF LoopFinish
  <2> QED
    BY <1>6, <2>1, <2>2 DEF LoopFinish, WaitCapped, Most, Rested
<1>7. ASSUME NEW g \in Callers, RunAs(g) \/ ManualFinish(g)
      PROVE  Inv'
  <2>1. TypeOK'
    BY <1>0, <1>7, ClaimAndFinish DEF RunAs, claim, ManualFinish, TypeOK
  <2>2. RunsNeverOverlap'
    BY <1>0, <1>7, ClaimAndFinish DEF RunAs, ManualFinish
  <2> QED
    BY <1>7, <2>1, <2>2 DEF RunAs, ManualFinish, WaitCapped, Most, Rested
<1>8. CASE Tick
  <2>1. /\ left' \in Nat /\ left' <= left /\ left' >= left - 1
        /\ since' \in 0 .. Every /\ (since' = since + 1 \/ since' = Every)
    BY <1>0, <1>8 DEF Tick, Least
  <2>2. TypeOK' /\ RunsNeverOverlap'
    BY <1>8, <2>1 DEF Tick, TypeOK, RunsNeverOverlap
  <2>3. WaitCapped'
    BY <1>0, <2>1, TimesAssumption DEF WaitCapped, Most
  <2>4. Rested'
    BY <1>0, <1>8, <2>1 DEF Tick, Rested
  <2> QED
    BY <2>2, <2>3, <2>4
<1>9. CASE Shutdown
  BY <1>9 DEF Shutdown, TypeOK, RunsNeverOverlap, WaitCapped, Most, Rested
<1>10. CASE UNCHANGED vars
  BY <1>10 DEF vars, TypeOK, RunsNeverOverlap, WaitCapped, Most, Rested
<1> QED
  BY <1>1, <1>2, <1>3, <1>4, <1>5, <1>6, <1>7, <1>8, <1>9, <1>10 DEF Next, LoopStep

\* claim, finish, backoff and the loop keep the inductive invariant for good.
THEOREM Invariance == Spec => []Inv
  BY InvInit, InvInductive, PTL DEF Spec

\* claim and finish: at most one goroutine is inside the job, whoever started
\* it, for any number of callers.
THEOREM NoOverlap == Spec => []RunsNeverOverlap
<1>1. Inv => RunsNeverOverlap
  BY DEF Inv
<1> QED
  BY <1>1, Invariance, PTL

\* backoff: the loop never sleeps longer than the cap or its own interval.
THEOREM Capped == Spec => []WaitCapped
<1>1. Inv => WaitCapped
  BY DEF Inv
<1> QED
  BY <1>1, Invariance, PTL

\* backoff: for any interval and any cap, two runs the loop begins are at
\* least the interval apart.
THEOREM KeepsInterval == Spec => LoopKeepsInterval
<1>1. Inv /\ [Next]_vars => [pc = "execute" /\ pc' = "run" => since = Every]_vars
  BY DEF Inv, Rested
<1> QED
  BY <1>1, Invariance, PTL DEF Spec, LoopKeepsInterval

------------------------------------------------------------------------------
(* AniList's sync, for any number of request goroutines and any number of requests,
   edits on the site and failures. *)

(* The inductive invariant.                                                *)

\* Sync.pushing is held from the read of the entry to its clearing or removal.
PushLocked ==
    \A g \in SyncGoroutines :
        procs[g].pc \in {"send", "clear", "delete", "mal", "drop"} => pushing = g

\* Only an entry that is on the list is pushed, and it is taken off under the lock.
PushedIsListed ==
    \A g \in SyncGoroutines : procs[g].pc \in {"send", "clear"} => local.listed

\* The push order before a removal: while nobody edits the site, what the row says is
\* never older than what AniList was told, and a clean row and a list that would be merged
\* over it say the same.
PushOrder ==
    siteEdits = 0 /\ pushed # Removed =>
        /\ remote.listed => remote.val = pushed
        /\ ~local.listed => pushed = 0 /\ ~remote.listed
        /\ local.listed => pushed <= local.val /\ local.val <= edits
        /\ local.listed /\ ~local.dirty /\ remote.listed /\ remote.at > local.remoteAt
             => remote.val = local.val
        /\ \A g \in SyncGoroutines :
             /\ procs[g].pc = "send" => pushed <= procs[g].val /\ procs[g].val <= local.val
             /\ procs[g].pc = "send" /\ ~local.dirty => procs[g].val = local.val
             /\ procs[g].pc = "clear" => procs[g].at = remote.at
        /\ procs["job"].pc = "merge" /\ procs["job"].listed =>
             /\ local.listed /\ procs["job"].at <= remote.at
             /\ ~local.dirty /\ procs["job"].at > local.remoteAt => procs["job"].val = local.val

\* What AniList has held: its entry, a list fetched from it, a value whose push it answered.
SentIsKnown ==
    /\ remote.listed => remote.val \in sent
    /\ procs["job"].pc = "merge" /\ procs["job"].listed => procs["job"].val \in sent
    /\ \A g \in SyncGoroutines : procs[g].pc = "clear" => procs[g].val \in sent

\* local_updated_at tells a row that was edited since a push read it from one that was not.
ChangeIsSeen ==
    /\ local.changed <= edits
    /\ \A g \in SyncGoroutines :
         /\ procs[g].pc = "finish" => finishing
         /\ procs[g].pc \in {"send", "clear"} => procs[g].changed <= edits
    /\ ~finishing =>
         /\ local.listed /\ ~local.dirty => local.val \in sent
         /\ \A g \in SyncGoroutines :
              procs[g].pc \in {"send", "clear"} /\ local.changed <= procs[g].changed
                => local.val = procs[g].val \/ local.val \in sent

SyncInv ==
    SyncTypeOK /\ PushLocked /\ PushedIsListed /\ RemovedStaysOffSite
    /\ PushOrder /\ SentIsKnown /\ ChangeIsSeen

------------------------------------------------------------------------------
(* Types.                                                                  *)

\* The goroutine that takes a step is where one can be.
LEMMA ProcType ==
    ASSUME SyncTypeOK, NEW g \in SyncGoroutines
    PROVE  /\ procs[g] \in Proc
           /\ Resting \in Proc /\ [Resting EXCEPT !.pc = "fetch"] \in Proc
           /\ \A p \in Proc : Become(g, p) => procs' \in [SyncGoroutines -> Proc]
           /\ AfterPush(g) => procs' \in [SyncGoroutines -> Proc]
           /\ \A to \in PCs : SyncGoto(g, to) => procs' \in [SyncGoroutines -> Proc]
<1>1. procs \in [SyncGoroutines -> Proc] /\ procs[g] \in Proc
  BY DEF SyncTypeOK
<1>2. Resting \in Proc /\ [Resting EXCEPT !.pc = "fetch"] \in Proc
  BY DEF Resting, Proc, PCs
<1>3. ASSUME NEW p \in Proc, Become(g, p)
      PROVE  procs' \in [SyncGoroutines -> Proc]
  BY <1>1, <1>3 DEF Become
<1>4. AfterPush(g) => procs' \in [SyncGoroutines -> Proc]
  BY <1>2, <1>3 DEF AfterPush
<1>5. ASSUME NEW to \in PCs, SyncGoto(g, to)
      PROVE  procs' \in [SyncGoroutines -> Proc]
  <2>1. [procs[g] EXCEPT !.pc = to] \in Proc
    BY <1>1 DEF Proc
  <2> QED
    BY <1>1, <1>5, <2>1 DEF SyncGoto
<1> QED
  BY <1>1, <1>2, <1>3, <1>4, <1>5

\* What a push leaves of the site and of the history has its type.
LEMMA ReceivedType ==
    ASSUME SyncTypeOK, NEW g \in SyncGoroutines, Received(g)
    PROVE  remote' \in Remote /\ pushed' \in Nat \cup {Removed} /\ sent' \subseteq Nat
<1>1. procs[g].val \in Nat /\ remote.at + 1 \in Nat
  BY ProcType DEF Proc, SyncTypeOK, Remote
<1> QED
  BY <1>1 DEF Received, SyncTypeOK, Remote

\* Every step keeps the types.
LEMMA TypeStep == SyncTypeOK /\ [SyncNext]_syncVars => SyncTypeOK'
<1> SUFFICES ASSUME SyncTypeOK, [SyncNext]_syncVars
             PROVE  SyncTypeOK'
  OBVIOUS
<1>a. local \in Entry /\ remote \in Remote /\ edits + 1 \in Nat
  BY DEF SyncTypeOK
<1>b. \A h \in Handlers : h \in SyncGoroutines
  BY DEF SyncGoroutines
<1>c. "job" \in SyncGoroutines
  BY DEF SyncGoroutines
<1>d. Edited \in Entry
  BY <1>a DEF Edited, Entry
<1>1. CASE RunJob
  BY <1>1, <1>c, ProcType DEF RunJob, SyncTypeOK, bounds, PCs
<1>2. CASE FetchList
  <2>1. [Resting EXCEPT !.pc = "merge", !.listed = remote.listed,
                        !.val = remote.val, !.at = remote.at] \in Proc
    BY <1>a DEF Resting, Proc, PCs, Remote
  <2> QED
    BY <1>2, <1>c, <2>1, ProcType DEF FetchList, SyncTypeOK, bounds
<1>3. CASE ImportList
  <2>1. procs["job"] \in Proc
    BY <1>c, ProcType
  <2>2. Merged(procs["job"]) \in Entry
    BY <1>a, <2>1 DEF Merged, Entry, Proc, SyncTypeOK
  <2> QED
    BY <1>3, <1>c, <2>2, ProcType DEF ImportList, SyncTypeOK, bounds
<1>4. CASE FetchFails
  BY <1>4, <1>c, ProcType DEF FetchFails, Fault, SyncTypeOK
<1>5. CASE SiteEdit
  <2>1. remote' \in Remote
    BY <1>5, <1>a DEF SiteEdit, Remote
  <2>2. sent' \subseteq Nat /\ siteEdits' \in Nat
    BY <1>5, <1>a DEF SiteEdit, SyncTypeOK
  <2> QED
    BY <1>5, <2>1, <2>2, <1>a DEF SiteEdit, SyncTypeOK
<1>6. ASSUME NEW g \in SyncGoroutines, ReadEntry(g)
      PROVE  SyncTypeOK'
  <2>1. [Resting EXCEPT !.pc = "send", !.val = local.val, !.changed = local.changed] \in Proc
    BY <1>a DEF Resting, Proc, PCs, Entry
  <2> QED
    BY <1>6, <2>1, ProcType DEF ReadEntry, SyncTypeOK, bounds
<1>7. ASSUME NEW g \in SyncGoroutines, SetProgress(g)
      PROVE  SyncTypeOK'
  <2>1. [procs[g] EXCEPT !.pc = "clear", !.at = remote.at + 1] \in Proc
    <3>1. procs[g] \in Proc /\ remote.at + 1 \in Nat
      BY <1>a, ProcType DEF Remote
    <3> QED
      BY <3>1 DEF Proc, PCs
  <2> QED
    BY <1>7, <2>1, ProcType, ReceivedType DEF SetProgress, SyncTypeOK, bounds
<1>8. ASSUME NEW g \in SyncGoroutines, SetProgressFails(g)
      PROVE  SyncTypeOK'
  <2>1. remote' \in Remote /\ pushed' \in Nat \cup {Removed} /\ sent' \subseteq Nat
    BY <1>8, ReceivedType DEF SetProgressFails, SyncTypeOK
  <2> QED
    BY <1>8, <2>1, ProcType DEF SetProgressFails, Fault, SyncTypeOK
<1>9. ASSUME NEW g \in SyncGoroutines, ClearDirty(g)
      PROVE  SyncTypeOK'
  <2>1. procs[g].at \in Nat
    BY ProcType DEF Proc
  <2>2. local' \in Entry
    BY <1>9, <1>a, <2>1 DEF ClearDirty, ClearDirtyAt, Entry
  <2> QED
    BY <1>9, <2>2, ProcType DEF ClearDirty, SyncTypeOK, bounds
<1>10. ASSUME NEW h \in Handlers, EditEntry(h) \/ MarkWatchedLast(h)
       PROVE  SyncTypeOK'
  <2>1. procs' \in [SyncGoroutines -> Proc]
    BY <1>10, <1>b, ProcType DEF EditEntry, MarkWatchedLast, PCs
  <2>2. /\ local' = Edited /\ edits' = edits + 1 /\ gone' = FALSE /\ Ask
        /\ UNCHANGED <<remote, finishing, pushing, pushed, sent>>
    BY <1>10, Zenon DEF EditEntry, MarkWatchedLast
  <2>3. local' \in Entry
    BY <1>d, <2>2
  <2>4. requests' \in Nat /\ siteEdits' \in Nat /\ faults' \in Nat
    BY <2>2 DEF Ask, SyncTypeOK
  <2>5. edits' \in Nat /\ gone' \in BOOLEAN
    BY <1>a, <2>2
  <2> QED
    BY <2>1, <2>2, <2>3, <2>4, <2>5 DEF SyncTypeOK
<1>11. ASSUME NEW h \in Handlers, MarkWatchedAgain(h) \/ Remove(h)
       PROVE  SyncTypeOK'
  BY <1>11, <1>b, ProcType DEF MarkWatchedAgain, Remove, Ask, SyncTypeOK, PCs
<1>12. ASSUME NEW h \in Handlers, CompleteEntry(h)
       PROVE  SyncTypeOK'
  <2>1. [local EXCEPT !.val = edits + 1, !.dirty = TRUE] \in Entry
    BY <1>a DEF Entry
  <2> QED
    BY <1>12, <1>b, <2>1, ProcType DEF CompleteEntry, SyncTypeOK, bounds, PCs
<1>13. ASSUME NEW h \in Handlers, RemoveRead(h) \/ RemoveFromMAL(h)
       PROVE  SyncTypeOK'
  BY <1>13, <1>b, ProcType DEF RemoveRead, RemoveFromMAL, SyncTypeOK, bounds, PCs
<1>14. ASSUME NEW h \in Handlers, DeleteEntry(h)
       PROVE  SyncTypeOK'
  BY <1>14, <1>a, <1>b, ProcType DEF DeleteEntry, SyncTypeOK, bounds, PCs, Remote
<1>15. ASSUME NEW h \in Handlers, RemoveFails(h)
       PROVE  SyncTypeOK'
  BY <1>15, <1>b, ProcType DEF RemoveFails, Fault, SyncTypeOK
<1>16. ASSUME NEW h \in Handlers, RemoveListEntry(h)
       PROVE  SyncTypeOK'
  BY <1>16, <1>a, <1>b, ProcType DEF RemoveListEntry, SyncTypeOK, bounds, NoEntry, Entry
<1>17. CASE UNCHANGED syncVars
  BY <1>17 DEF syncVars, SyncTypeOK
<1> QED
  BY <1>1, <1>2, <1>3, <1>4, <1>5, <1>6, <1>7, <1>8, <1>9, <1>10, <1>11, <1>12, <1>13, <1>14,
     <1>15, <1>16, <1>17
  DEF SyncNext, JobStep, PushStep, RequestStep

------------------------------------------------------------------------------
(* What a step does to the goroutine that takes it and to the row, field by field. *)

\* A goroutine that only moves on keeps what it has read.
LEMMA GotoEffect ==
    ASSUME SyncTypeOK, NEW g \in SyncGoroutines, NEW to \in PCs, SyncGoto(g, to)
    PROVE  /\ procs'[g].pc = to /\ procs'[g].val = procs[g].val
           /\ procs'[g].changed = procs[g].changed /\ procs'[g].at = procs[g].at
           /\ procs'[g].listed = procs[g].listed
           /\ \A x \in SyncGoroutines : x # g => procs'[x] = procs[x]
<1>1. procs \in [SyncGoroutines -> Proc] /\ procs[g] \in Proc
  BY DEF SyncTypeOK
<1>2. procs' = [procs EXCEPT ![g] = [procs[g] EXCEPT !.pc = to]]
  BY DEF SyncGoto
<1>3. procs'[g] = [procs[g] EXCEPT !.pc = to] /\ \A x \in SyncGoroutines : x # g => procs'[x] = procs[x]
  BY <1>1, <1>2
<1> QED
  BY <1>1, <1>3 DEF Proc

\* One that starts over has read something new.
LEMMA BecomeEffect ==
    ASSUME SyncTypeOK, NEW g \in SyncGoroutines, NEW p, Become(g, p)
    PROVE  procs'[g] = p /\ \A x \in SyncGoroutines : x # g => procs'[x] = procs[x]
  BY DEF SyncTypeOK, Become

\* After a push the job goes on to fetch, a request is over.
LEMMA AfterPushEffect ==
    ASSUME SyncTypeOK, NEW g \in SyncGoroutines, AfterPush(g)
    PROVE  /\ procs'[g].pc \in {"idle", "fetch"}
           /\ \A x \in SyncGoroutines : x # g => procs'[x] = procs[x]
<1>1. Resting.pc = "idle" /\ [Resting EXCEPT !.pc = "fetch"].pc = "fetch"
  BY DEF Resting
<1> QED
  BY <1>1, BecomeEffect DEF AfterPush

\* A push carries what the row said when it was read.
LEMMA ReadEffect ==
    ASSUME SyncTypeOK, NEW g \in SyncGoroutines,
           Become(g, [Resting EXCEPT !.pc = "send", !.val = local.val, !.changed = local.changed])
    PROVE  /\ procs'[g].pc = "send" /\ procs'[g].val = local.val /\ procs'[g].changed = local.changed
           /\ \A x \in SyncGoroutines : x # g => procs'[x] = procs[x]
<1> DEFINE p == [Resting EXCEPT !.pc = "send", !.val = local.val, !.changed = local.changed]
<1>1. p.pc = "send" /\ p.val = local.val /\ p.changed = local.changed
  BY DEF Resting
<1> QED
  BY <1>1, BecomeEffect

\* A fetched list is carried as AniList had it.
LEMMA FetchEffect ==
    ASSUME SyncTypeOK, FetchList
    PROVE  /\ procs'["job"].pc = "merge" /\ procs'["job"].listed = remote.listed
           /\ procs'["job"].val = remote.val /\ procs'["job"].at = remote.at
           /\ \A x \in SyncGoroutines : x # "job" => procs'[x] = procs[x]
<1> DEFINE p == [Resting EXCEPT !.pc = "merge", !.listed = remote.listed,
                                !.val = remote.val, !.at = remote.at]
<1>1. p.pc = "merge" /\ p.listed = remote.listed /\ p.val = remote.val /\ p.at = remote.at
  BY DEF Resting
<1>2. "job" \in SyncGoroutines /\ Become("job", p)
  BY DEF FetchList, SyncGoroutines
<1> QED
  BY <1>1, <1>2, BecomeEffect

\* A push that was answered remembers the answer's time.
LEMMA SendEffect ==
    ASSUME SyncTypeOK, NEW g \in SyncGoroutines, SetProgress(g)
    PROVE  /\ procs'[g].pc = "clear" /\ procs'[g].val = procs[g].val
           /\ procs'[g].changed = procs[g].changed /\ procs'[g].at = remote.at + 1
           /\ \A x \in SyncGoroutines : x # g => procs'[x] = procs[x]
<1> DEFINE p == [procs[g] EXCEPT !.pc = "clear", !.at = remote.at + 1]
<1>1. p.pc = "clear" /\ p.val = procs[g].val /\ p.changed = procs[g].changed /\ p.at = remote.at + 1
  BY ProcType DEF Proc
<1>2. Become(g, p)
  BY DEF SetProgress
<1> QED
  BY <1>1, <1>2, BecomeEffect

\* The fields a change of the row leaves and sets.
LEMMA RowEffect ==
    ASSUME SyncTypeOK
    PROVE  /\ Edited.listed /\ Edited.dirty /\ Edited.val = edits + 1 /\ Edited.changed = edits + 1
           /\ LET l == [local EXCEPT !.val = edits + 1, !.dirty = TRUE]
              IN l.listed = local.listed /\ l.val = edits + 1 /\ l.dirty /\ l.changed = local.changed
           /\ ~NoEntry.listed /\ NoEntry.changed = 0
  BY DEF SyncTypeOK, Entry, Edited, NoEntry

\* ... by the end of a push,
LEMMA ClearEffect ==
    ASSUME SyncTypeOK, NEW g \in SyncGoroutines, ClearDirtyAt(g)
    PROVE  /\ local'.listed = local.listed /\ local'.val = local.val
           /\ local'.changed = local.changed
           /\ local.listed => local'.remoteAt = procs[g].at
           /\ local.listed /\ ~local'.dirty => ~local.dirty \/ ~(local.changed > procs[g].changed)
<1>1. local \in Entry
  BY DEF SyncTypeOK
<1>2. CASE local.listed
  BY <1>1, <1>2 DEF ClearDirtyAt, Entry
<1>3. CASE ~local.listed
  BY <1>3 DEF ClearDirtyAt
<1> QED
  BY <1>2, <1>3

\* ... and by the merge of a fetched list.
LEMMA MergeEffect ==
    ASSUME SyncTypeOK, NEW l \in Proc, local' = Merged(l)
    PROVE  \/ local' = local
           \/ /\ l.listed /\ ~local.listed /\ local'.listed /\ local'.val = l.val
              /\ local'.changed = edits /\ local'.remoteAt = l.at /\ ~local'.dirty
           \/ /\ l.listed /\ local.listed /\ ~local.dirty /\ l.at > local.remoteAt
              /\ local'.listed /\ local'.val = l.val /\ ~local'.dirty
              /\ local'.changed = local.changed /\ local'.remoteAt = l.at
<1>1. local \in Entry
  BY DEF SyncTypeOK
<1>2. CASE l.listed /\ ~local.listed
  BY <1>2 DEF Merged
<1>3. CASE l.listed /\ local.listed /\ ~local.dirty /\ l.at > local.remoteAt
  BY <1>1, <1>3 DEF Merged, Entry
<1>4. CASE ~l.listed \/ (local.listed /\ ~(~local.dirty /\ l.at > local.remoteAt))
  BY <1>4 DEF Merged
<1> QED
  BY <1>2, <1>3, <1>4

------------------------------------------------------------------------------
(* Each part of the invariant, over every step.                            *)

\* The lock: one goroutine at a time between the read and the clearing or removal.
LEMMA LockStep ==
    ASSUME SyncTypeOK, PushLocked, [SyncNext]_syncVars
    PROVE  PushLocked'
<1>a. /\ \A h \in Handlers : h \in SyncGoroutines
      /\ "job" \in SyncGoroutines /\ Nobody \notin SyncGoroutines
  BY NamesAssumption DEF SyncGoroutines
<1>b. procs \in [SyncGoroutines -> Proc]
  BY DEF SyncTypeOK
<1> USE DEF PushLocked, At
<1>1. CASE RunJob
  BY <1>1, <1>a, <1>b, GotoEffect DEF RunJob, PCs
<1>2. CASE FetchList
  BY <1>2, <1>a, <1>b, FetchEffect DEF FetchList
<1>3. CASE ImportList
  BY <1>3, <1>a, <1>b, BecomeEffect, ProcType DEF ImportList, Resting
<1>4. CASE FetchFails
  BY <1>4, <1>a, <1>b, BecomeEffect DEF FetchFails, Resting, Fault
<1>5. CASE SiteEdit
  BY <1>5, <1>a, <1>b DEF SiteEdit
<1>6. ASSUME NEW g \in SyncGoroutines, ReadEntry(g)
      PROVE  PushLocked'
  BY <1>6, <1>a, <1>b, ReadEffect, AfterPushEffect DEF ReadEntry
<1>7. ASSUME NEW g \in SyncGoroutines, SetProgress(g)
      PROVE  PushLocked'
  BY <1>7, <1>a, <1>b, SendEffect DEF SetProgress, Received
<1>8. ASSUME NEW g \in SyncGoroutines, SetProgressFails(g)
      PROVE  PushLocked'
  BY <1>8, <1>a, <1>b, AfterPushEffect DEF SetProgressFails, Received, Fault
<1>9. ASSUME NEW g \in SyncGoroutines, ClearDirty(g)
      PROVE  PushLocked'
  BY <1>9, <1>a, <1>b, AfterPushEffect DEF ClearDirty
<1>10. ASSUME NEW h \in Handlers, EditEntry(h)
      PROVE  PushLocked'
  BY <1>10, <1>a, <1>b, GotoEffect DEF EditEntry, Ask, PCs
<1>11. ASSUME NEW h \in Handlers, MarkWatchedLast(h)
      PROVE  PushLocked'
  BY <1>11, <1>a, <1>b, GotoEffect DEF MarkWatchedLast, Ask, PCs
<1>12. ASSUME NEW h \in Handlers, MarkWatchedAgain(h)
      PROVE  PushLocked'
  BY <1>12, <1>a, <1>b, GotoEffect DEF MarkWatchedAgain, Ask, PCs
<1>13. ASSUME NEW h \in Handlers, CompleteEntry(h)
      PROVE  PushLocked'
  BY <1>13, <1>a, <1>b, GotoEffect DEF CompleteEntry, PCs
<1>14. ASSUME NEW h \in Handlers, Remove(h)
      PROVE  PushLocked'
  BY <1>14, <1>a, <1>b, GotoEffect DEF Remove, Ask, PCs
<1>15. ASSUME NEW h \in Handlers, RemoveRead(h)
      PROVE  PushLocked'
  BY <1>15, <1>a, <1>b, GotoEffect DEF RemoveRead, PCs
<1>16. ASSUME NEW h \in Handlers, DeleteEntry(h)
      PROVE  PushLocked'
  BY <1>16, <1>a, <1>b, GotoEffect DEF DeleteEntry, PCs
<1>17. ASSUME NEW h \in Handlers, RemoveFromMAL(h)
      PROVE  PushLocked'
  BY <1>17, <1>a, <1>b, GotoEffect DEF RemoveFromMAL, PCs
<1>18. ASSUME NEW h \in Handlers, RemoveFails(h)
      PROVE  PushLocked'
  BY <1>18, <1>a, <1>b, BecomeEffect DEF RemoveFails, Resting, Fault
<1>19. ASSUME NEW h \in Handlers, RemoveListEntry(h)
      PROVE  PushLocked'
  BY <1>19, <1>a, <1>b, BecomeEffect DEF RemoveListEntry, Resting
<1>20. CASE UNCHANGED syncVars
  BY <1>20 DEF syncVars
<1> QED
  BY <1>1, <1>2, <1>3, <1>4, <1>5, <1>6, <1>7, <1>8, <1>9, <1>10, <1>11, <1>12, <1>13, <1>14, <1>15, <1>16, <1>17, <1>18, <1>19, <1>20
  DEF SyncNext, JobStep, PushStep, RequestStep

\* A row that is being pushed stays on the list.
LEMMA ListedStep ==
    ASSUME SyncTypeOK, PushLocked, PushedIsListed, [SyncNext]_syncVars
    PROVE  PushedIsListed'
<1>a. /\ \A h \in Handlers : h \in SyncGoroutines
      /\ "job" \in SyncGoroutines /\ Nobody \notin SyncGoroutines
  BY NamesAssumption DEF SyncGoroutines
<1>b. procs \in [SyncGoroutines -> Proc]
  BY DEF SyncTypeOK
<1> USE DEF PushLocked, PushedIsListed, At
<1>1. CASE RunJob
  BY <1>1, <1>a, <1>b, GotoEffect DEF RunJob, PCs
<1>2. CASE FetchList
  BY <1>2, <1>a, <1>b, FetchEffect DEF FetchList
<1>3. CASE ImportList
  BY <1>3, <1>a, <1>b, BecomeEffect, MergeEffect, ProcType DEF ImportList, Resting
<1>4. CASE FetchFails
  BY <1>4, <1>a, <1>b, BecomeEffect DEF FetchFails, Resting, Fault
<1>5. CASE SiteEdit
  BY <1>5, <1>a, <1>b DEF SiteEdit
<1>6. ASSUME NEW g \in SyncGoroutines, ReadEntry(g)
      PROVE  PushedIsListed'
  BY <1>6, <1>a, <1>b, ReadEffect, AfterPushEffect DEF ReadEntry
<1>7. ASSUME NEW g \in SyncGoroutines, SetProgress(g)
      PROVE  PushedIsListed'
  BY <1>7, <1>a, <1>b, SendEffect DEF SetProgress, Received
<1>8. ASSUME NEW g \in SyncGoroutines, SetProgressFails(g)
      PROVE  PushedIsListed'
  BY <1>8, <1>a, <1>b, AfterPushEffect DEF SetProgressFails, Received, Fault
<1>9. ASSUME NEW g \in SyncGoroutines, ClearDirty(g)
      PROVE  PushedIsListed'
  BY <1>9, <1>a, <1>b, AfterPushEffect, ClearEffect DEF ClearDirty
<1>10. ASSUME NEW h \in Handlers, EditEntry(h)
      PROVE  PushedIsListed'
  BY <1>10, <1>a, <1>b, GotoEffect, RowEffect DEF EditEntry, Ask, PCs
<1>11. ASSUME NEW h \in Handlers, MarkWatchedLast(h)
      PROVE  PushedIsListed'
  BY <1>11, <1>a, <1>b, GotoEffect, RowEffect DEF MarkWatchedLast, Ask, PCs
<1>12. ASSUME NEW h \in Handlers, MarkWatchedAgain(h)
      PROVE  PushedIsListed'
  BY <1>12, <1>a, <1>b, GotoEffect DEF MarkWatchedAgain, Ask, PCs
<1>13. ASSUME NEW h \in Handlers, CompleteEntry(h)
      PROVE  PushedIsListed'
  BY <1>13, <1>a, <1>b, GotoEffect, RowEffect DEF CompleteEntry, PCs
<1>14. ASSUME NEW h \in Handlers, Remove(h)
      PROVE  PushedIsListed'
  BY <1>14, <1>a, <1>b, GotoEffect DEF Remove, Ask, PCs
<1>15. ASSUME NEW h \in Handlers, RemoveRead(h)
      PROVE  PushedIsListed'
  BY <1>15, <1>a, <1>b, GotoEffect DEF RemoveRead, PCs
<1>16. ASSUME NEW h \in Handlers, DeleteEntry(h)
      PROVE  PushedIsListed'
  BY <1>16, <1>a, <1>b, GotoEffect DEF DeleteEntry, PCs
<1>17. ASSUME NEW h \in Handlers, RemoveFromMAL(h)
      PROVE  PushedIsListed'
  BY <1>17, <1>a, <1>b, GotoEffect DEF RemoveFromMAL, PCs
<1>18. ASSUME NEW h \in Handlers, RemoveFails(h)
      PROVE  PushedIsListed'
  BY <1>18, <1>a, <1>b, BecomeEffect DEF RemoveFails, Resting, Fault
<1>19. ASSUME NEW h \in Handlers, RemoveListEntry(h)
      PROVE  PushedIsListed'
  BY <1>19, <1>a, <1>b, BecomeEffect, RowEffect DEF RemoveListEntry, Resting
<1>20. CASE UNCHANGED syncVars
  BY <1>20 DEF syncVars
<1> QED
  BY <1>1, <1>2, <1>3, <1>4, <1>5, <1>6, <1>7, <1>8, <1>9, <1>10, <1>11, <1>12, <1>13, <1>14, <1>15, <1>16, <1>17, <1>18, <1>19, <1>20
  DEF SyncNext, JobStep, PushStep, RequestStep

\* What was removed comes back on AniList only with an edit, here or there.
LEMMA OffSiteStep ==
    ASSUME SyncTypeOK, PushLocked, PushedIsListed, RemovedStaysOffSite, [SyncNext]_syncVars
    PROVE  RemovedStaysOffSite'
<1>a. /\ \A h \in Handlers : h \in SyncGoroutines
      /\ "job" \in SyncGoroutines /\ Nobody \notin SyncGoroutines
  BY NamesAssumption DEF SyncGoroutines
<1>b. procs \in [SyncGoroutines -> Proc]
  BY DEF SyncTypeOK
<1> USE DEF PushLocked, PushedIsListed, RemovedStaysOffSite, At
<1>1. CASE RunJob
  BY <1>1, <1>a, <1>b DEF RunJob, PCs
<1>2. CASE FetchList
  BY <1>2, <1>a, <1>b, FetchEffect DEF FetchList
<1>3. CASE ImportList
  BY <1>3, <1>a, <1>b, MergeEffect, ProcType DEF ImportList, Resting
<1>4. CASE FetchFails
  BY <1>4, <1>a, <1>b DEF FetchFails, Resting, Fault
<1>5. CASE SiteEdit
  BY <1>5, <1>a, <1>b DEF SiteEdit
<1>6. ASSUME NEW g \in SyncGoroutines, ReadEntry(g)
      PROVE  RemovedStaysOffSite'
  BY <1>6, <1>a, <1>b, ReadEffect DEF ReadEntry
<1>7. ASSUME NEW g \in SyncGoroutines, SetProgress(g)
      PROVE  RemovedStaysOffSite'
  BY <1>7, <1>a, <1>b, SendEffect DEF SetProgress, Received
<1>8. ASSUME NEW g \in SyncGoroutines, SetProgressFails(g)
      PROVE  RemovedStaysOffSite'
  BY <1>8, <1>a, <1>b DEF SetProgressFails, Received, Fault
<1>9. ASSUME NEW g \in SyncGoroutines, ClearDirty(g)
      PROVE  RemovedStaysOffSite'
  BY <1>9, <1>a, <1>b, ClearEffect DEF ClearDirty
<1>10. ASSUME NEW h \in Handlers, EditEntry(h)
      PROVE  RemovedStaysOffSite'
  BY <1>10, <1>a, <1>b, RowEffect DEF EditEntry, Ask, PCs
<1>11. ASSUME NEW h \in Handlers, MarkWatchedLast(h)
      PROVE  RemovedStaysOffSite'
  BY <1>11, <1>a, <1>b, RowEffect DEF MarkWatchedLast, Ask, PCs
<1>12. ASSUME NEW h \in Handlers, MarkWatchedAgain(h)
      PROVE  RemovedStaysOffSite'
  BY <1>12, <1>a, <1>b DEF MarkWatchedAgain, Ask, PCs
<1>13. ASSUME NEW h \in Handlers, CompleteEntry(h)
      PROVE  RemovedStaysOffSite'
  BY <1>13, <1>a, <1>b, RowEffect DEF CompleteEntry, PCs
<1>14. ASSUME NEW h \in Handlers, Remove(h)
      PROVE  RemovedStaysOffSite'
  BY <1>14, <1>a, <1>b DEF Remove, Ask, PCs
<1>15. ASSUME NEW h \in Handlers, RemoveRead(h)
      PROVE  RemovedStaysOffSite'
  BY <1>15, <1>a, <1>b DEF RemoveRead, PCs
<1>16. ASSUME NEW h \in Handlers, DeleteEntry(h)
      PROVE  RemovedStaysOffSite'
  BY <1>16, <1>a, <1>b DEF DeleteEntry, PCs
<1>17. ASSUME NEW h \in Handlers, RemoveFromMAL(h)
      PROVE  RemovedStaysOffSite'
  BY <1>17, <1>a, <1>b DEF RemoveFromMAL, PCs
<1>18. ASSUME NEW h \in Handlers, RemoveFails(h)
      PROVE  RemovedStaysOffSite'
  BY <1>18, <1>a, <1>b DEF RemoveFails, Resting, Fault
<1>19. ASSUME NEW h \in Handlers, RemoveListEntry(h)
      PROVE  RemovedStaysOffSite'
  BY <1>19, <1>a, <1>b, RowEffect DEF RemoveListEntry, Resting
<1>20. CASE UNCHANGED syncVars
  BY <1>20 DEF syncVars
<1> QED
  BY <1>1, <1>2, <1>3, <1>4, <1>5, <1>6, <1>7, <1>8, <1>9, <1>10, <1>11, <1>12, <1>13, <1>14, <1>15, <1>16, <1>17, <1>18, <1>19, <1>20
  DEF SyncNext, JobStep, PushStep, RequestStep

\* What AniList holds, and what was fetched from it or answered by it, it has held.
LEMMA SentStep ==
    ASSUME SyncTypeOK, SentIsKnown, [SyncNext]_syncVars
    PROVE  SentIsKnown'
<1>a. /\ \A h \in Handlers : h \in SyncGoroutines
      /\ "job" \in SyncGoroutines /\ Nobody \notin SyncGoroutines
  BY NamesAssumption DEF SyncGoroutines
<1>b. procs \in [SyncGoroutines -> Proc]
  BY DEF SyncTypeOK
<1> USE DEF SentIsKnown, At
<1>1. CASE RunJob
  BY <1>1, <1>a, <1>b, GotoEffect DEF RunJob, PCs
<1>2. CASE FetchList
  BY <1>2, <1>a, <1>b, FetchEffect DEF FetchList
<1>3. CASE ImportList
  BY <1>3, <1>a, <1>b, BecomeEffect, ProcType DEF ImportList, Resting
<1>4. CASE FetchFails
  BY <1>4, <1>a, <1>b, BecomeEffect DEF FetchFails, Resting, Fault
<1>5. CASE SiteEdit
  BY <1>5, <1>a, <1>b DEF SiteEdit
<1>6. ASSUME NEW g \in SyncGoroutines, ReadEntry(g)
      PROVE  SentIsKnown'
  BY <1>6, <1>a, <1>b, ReadEffect, AfterPushEffect DEF ReadEntry
<1>7. ASSUME NEW g \in SyncGoroutines, SetProgress(g)
      PROVE  SentIsKnown'
  BY <1>7, <1>a, <1>b, SendEffect DEF SetProgress, Received
<1>8. ASSUME NEW g \in SyncGoroutines, SetProgressFails(g)
      PROVE  SentIsKnown'
  BY <1>8, <1>a, <1>b, AfterPushEffect DEF SetProgressFails, Received, Fault
<1>9. ASSUME NEW g \in SyncGoroutines, ClearDirty(g)
      PROVE  SentIsKnown'
  BY <1>9, <1>a, <1>b, AfterPushEffect DEF ClearDirty
<1>10. ASSUME NEW h \in Handlers, EditEntry(h)
      PROVE  SentIsKnown'
  BY <1>10, <1>a, <1>b, GotoEffect DEF EditEntry, Ask, PCs
<1>11. ASSUME NEW h \in Handlers, MarkWatchedLast(h)
      PROVE  SentIsKnown'
  BY <1>11, <1>a, <1>b, GotoEffect DEF MarkWatchedLast, Ask, PCs
<1>12. ASSUME NEW h \in Handlers, MarkWatchedAgain(h)
      PROVE  SentIsKnown'
  BY <1>12, <1>a, <1>b, GotoEffect DEF MarkWatchedAgain, Ask, PCs
<1>13. ASSUME NEW h \in Handlers, CompleteEntry(h)
      PROVE  SentIsKnown'
  BY <1>13, <1>a, <1>b, GotoEffect DEF CompleteEntry, PCs
<1>14. ASSUME NEW h \in Handlers, Remove(h)
      PROVE  SentIsKnown'
  BY <1>14, <1>a, <1>b, GotoEffect DEF Remove, Ask, PCs
<1>15. ASSUME NEW h \in Handlers, RemoveRead(h)
      PROVE  SentIsKnown'
  BY <1>15, <1>a, <1>b, GotoEffect DEF RemoveRead, PCs
<1>16. ASSUME NEW h \in Handlers, DeleteEntry(h)
      PROVE  SentIsKnown'
  BY <1>16, <1>a, <1>b, GotoEffect DEF DeleteEntry, PCs
<1>17. ASSUME NEW h \in Handlers, RemoveFromMAL(h)
      PROVE  SentIsKnown'
  BY <1>17, <1>a, <1>b, GotoEffect DEF RemoveFromMAL, PCs
<1>18. ASSUME NEW h \in Handlers, RemoveFails(h)
      PROVE  SentIsKnown'
  BY <1>18, <1>a, <1>b, BecomeEffect DEF RemoveFails, Resting, Fault
<1>19. ASSUME NEW h \in Handlers, RemoveListEntry(h)
      PROVE  SentIsKnown'
  BY <1>19, <1>a, <1>b, BecomeEffect DEF RemoveListEntry, Resting
<1>20. CASE UNCHANGED syncVars
  BY <1>20 DEF syncVars
<1> QED
  BY <1>1, <1>2, <1>3, <1>4, <1>5, <1>6, <1>7, <1>8, <1>9, <1>10, <1>11, <1>12, <1>13, <1>14, <1>15, <1>16, <1>17, <1>18, <1>19, <1>20
  DEF SyncNext, JobStep, PushStep, RequestStep

\* The numbers a step compares.
LEMMA Numbers ==
    ASSUME SyncTypeOK
    PROVE  /\ edits \in Nat /\ siteEdits \in Nat /\ pushed \in Int /\ remote.val \in Nat /\ remote.at \in Nat
           /\ local.val \in Nat /\ local.changed \in Nat /\ local.remoteAt \in Nat
           /\ \A g \in SyncGoroutines :
                procs[g].val \in Nat /\ procs[g].changed \in Nat /\ procs[g].at \in Nat
<1>1. local \in Entry /\ remote \in Remote /\ procs \in [SyncGoroutines -> Proc] /\ pushed \in Int
  BY DEF SyncTypeOK, Removed
<1>2. \A g \in SyncGoroutines : procs[g] \in Proc
  BY <1>1
<1> QED
  BY <1>1, <1>2 DEF SyncTypeOK, Entry, Remote, Proc

(* The row, the site and the goroutines after each step.                   *)

\* Run: the job begins with the push or, with nothing dirty, with the pull.
LEMMA RunJobDoes ==
    ASSUME SyncTypeOK, RunJob
    PROVE  /\ procs'["job"].pc \in {"push", "fetch"}
           /\ \A x \in SyncGoroutines : x # "job" => procs'[x] = procs[x]
           /\ UNCHANGED <<local, remote, finishing, edits, siteEdits, pushed, sent>>
<1>1. "job" \in SyncGoroutines
  BY DEF SyncGoroutines
<1> QED
  BY <1>1, GotoEffect DEF RunJob, bounds, PCs

\* The fetched list is what AniList has now.
LEMMA FetchListDoes ==
    ASSUME SyncTypeOK, FetchList
    PROVE  /\ procs'["job"].pc = "merge" /\ procs'["job"].listed = remote.listed
           /\ procs'["job"].val = remote.val /\ procs'["job"].at = remote.at
           /\ \A x \in SyncGoroutines : x # "job" => procs'[x] = procs[x]
           /\ UNCHANGED <<local, remote, finishing, edits, siteEdits, pushed, sent>>
<1>1. "job" \in SyncGoroutines
  BY DEF SyncGoroutines
<1> QED
  BY <1>1, FetchEffect DEF FetchList, bounds

\* After the merge the job rests.
LEMMA ImportListDoes ==
    ASSUME SyncTypeOK, ImportList
    PROVE  /\ procs["job"].pc = "merge" /\ procs'["job"].pc = "idle"
           /\ \A x \in SyncGoroutines : x # "job" => procs'[x] = procs[x]
           /\ UNCHANGED <<remote, finishing, edits, siteEdits, pushed, sent>>
<1>1. "job" \in SyncGoroutines
  BY DEF SyncGoroutines
<1> QED
  BY <1>1, BecomeEffect DEF ImportList, bounds, Resting, At

\* A failed fetch ends the job's run.
LEMMA FetchFailsDoes ==
    ASSUME SyncTypeOK, FetchFails
    PROVE  /\ procs'["job"].pc = "idle"
           /\ \A x \in SyncGoroutines : x # "job" => procs'[x] = procs[x]
           /\ UNCHANGED <<local, remote, finishing, edits, siteEdits, pushed, sent>>
<1>1. "job" \in SyncGoroutines
  BY DEF SyncGoroutines
<1> QED
  BY <1>1, BecomeEffect DEF FetchFails, Fault, Resting

\* An edit on the site is AniList's from then on.
LEMMA SiteEditDoes ==
    ASSUME SyncTypeOK, SiteEdit
    PROVE  /\ remote'.listed /\ remote'.val = edits + 1 /\ edits' = edits + 1
           /\ sent' = sent \cup {edits + 1} /\ siteEdits' = siteEdits + 1
           /\ UNCHANGED <<local, finishing, procs, pushed>>
  BY DEF SiteEdit

\* A push carries what the row said, or there is nothing to push.
LEMMA ReadEntryDoes ==
    ASSUME SyncTypeOK, NEW g \in SyncGoroutines, ReadEntry(g)
    PROVE  /\ \/ /\ procs'[g].pc = "send" /\ procs'[g].val = local.val
                 /\ procs'[g].changed = local.changed /\ local.listed
              \/ procs'[g].pc \in {"idle", "fetch"}
           /\ \A x \in SyncGoroutines : x # g => procs'[x] = procs[x]
           /\ UNCHANGED <<local, remote, finishing, edits, siteEdits, pushed, sent>>
  BY ReadEffect, AfterPushEffect DEF ReadEntry, bounds

\* AniList has what the push carried, and its time is remembered.
LEMMA SetProgressDoes ==
    ASSUME SyncTypeOK, NEW g \in SyncGoroutines, SetProgress(g)
    PROVE  /\ procs[g].pc = "send" /\ procs'[g].pc = "clear" /\ procs'[g].val = procs[g].val
           /\ procs'[g].changed = procs[g].changed /\ procs'[g].at = remote.at + 1
           /\ \A x \in SyncGoroutines : x # g => procs'[x] = procs[x]
           /\ remote'.listed /\ remote'.val = procs[g].val /\ remote'.at = remote.at + 1
           /\ pushed' = IF pushed = Removed THEN Removed ELSE procs[g].val
           /\ sent' = sent \cup {procs[g].val}
           /\ UNCHANGED <<local, finishing, edits, siteEdits>>
  BY SendEffect DEF SetProgress, Received, bounds, At

\* A failed push may have reached AniList all the same.
LEMMA SetProgressFailsDoes ==
    ASSUME SyncTypeOK, NEW g \in SyncGoroutines, SetProgressFails(g)
    PROVE  /\ procs[g].pc = "send" /\ procs'[g].pc \in {"idle", "fetch"}
           /\ \A x \in SyncGoroutines : x # g => procs'[x] = procs[x]
           /\ \/ UNCHANGED <<remote, pushed, sent>>
              \/ /\ remote'.listed /\ remote'.val = procs[g].val /\ remote'.at = remote.at + 1
                 /\ pushed' = IF pushed = Removed THEN Removed ELSE procs[g].val
                 /\ sent' = sent \cup {procs[g].val}
           /\ UNCHANGED <<local, finishing, edits, siteEdits>>
  BY AfterPushEffect DEF SetProgressFails, Received, Fault, At

\* The end of a push changes no value and cleans only a row that is as it was read.
LEMMA ClearDirtyDoes ==
    ASSUME SyncTypeOK, NEW g \in SyncGoroutines, ClearDirty(g)
    PROVE  /\ procs[g].pc = "clear" /\ procs'[g].pc \in {"idle", "fetch"}
           /\ \A x \in SyncGoroutines : x # g => procs'[x] = procs[x]
           /\ local'.listed = local.listed /\ local'.val = local.val /\ local'.changed = local.changed
           /\ local.listed => local'.remoteAt = procs[g].at
           /\ local.listed /\ ~local'.dirty => ~local.dirty \/ ~(local.changed > procs[g].changed)
           /\ UNCHANGED <<remote, finishing, edits, siteEdits, pushed, sent>>
  BY AfterPushEffect, ClearEffect DEF ClearDirty, bounds, At

\* An edit is newer than all others, and dirty.
LEMMA EditEntryDoes ==
    ASSUME SyncTypeOK, NEW h \in Handlers, EditEntry(h)
    PROVE  /\ procs'[h].pc = "push"
           /\ local'.listed /\ local'.dirty /\ local'.val = edits + 1 /\ local'.changed = edits + 1
           /\ edits' = edits + 1
           /\ \A x \in SyncGoroutines : x # h => procs'[x] = procs[x]
           /\ UNCHANGED <<remote, finishing, siteEdits, pushed, sent>>
<1>1. h \in SyncGoroutines
  BY DEF SyncGoroutines
<1> QED
  BY <1>1, GotoEffect, RowEffect DEF EditEntry, Ask, PCs

\* So is the last episode marked watched, whose completion follows.
LEMMA MarkWatchedLastDoes ==
    ASSUME SyncTypeOK, NEW h \in Handlers, MarkWatchedLast(h)
    PROVE  /\ finishing /\ procs'[h].pc = "finish"
           /\ local'.listed /\ local'.dirty /\ local'.val = edits + 1 /\ local'.changed = edits + 1
           /\ edits' = edits + 1
           /\ \A x \in SyncGoroutines : x # h => procs'[x] = procs[x]
           /\ UNCHANGED <<remote, finishing, siteEdits, pushed, sent>>
<1>1. h \in SyncGoroutines
  BY DEF SyncGoroutines
<1> QED
  BY <1>1, GotoEffect, RowEffect DEF MarkWatchedLast, Ask, PCs

\* An episode already watched changes nothing here.
LEMMA MarkWatchedAgainDoes ==
    ASSUME SyncTypeOK, NEW h \in Handlers, MarkWatchedAgain(h)
    PROVE  /\ procs'[h].pc = "push"
           /\ \A x \in SyncGoroutines : x # h => procs'[x] = procs[x]
           /\ UNCHANGED <<local, remote, finishing, edits, siteEdits, pushed, sent>>
<1>1. h \in SyncGoroutines
  BY DEF SyncGoroutines
<1> QED
  BY <1>1, GotoEffect DEF MarkWatchedAgain, Ask, PCs

\* The completion is an edit that leaves local_updated_at.
LEMMA CompleteEntryDoes ==
    ASSUME SyncTypeOK, NEW h \in Handlers, CompleteEntry(h)
    PROVE  /\ procs[h].pc = "finish" /\ procs'[h].pc = "push"
           /\ \A x \in SyncGoroutines : x # h => procs'[x] = procs[x]
           /\ \/ UNCHANGED <<local, edits>>
              \/ /\ local.listed /\ local'.listed /\ local'.val = edits + 1 /\ local'.dirty
                 /\ local'.changed = local.changed /\ edits' = edits + 1
           /\ UNCHANGED <<remote, finishing, siteEdits, pushed, sent>>
<1>1. h \in SyncGoroutines
  BY DEF SyncGoroutines
<1> QED
  BY <1>1, GotoEffect, RowEffect DEF CompleteEntry, bounds, PCs, At

\* A removal begins.
LEMMA RemoveDoes ==
    ASSUME SyncTypeOK, NEW h \in Handlers, Remove(h)
    PROVE  /\ procs'[h].pc = "remove"
           /\ \A x \in SyncGoroutines : x # h => procs'[x] = procs[x]
           /\ UNCHANGED <<local, remote, finishing, edits, siteEdits, pushed, sent>>
<1>1. h \in SyncGoroutines
  BY DEF SyncGoroutines
<1> QED
  BY <1>1, GotoEffect DEF Remove, Ask, PCs

\* It takes the lock.
LEMMA RemoveReadDoes ==
    ASSUME SyncTypeOK, NEW h \in Handlers, RemoveRead(h)
    PROVE  /\ procs'[h].pc \in {"delete", "mal"}
           /\ \A x \in SyncGoroutines : x # h => procs'[x] = procs[x]
           /\ UNCHANGED <<local, remote, finishing, edits, siteEdits, pushed, sent>>
<1>1. h \in SyncGoroutines
  BY DEF SyncGoroutines
<1> QED
  BY <1>1, GotoEffect DEF RemoveRead, bounds, PCs

\* AniList's entry goes.
LEMMA DeleteEntryDoes ==
    ASSUME SyncTypeOK, NEW h \in Handlers, DeleteEntry(h)
    PROVE  /\ procs'[h].pc = "mal"
           /\ \A x \in SyncGoroutines : x # h => procs'[x] = procs[x]
           /\ ~remote'.listed /\ remote'.at = remote.at
           /\ UNCHANGED <<local, finishing, edits, siteEdits, pushed, sent>>
<1>1. h \in SyncGoroutines
  BY DEF SyncGoroutines
<1> QED
  BY <1>1, GotoEffect DEF DeleteEntry, bounds, PCs

\* MyAnimeList's goes.
LEMMA RemoveFromMALDoes ==
    ASSUME SyncTypeOK, NEW h \in Handlers, RemoveFromMAL(h)
    PROVE  /\ procs'[h].pc = "drop"
           /\ \A x \in SyncGoroutines : x # h => procs'[x] = procs[x]
           /\ UNCHANGED <<local, remote, finishing, edits, siteEdits, pushed, sent>>
<1>1. h \in SyncGoroutines
  BY DEF SyncGoroutines
<1> QED
  BY <1>1, GotoEffect DEF RemoveFromMAL, bounds, PCs

\* A refusal ends the removal.
LEMMA RemoveFailsDoes ==
    ASSUME SyncTypeOK, NEW h \in Handlers, RemoveFails(h)
    PROVE  /\ procs'[h].pc = "idle"
           /\ \A x \in SyncGoroutines : x # h => procs'[x] = procs[x]
           /\ UNCHANGED <<local, remote, finishing, edits, siteEdits, pushed, sent>>
<1>1. h \in SyncGoroutines
  BY DEF SyncGoroutines
<1> QED
  BY <1>1, BecomeEffect DEF RemoveFails, Fault, Resting

\* The row goes last.
LEMMA RemoveListEntryDoes ==
    ASSUME SyncTypeOK, NEW h \in Handlers, RemoveListEntry(h)
    PROVE  /\ procs[h].pc = "drop" /\ procs'[h].pc = "idle"
           /\ \A x \in SyncGoroutines : x # h => procs'[x] = procs[x]
           /\ ~local'.listed /\ local'.changed = 0 /\ pushed' = Removed
           /\ UNCHANGED <<remote, finishing, edits, siteEdits, sent>>
<1>1. h \in SyncGoroutines
  BY DEF SyncGoroutines
<1> QED
  BY <1>1, BecomeEffect, RowEffect DEF RemoveListEntry, bounds, Resting, At

\* An edit raises local_updated_at above what any push has read.
LEMMA ChangeStep ==
    ASSUME SyncTypeOK, PushLocked, PushedIsListed, SentIsKnown, ChangeIsSeen, [SyncNext]_syncVars
    PROVE  ChangeIsSeen'
<1>a. "job" \in SyncGoroutines /\ \A h \in Handlers : h \in SyncGoroutines
  BY DEF SyncGoroutines
<1> USE DEF PushLocked, PushedIsListed, SentIsKnown, ChangeIsSeen
<1>1. CASE RunJob
  BY <1>1, <1>a, Numbers, RunJobDoes
<1>2. CASE FetchList
  BY <1>2, <1>a, Numbers, FetchListDoes
<1>3. CASE ImportList
  <2>1. procs["job"] \in Proc /\ local' = Merged(procs["job"])
    BY <1>3, <1>a, ProcType DEF ImportList
  <2> QED
    BY <1>3, <1>a, <2>1, Numbers, ImportListDoes, MergeEffect
<1>4. CASE FetchFails
  BY <1>4, <1>a, Numbers, FetchFailsDoes
<1>5. CASE SiteEdit
  BY <1>5, <1>a, Numbers, SiteEditDoes
<1>6. ASSUME NEW g \in SyncGoroutines, ReadEntry(g)
      PROVE  ChangeIsSeen'
  BY <1>6, <1>a, Numbers, ReadEntryDoes
<1>7. ASSUME NEW g \in SyncGoroutines, SetProgress(g)
      PROVE  ChangeIsSeen'
  BY <1>7, <1>a, Numbers, SetProgressDoes
<1>8. ASSUME NEW g \in SyncGoroutines, SetProgressFails(g)
      PROVE  ChangeIsSeen'
  BY <1>8, <1>a, Numbers, SetProgressFailsDoes
<1>9. ASSUME NEW g \in SyncGoroutines, ClearDirty(g)
      PROVE  ChangeIsSeen'
  BY <1>9, <1>a, Numbers, ClearDirtyDoes
<1>10. ASSUME NEW h \in Handlers, EditEntry(h)
      PROVE  ChangeIsSeen'
  BY <1>10, <1>a, Numbers, EditEntryDoes
<1>11. ASSUME NEW h \in Handlers, MarkWatchedLast(h)
      PROVE  ChangeIsSeen'
  BY <1>11, <1>a, Numbers, MarkWatchedLastDoes
<1>12. ASSUME NEW h \in Handlers, MarkWatchedAgain(h)
      PROVE  ChangeIsSeen'
  BY <1>12, <1>a, Numbers, MarkWatchedAgainDoes
<1>13. ASSUME NEW h \in Handlers, CompleteEntry(h)
      PROVE  ChangeIsSeen'
  BY <1>13, <1>a, Numbers, CompleteEntryDoes
<1>14. ASSUME NEW h \in Handlers, Remove(h)
      PROVE  ChangeIsSeen'
  BY <1>14, <1>a, Numbers, RemoveDoes
<1>15. ASSUME NEW h \in Handlers, RemoveRead(h)
      PROVE  ChangeIsSeen'
  BY <1>15, <1>a, Numbers, RemoveReadDoes
<1>16. ASSUME NEW h \in Handlers, DeleteEntry(h)
      PROVE  ChangeIsSeen'
  BY <1>16, <1>a, Numbers, DeleteEntryDoes
<1>17. ASSUME NEW h \in Handlers, RemoveFromMAL(h)
      PROVE  ChangeIsSeen'
  BY <1>17, <1>a, Numbers, RemoveFromMALDoes
<1>18. ASSUME NEW h \in Handlers, RemoveFails(h)
      PROVE  ChangeIsSeen'
  BY <1>18, <1>a, Numbers, RemoveFailsDoes
<1>19. ASSUME NEW h \in Handlers, RemoveListEntry(h)
      PROVE  ChangeIsSeen'
  BY <1>19, <1>a, Numbers, RemoveListEntryDoes
<1>20. CASE UNCHANGED syncVars
  BY <1>20 DEF syncVars
<1> QED
  BY <1>1, <1>2, <1>3, <1>4, <1>5, <1>6, <1>7, <1>8, <1>9, <1>10, <1>11, <1>12, <1>13, <1>14, <1>15, <1>16, <1>17, <1>18, <1>19, <1>20
  DEF SyncNext, JobStep, PushStep, RequestStep

\* Before a removal, and while the site is left alone, pushes go up.
LEMMA OrderStep ==
    ASSUME SyncTypeOK, PushLocked, PushedIsListed, PushOrder, [SyncNext]_syncVars
    PROVE  PushOrder'
<1>a. "job" \in SyncGoroutines /\ \A h \in Handlers : h \in SyncGoroutines
  BY DEF SyncGoroutines
<1> USE DEF PushLocked, PushedIsListed, PushOrder
<1>1. CASE RunJob
  BY <1>1, <1>a, Numbers, RunJobDoes
<1>2. CASE FetchList
  BY <1>2, <1>a, Numbers, FetchListDoes
<1>3. CASE ImportList
  <2>1. procs["job"] \in Proc /\ local' = Merged(procs["job"])
    BY <1>3, <1>a, ProcType DEF ImportList
  <2> QED
    BY <1>3, <1>a, <2>1, Numbers, ImportListDoes, MergeEffect
<1>4. CASE FetchFails
  BY <1>4, <1>a, Numbers, FetchFailsDoes
<1>5. CASE SiteEdit
  BY <1>5, <1>a, Numbers, SiteEditDoes
<1>6. ASSUME NEW g \in SyncGoroutines, ReadEntry(g)
      PROVE  PushOrder'
  BY <1>6, <1>a, Numbers, ReadEntryDoes
<1>7. ASSUME NEW g \in SyncGoroutines, SetProgress(g)
      PROVE  PushOrder'
  BY <1>7, <1>a, Numbers, SetProgressDoes
<1>8. ASSUME NEW g \in SyncGoroutines, SetProgressFails(g)
      PROVE  PushOrder'
  BY <1>8, <1>a, Numbers, SetProgressFailsDoes
<1>9. ASSUME NEW g \in SyncGoroutines, ClearDirty(g)
      PROVE  PushOrder'
  BY <1>9, <1>a, Numbers, ClearDirtyDoes
<1>10. ASSUME NEW h \in Handlers, EditEntry(h)
      PROVE  PushOrder'
  BY <1>10, <1>a, Numbers, EditEntryDoes
<1>11. ASSUME NEW h \in Handlers, MarkWatchedLast(h)
      PROVE  PushOrder'
  BY <1>11, <1>a, Numbers, MarkWatchedLastDoes
<1>12. ASSUME NEW h \in Handlers, MarkWatchedAgain(h)
      PROVE  PushOrder'
  BY <1>12, <1>a, Numbers, MarkWatchedAgainDoes
<1>13. ASSUME NEW h \in Handlers, CompleteEntry(h)
      PROVE  PushOrder'
  BY <1>13, <1>a, Numbers, CompleteEntryDoes
<1>14. ASSUME NEW h \in Handlers, Remove(h)
      PROVE  PushOrder'
  BY <1>14, <1>a, Numbers, RemoveDoes
<1>15. ASSUME NEW h \in Handlers, RemoveRead(h)
      PROVE  PushOrder'
  BY <1>15, <1>a, Numbers, RemoveReadDoes
<1>16. ASSUME NEW h \in Handlers, DeleteEntry(h)
      PROVE  PushOrder'
  BY <1>16, <1>a, Numbers, DeleteEntryDoes
<1>17. ASSUME NEW h \in Handlers, RemoveFromMAL(h)
      PROVE  PushOrder'
  BY <1>17, <1>a, Numbers, RemoveFromMALDoes
<1>18. ASSUME NEW h \in Handlers, RemoveFails(h)
      PROVE  PushOrder'
  BY <1>18, <1>a, Numbers, RemoveFailsDoes
<1>19. ASSUME NEW h \in Handlers, RemoveListEntry(h)
      PROVE  PushOrder'
  BY <1>19, <1>a, Numbers, RemoveListEntryDoes
<1>20. CASE UNCHANGED syncVars
  BY <1>20 DEF syncVars
<1> QED
  BY <1>1, <1>2, <1>3, <1>4, <1>5, <1>6, <1>7, <1>8, <1>9, <1>10, <1>11, <1>12, <1>13, <1>14, <1>15, <1>16, <1>17, <1>18, <1>19, <1>20
  DEF SyncNext, JobStep, PushStep, RequestStep

------------------------------------------------------------------------------
(* The theorems.                                                           *)

\* Nothing listed and nobody at work satisfies the invariant.
LEMMA SyncInvInit == SyncInit => SyncInv
<1> SUFFICES ASSUME SyncInit
             PROVE  SyncInv
  OBVIOUS
<1>1. SyncTypeOK
  BY DEF SyncInit, SyncTypeOK, NoEntry, Entry, Remote, Resting, Proc, PCs, Removed
<1>2. "job" \in SyncGoroutines /\ \A g \in SyncGoroutines : procs[g].pc = "idle"
  BY DEF SyncInit, Resting, SyncGoroutines
<1>3. /\ ~local.listed /\ local.changed = 0 /\ ~remote.listed /\ pushed = 0 /\ edits = 0
      /\ ~gone
  BY DEF SyncInit, NoEntry
<1> QED
  BY <1>1, <1>2, <1>3
  DEF SyncInv, PushLocked, PushedIsListed, RemovedStaysOffSite, PushOrder, SentIsKnown, ChangeIsSeen

\* The inductive invariant of the sync: the lock covers a push from its read to its
\* clearing, the row and AniList agree on what was told, edits are seen by their time.
THEOREM SyncInvariant == SyncSpec => []SyncInv
<1>1. SyncInv /\ [SyncNext]_syncVars => SyncInv'
  <2> SUFFICES ASSUME SyncInv, [SyncNext]_syncVars
               PROVE  SyncInv'
    OBVIOUS
  <2>1. SyncTypeOK' /\ PushLocked' /\ PushedIsListed'
    BY TypeStep, LockStep, ListedStep DEF SyncInv
  <2>2. RemovedStaysOffSite' /\ PushOrder'
    BY OffSiteStep, OrderStep DEF SyncInv
  <2>3. SentIsKnown' /\ ChangeIsSeen'
    BY SentStep, ChangeStep DEF SyncInv
  <2> QED
    BY <2>1, <2>2, <2>3 DEF SyncInv
<1> QED
  BY <1>1, SyncInvInit, PTL DEF SyncSpec

\* Every variable keeps its type, and an entry removed everywhere stays off AniList until
\* it is edited again, whatever pushes, pulls and removals overlap (Sync.Remove).
THEOREM SyncStaysSafe == SyncSpec => []SyncSafe
<1>1. SyncInv => SyncSafe
  BY DEF SyncInv, SyncSafe
<1> QED
  BY <1>1, SyncInvariant, PTL

\* No step sends AniList something older than it was told before (pushLatest), ...
LEMMA PushStepOrdered ==
    ASSUME SyncInv, [SyncNext]_syncVars, siteEdits = 0, pushed' # Removed
    PROVE  pushed' >= pushed
<1>a. SyncTypeOK /\ pushed \in Int /\ PushOrder
  BY Numbers DEF SyncInv
<1>1. ASSUME NEW g \in SyncGoroutines, SetProgress(g) \/ SetProgressFails(g)
      PROVE  pushed' >= pushed
  <2>1. procs[g].pc = "send" /\ (pushed' = pushed \/ (pushed # Removed /\ pushed' = procs[g].val))
    BY <1>1, <1>a, SetProgressDoes, SetProgressFailsDoes
  <2> QED
    BY <2>1, <1>a, Numbers DEF PushOrder
<1>2. ASSUME NEW h \in Handlers, RemoveListEntry(h)
      PROVE  FALSE
  BY <1>2, <1>a, RemoveListEntryDoes
<1>3. CASE JobStep \/ FetchFails \/ SiteEdit
  BY <1>3, <1>a DEF JobStep, RunJob, FetchList, ImportList, FetchFails, SiteEdit
<1>4. ASSUME NEW g \in SyncGoroutines, ReadEntry(g) \/ ClearDirty(g)
      PROVE  pushed' = pushed
  BY <1>4 DEF ReadEntry, ClearDirty
<1>5. ASSUME NEW h \in Handlers,
             \/ CompleteEntry(h) \/ RemoveRead(h) \/ DeleteEntry(h) \/ RemoveFromMAL(h)
             \/ RemoveFails(h) \/ EditEntry(h) \/ MarkWatchedLast(h) \/ MarkWatchedAgain(h) \/ Remove(h)
      PROVE  pushed' = pushed
  BY <1>5 DEF CompleteEntry, RemoveRead, DeleteEntry, RemoveFromMAL, RemoveFails, EditEntry,
              MarkWatchedLast, MarkWatchedAgain, Remove
<1>6. CASE UNCHANGED syncVars
  BY <1>6, <1>a DEF syncVars
<1> QED
  BY <1>a, <1>1, <1>2, <1>3, <1>4, <1>5, <1>6 DEF SyncNext, PushStep, RequestStep

\* ... and no merge drops an edit AniList never held (ImportList with ImportMerge).
LEMMA MergeKeepsEdits ==
    ASSUME SyncInv, [SyncNext]_syncVars, ~finishing, procs["job"].pc = "merge",
           procs'["job"].pc # "merge", local.listed, local'.val # local.val
    PROVE  local.val \in sent
<1>a. SyncTypeOK /\ ChangeIsSeen
  BY DEF SyncInv
<1>b. "job" \in SyncGoroutines /\ \A h \in Handlers : h \in SyncGoroutines /\ h # "job"
  BY NamesAssumption DEF SyncGoroutines
<1>1. CASE ImportList
  <2>1. procs["job"] \in Proc /\ local' = Merged(procs["job"])
    BY <1>1, <1>a, <1>b, ProcType DEF ImportList
  <2>2. ~local.dirty
    BY <2>1, <1>a, MergeEffect
  <2> QED
    BY <2>2, <1>a DEF ChangeIsSeen
<1>2. CASE RunJob \/ FetchList \/ FetchFails \/ SiteEdit
  BY <1>2 DEF RunJob, FetchList, FetchFails, SiteEdit
<1>3. ASSUME NEW g \in SyncGoroutines,
             ReadEntry(g) \/ SetProgress(g) \/ SetProgressFails(g) \/ ClearDirty(g)
      PROVE  FALSE
  BY <1>3, <1>a, ClearDirtyDoes DEF ReadEntry, SetProgress, SetProgressFails
<1>4. ASSUME NEW h \in Handlers,
             EditEntry(h) \/ MarkWatchedLast(h) \/ CompleteEntry(h) \/ RemoveListEntry(h)
      PROVE  FALSE
  BY <1>4, <1>a, <1>b, EditEntryDoes, MarkWatchedLastDoes, CompleteEntryDoes, RemoveListEntryDoes
<1>5. ASSUME NEW h \in Handlers,
             \/ MarkWatchedAgain(h) \/ Remove(h) \/ RemoveRead(h) \/ DeleteEntry(h)
             \/ RemoveFromMAL(h) \/ RemoveFails(h)
      PROVE  FALSE
  BY <1>5 DEF MarkWatchedAgain, Remove, RemoveRead, DeleteEntry, RemoveFromMAL, RemoveFails
<1>6. CASE UNCHANGED syncVars
  BY <1>6 DEF syncVars
<1> QED
  BY <1>1, <1>2, <1>3, <1>4, <1>5, <1>6 DEF SyncNext, JobStep, PushStep, RequestStep

\* Pushes reach AniList in the order of the edits while nobody edits there and the entry was
\* not removed, and a pull never throws away an edit AniList has not held.
THEOREM SyncStaysKept == SyncSpec => SyncKeeps
<1>1. SyncInv /\ [SyncNext]_syncVars
        => [siteEdits = 0 /\ pushed' # Removed => pushed' >= pushed]_syncVars
  BY PushStepOrdered
<1>2. SyncInv /\ [SyncNext]_syncVars
        => [~finishing /\ At("job", "merge") /\ ~At("job", "merge")'
               /\ local.listed /\ local'.val # local.val
            => local.val \in sent]_syncVars
  BY MergeKeepsEdits DEF At
<1> QED
  BY <1>1, <1>2, SyncInvariant, PTL DEF SyncSpec, SyncKeeps, PushesInOrder, EditSurvivesPull

------------------------------------------------------------------------------
(* EnginePeers: what the janitor keeps of a torrent's peers.                    *)

\* The shape of the ledgers, which the ages of a tick are written into.
PeersShape ==
    /\ outstanding \in [PeerPieces -> [by : conn \cup {NoPeer}, age : 0 .. PeerAgeCap]]
    /\ heard \in [Peers -> 0 .. PeerAgeCap]
    /\ alone \in [age : 0 .. PeerAgeCap, wait : 0 .. RegroupMax]
    /\ wait \in [piece : PeerPieces \cup {0}, age : 0 .. PeerAgeCap]

\* The inductive invariant of the janitor.
PeersInv == conn \subseteq Peers /\ have \subseteq PeerPieces /\ PeersShape
              /\ known \in [Peers -> 0 .. Never] /\ RememberedBounded

\* Ages saturate.
LEMMA OlderType == \A n \in 0 .. PeerAgeCap : Older(n) \in 0 .. PeerAgeCap
  BY PeersAssumption DEF Older

LEMMA PeersInvInit == PeersInit => PeersInv
<1> SUFFICES ASSUME PeersInit PROVE PeersInv
  OBVIOUS
<1>1. conn \subseteq Peers /\ have \subseteq PeerPieces /\ known \in [Peers -> 0 .. Never]
  BY PeersAssumption DEF PeersInit, Never
<1>2. PeersShape
  BY PeersAssumption DEF PeersInit, PeersShape, NoWait, NotAlone, NoRequest
<1>3. Remembered(known) = {}
  BY DEF PeersInit, Remembered
<1>4. RememberedBounded
  BY <1>3, FS_EmptySet, PeersAssumption DEF RememberedBounded
<1> QED
  BY <1>1, <1>2, <1>4 DEF PeersInv

\* Requests of the connections in ps go back to be given out.
LEMMA FreedType ==
    ASSUME NEW S, NEW o \in [PeerPieces -> [by : S \cup {NoPeer}, age : 0 .. PeerAgeCap]], NEW ps
    PROVE  [i \in PeerPieces |-> IF o[i].by \in ps THEN NoRequest ELSE o[i]]
             \in [PeerPieces -> [by : (S \ ps) \cup {NoPeer}, age : 0 .. PeerAgeCap]]
<1> SUFFICES ASSUME NEW i \in PeerPieces
             PROVE  (IF o[i].by \in ps THEN NoRequest ELSE o[i])
                       \in [by : (S \ ps) \cup {NoPeer}, age : 0 .. PeerAgeCap]
  OBVIOUS
<1>1. o[i] \in [by : S \cup {NoPeer}, age : 0 .. PeerAgeCap]
  OBVIOUS
<1>2. NoRequest \in [by : (S \ ps) \cup {NoPeer}, age : 0 .. PeerAgeCap]
  BY PeersAssumption DEF NoRequest
<1>3. CASE o[i].by \notin ps
  BY <1>1, <1>3
<1> QED
  BY <1>2, <1>3

\* Whatever order the peers come in, the list holds as many as fit.
LEMMA RememberBounds ==
    ASSUME NEW k \in [Peers -> 0 .. Never], NEW c \in SUBSET Peers, NEW k2, Remember(k, c, k2)
    PROVE  k2 \in [Peers -> 0 .. Never] /\ Cardinality(Remembered(k2)) <= RememberedPeers
<1>1. PICK now \in SUBSET c, still \in SUBSET (Remembered(k) \ c) :
        /\ Cardinality(now \cup still) <= RememberedPeers
        /\ k2 = [p \in Peers |-> IF p \in now THEN 0 ELSE IF p \in still THEN k[p] ELSE Never]
  BY DEF Remember
<1>2. Never \in Nat /\ Never # 0
  BY PeersAssumption DEF Never
<1>3. k2 \in [Peers -> 0 .. Never]
  BY <1>1, <1>2
<1>4. Remembered(k2) = now \cup still
  BY <1>1, <1>2 DEF Remembered
<1> QED
  BY <1>1, <1>3, <1>4

\* The wait between two tries doubles up to the longest.
LEMMA TryAgainType ==
    ASSUME NEW a \in [age : 0 .. PeerAgeCap, wait : 0 .. RegroupMax]
    PROVE  TryAgain(a).alone \in [age : 0 .. PeerAgeCap, wait : 0 .. RegroupMax]
<1> DEFINE b == IF a.wait = 0 THEN [age |-> 0, wait |-> RegroupAfter] ELSE [a EXCEPT !.age = Older(@)]
           twice == IF 2 * b.wait > RegroupMax THEN RegroupMax ELSE 2 * b.wait
<1>1. b \in [age : 0 .. PeerAgeCap, wait : 0 .. RegroupMax]
  BY OlderType, PeersAssumption
<1>2. TryAgain(a) = IF b.age < b.wait THEN [due |-> FALSE, alone |-> b]
                    ELSE [due |-> TRUE, alone |-> [age |-> 0, wait |-> twice]]
  BY DEF TryAgain
<1> HIDE DEF b
<1>3. twice \in 0 .. RegroupMax
  BY <1>1, PeersAssumption
<1> HIDE DEF twice
<1>4. [age |-> 0, wait |-> twice] \in [age : 0 .. PeerAgeCap, wait : 0 .. RegroupMax]
  BY <1>3, PeersAssumption
<1> QED
  BY <1>1, <1>2, <1>4

\* A tick of the janitor ages the ledgers, drops peers and notes the others.
LEMMA TickKeeps ==
    ASSUME PeersInv, JanitorTick
    PROVE  PeersInv'
<1> DEFINE aged == [i \in PeerPieces |-> [outstanding[i] EXCEPT !.age = IF outstanding[i].by = NoPeer THEN 0 ELSE Older(@)]]
           h == [p \in Peers |-> Older(heard[p])]
           w == [wait EXCEPT !.age = IF wait = NoWait THEN 0 ELSE Older(@)]
           k == [p \in Peers |-> IF known[p] = Never THEN Never ELSE Older(known[p])]
<1>1. PICK lost : lost = DroppedByTick(aged, h, w)
  OBVIOUS
<1>a. /\ conn' = conn \ lost
      /\ outstanding' = [i \in PeerPieces |-> IF aged[i].by \in lost THEN NoRequest ELSE aged[i]]
      /\ heard' = h /\ wait' = w /\ Remember(k, conn \ lost, known')
      /\ alone' = IF Starved(conn \ lost) THEN TryAgain(alone).alone ELSE NotAlone
      /\ have' = have
  BY <1>1 DEF JanitorTick
<1>2. aged \in [PeerPieces -> [by : conn \cup {NoPeer}, age : 0 .. PeerAgeCap]]
  <2> SUFFICES ASSUME NEW i \in PeerPieces
               PROVE  [outstanding[i] EXCEPT !.age = IF outstanding[i].by = NoPeer THEN 0 ELSE Older(@)]
                        \in [by : conn \cup {NoPeer}, age : 0 .. PeerAgeCap]
    OBVIOUS
  <2>1. outstanding[i] \in [by : conn \cup {NoPeer}, age : 0 .. PeerAgeCap]
    BY DEF PeersInv, PeersShape
  <2>2. Older(outstanding[i].age) \in 0 .. PeerAgeCap /\ 0 \in 0 .. PeerAgeCap
    BY <2>1, OlderType, PeersAssumption
  <2> QED
    BY <2>1, <2>2
<1>3. h \in [Peers -> 0 .. PeerAgeCap]
  BY OlderType DEF PeersInv, PeersShape
<1>4. w \in [piece : PeerPieces \cup {0}, age : 0 .. PeerAgeCap]
  BY OlderType, PeersAssumption DEF PeersInv, PeersShape
<1>5. k \in [Peers -> 0 .. Never]
  BY PeersAssumption DEF PeersInv, Older, Never
<1>6. alone' \in [age : 0 .. PeerAgeCap, wait : 0 .. RegroupMax]
  BY <1>a, TryAgainType, PeersAssumption DEF PeersInv, PeersShape, NotAlone
<1> HIDE DEF aged, h, w, k
<1>7. outstanding' \in [PeerPieces -> [by : conn' \cup {NoPeer}, age : 0 .. PeerAgeCap]]
  BY <1>a, <1>2, FreedType
<1>8. PeersShape'
  BY <1>a, <1>3, <1>4, <1>6, <1>7 DEF PeersShape
<1>9. conn \ lost \in SUBSET Peers
  BY DEF PeersInv
<1>10. known' \in [Peers -> 0 .. Never] /\ RememberedBounded'
  BY <1>5, <1>9, <1>a, RememberBounds DEF RememberedBounded, Remembered
<1> QED
  BY <1>a, <1>8, <1>9, <1>10 DEF PeersInv

LEMMA PeersInvInductive == PeersInv /\ [PeersNext]_peerVars => PeersInv'
<1> SUFFICES ASSUME PeersInv, [PeersNext]_peerVars PROVE PeersInv'
  OBVIOUS
<1>a. conn \subseteq Peers /\ have \subseteq PeerPieces /\ PeersShape
      /\ known \in [Peers -> 0 .. Never] /\ RememberedBounded
  BY DEF PeersInv
<1>b. 0 \in 0 .. PeerAgeCap
  BY PeersAssumption
<1>k. ASSUME known' = known PROVE known' \in [Peers -> 0 .. Never] /\ RememberedBounded'
  BY <1>a, <1>k DEF RememberedBounded, Remembered
<1>1. CASE JanitorTick
  BY <1>1, TickKeeps
<1>2. CASE ReadDone
  BY <1>2, <1>a, <1>b, <1>k DEF ReadDone, PeersInv, PeersShape, NoWait
<1>3. ASSUME NEW p \in Peers, Connected(p) PROVE PeersInv'
  BY <1>3, <1>a, <1>b, <1>k DEF Connected, PeersInv, PeersShape
<1>4. ASSUME NEW p \in Peers, Disconnected(p) PROVE PeersInv'
  <2>1. Freed({p}) \in [PeerPieces -> [by : (conn \ {p}) \cup {NoPeer}, age : 0 .. PeerAgeCap]]
    BY <1>a, FreedType DEF Freed, PeersShape
  <2> QED
    BY <1>4, <1>a, <1>k, <2>1 DEF Disconnected, PeersInv, PeersShape
<1>5. ASSUME NEW p \in Peers, NEW i \in PeerPieces, SentRequest(p, i) PROVE PeersInv'
  <2>1. [by |-> p, age |-> 0] \in [by : conn \cup {NoPeer}, age : 0 .. PeerAgeCap]
    BY <1>5, <1>b DEF SentRequest
  <2> QED
    BY <1>5, <1>a, <1>k, <2>1 DEF SentRequest, PeersInv, PeersShape
<1>6. ASSUME NEW p \in Peers, NEW i \in PeerPieces, PieceReceived(p, i) PROVE PeersInv'
  <2>1. NoRequest \in [by : conn \cup {NoPeer}, age : 0 .. PeerAgeCap]
    BY <1>b DEF NoRequest
  <2> QED
    BY <1>6, <1>a, <1>b, <1>k, <2>1 DEF PieceReceived, PeersInv, PeersShape
<1>7. ASSUME NEW i \in PeerPieces, ReadStart(i) PROVE PeersInv'
  BY <1>7, <1>a, <1>b, <1>k DEF ReadStart, PeersInv, PeersShape
<1>8. ASSUME NEW b \in BOOLEAN, SetPeersPaused(b) PROVE PeersInv'
  <2>1. NoRequest \in [by : conn \cup {NoPeer}, age : 0 .. PeerAgeCap]
    BY <1>b DEF NoRequest
  <2>2. outstanding' \in [PeerPieces -> [by : conn \cup {NoPeer}, age : 0 .. PeerAgeCap]]
    BY <1>8, <1>a, <2>1 DEF SetPeersPaused, PeersShape
  <2> QED
    BY <1>8, <1>a, <1>k, <2>2 DEF SetPeersPaused, PeersInv, PeersShape
<1>9. CASE UNCHANGED peerVars
  BY <1>9, <1>a, <1>k DEF peerVars, PeersInv, PeersShape
<1> QED
  BY <1>1, <1>2, <1>3, <1>4, <1>5, <1>6, <1>7, <1>8, <1>9 DEF PeersNext

LEMMA PeersInvImplies == PeersInv => PeersSafe
  BY DEF PeersInv, PeersShape, PeersSafe, PeersTypeOK

\* A tick drops neither a lone connection nor one that delivered since the last.
LEMMA TickSpares ==
    ASSUME PeersInv, JanitorTick, NEW p \in conn, conn = {p} \/ heard[p] = 0
    PROVE  p \in conn'
<1> DEFINE aged == [i \in PeerPieces |-> [outstanding[i] EXCEPT !.age = IF outstanding[i].by = NoPeer THEN 0 ELSE Older(@)]]
           h == [q \in Peers |-> Older(heard[q])]
           w == [wait EXCEPT !.age = IF wait = NoWait THEN 0 ELSE Older(@)]
           shed == Shed(conn, aged, h)
           freed == [i \in PeerPieces |-> IF aged[i].by \in shed THEN NoRequest ELSE aged[i]]
           rescued == Rescue(conn \ shed, freed, h, w)
<1>1. conn' = conn \ (shed \cup rescued)
  BY DEF JanitorTick, DroppedByTick
<1>2. shed \subseteq Silent(conn, aged, h)
  BY DEF Shed
<1>3. rescued \subseteq Stale(conn \ shed, freed, h, w.piece)
  BY DEF Rescue
<1>4. CASE heard[p] = 0
  <2>1. h[p] \in {0, 1}
    BY <1>4, PeersAssumption DEF PeersInv, Older
  <2> HIDE DEF h, aged, w, shed, freed, rescued
  <2>2. p \notin Silent(conn, aged, h) /\ p \notin Stale(conn \ shed, freed, h, w.piece)
    BY <2>1, PeersAssumption DEF Silent, Stale
  <2> QED
    BY <1>1, <1>2, <1>3, <2>2
<1>5. CASE conn = {p}
  <2>1. Cardinality(conn) = 1
    BY <1>5, FS_Singleton
  <2>2. shed = {}
    BY <2>1 DEF Shed
  <2>3. (conn \ shed) \cap Seeders = {} \/ (conn \ shed) \cap Seeders = {p}
    BY <1>5, <2>2
  <2>4. Cardinality((conn \ shed) \cap Seeders) < 2
    <3>1. \A S : S = {} \/ S = {p} => Cardinality(S) < 2
      BY FS_Singleton, FS_EmptySet
    <3> QED
      BY <2>3, <3>1, Zenon
  <2> HIDE DEF h, aged, w, shed, freed
  <2>5. rescued = {}
    BY <2>4 DEF Rescue
  <2> QED
    BY <1>1, <2>2, <2>5
<1> QED
  BY <1>4, <1>5

\* remember, added, closed, shed, rescue and regroup: a request belongs to a connection that
\* lives, and the list of remembered peers stays within its bound.
THEOREM PeersStaySafe == PeersSpec => []PeersSafe
  BY PeersInvInit, PeersInvInductive, PeersInvImplies, PTL DEF PeersSpec

\* shed and rescue: a tick ends no torrent's only connection and none that delivered since the
\* last tick, for any peers and pieces.
THEOREM LonePeerStays == PeersSpec => LonePeerSurvives
<1>1. PeersInv /\ [PeersNext]_peerVars
        => [JanitorTick => \A p \in conn : conn = {p} \/ heard[p] = 0 => p \in conn']_peerVars
  BY TickSpares
<1> QED
  BY <1>1, PeersInvInit, PeersInvInductive, PTL DEF PeersSpec, LonePeerSurvives

------------------------------------------------------------------------------
(* Playback, the race of the candidates.                                      *)

\* What each variable may hold.
RaceShape ==
    /\ starter \in [next : Nat \ {0}, st : {"slot", "pause", "done"}]
    /\ cand \in [Cands -> {"idle", "inspect", "add", "warm", "ok", "err", "gone"}]
    /\ outcome \in [Cands -> {"none", "ok", "err"}]
    /\ failed \in Nat /\ slots \subseteq Cands /\ engine \subseteq Cands
    /\ collector \in {"race", "commit", "failed", "cancelled"} /\ winner \in 0 .. RaceN
    /\ patience \in {"off", "running", "over"} /\ cancelled \in BOOLEAN

\* The starter takes the candidates in order, each once.
RaceTurn ==
    /\ starter.st = "slot" => \A i \in Cands : i >= starter.next => cand[i] = "idle"
    /\ starter.st = "pause" => /\ starter.next \in Cands
                               /\ \A i \in Cands : i > starter.next => cand[i] = "idle"

\* A goroutine holds its slot from its start to its last select.
RaceSlots == slots = Running /\ Cardinality(slots) <= RaceWidth

\* One token at most for each candidate that failed.
Over == {i \in Cands : cand[i] \in {"err", "gone"}}
RaceTokens == failed <= Cardinality(Over)

\* The race is cancelled once it is decided; only then is there a winner, one that delivered.
RaceDecision ==
    /\ cancelled = (collector # "race")
    /\ collector = "race" => winner = 0
    /\ winner # 0 => outcome[winner] = "ok"
    /\ collector = "race" /\ patience = "running" => \E i \in Cands : outcome[i] = "ok"

\* What the collector received came from a goroutine that ended.
RaceReceived == \A i \in Cands : outcome[i] # "none" => cand[i] = "gone"

\* Beyond what it held before, the engine holds what warms, what was received while the
\* race was open, and the winner.
RaceHeld ==
    /\ HeldBefore \subseteq engine
    /\ \A i \in Cands \ HeldBefore :
         i \in engine <=> \/ cand[i] \in {"warm", "ok"}
                          \/ outcome[i] = "ok" /\ (collector = "race" \/ winner = i)

\* The inductive invariant of the race.
RaceInv == /\ RaceShape /\ RaceTurn /\ RaceSlots /\ RaceTokens
           /\ RaceDecision /\ RaceReceived /\ RaceHeld /\ BestWins

\* Every set of numbers has a least one.
LEMMA LeastOf ==
    ASSUME NEW S \in SUBSET Nat, S # {}
    PROVE  \E m \in S : \A x \in S : m <= x
<1>1. PICK m \in S : \A y \in S : ~(<<y, m>> \in OpToRel(<, Nat))
  BY NatLessThanWellFounded, WFMin
<1>2. \A y \in S : ~(y < m)
  BY <1>1 DEF OpToRel
<1> QED
  BY <1>2

\* The release decided on delivered, and every better one failed.
LEMMA DecidedIs ==
    ASSUME NEW out \in [Cands -> {"none", "ok", "err"}], Decided(out) # 0
    PROVE  /\ Decided(out) \in Cands /\ out[Decided(out)] = "ok"
           /\ \A j \in 1 .. (Decided(out) - 1) : out[j] = "err"
<1> DEFINE ready == {i \in Cands : out[i] = "ok" /\ \A j \in 1 .. (i - 1) : out[j] = "err"}
<1>1. ready # {} /\ Decided(out) = CHOOSE i \in ready : TRUE
  BY DEF Decided
<1>2. Decided(out) \in ready
  BY <1>1
<1> QED
  BY <1>2

\* With every outcome in and none decided on, all of them failed.
LEMMA AllFailed ==
    ASSUME NEW out \in [Cands -> {"none", "ok", "err"}], Decided(out) = 0,
           \A j \in Cands : out[j] # "none"
    PROVE  \A j \in Cands : out[j] # "ok"
<1> DEFINE good == {i \in Cands : out[i] = "ok"}
           ready == {i \in Cands : out[i] = "ok" /\ \A j \in 1 .. (i - 1) : out[j] = "err"}
<1> SUFFICES ASSUME good # {} PROVE FALSE
  OBVIOUS
<1>1. good \in SUBSET Nat
  BY DEF Cands
<1>2. PICK m \in good : \A x \in good : m <= x
  BY <1>1, LeastOf
<1>3. ASSUME NEW j \in 1 .. (m - 1) PROVE out[j] = "err"
  <2>1. j \in Cands /\ j \in Nat /\ m \in Nat /\ j < m
    BY <1>1, RaceAssumption DEF Cands
  <2>2. j \notin good
    BY <1>2, <2>1
  <2> QED
    BY <2>1, <2>2
<1>4. m \in ready
  BY <1>3
<1>5. (CHOOSE i \in ready : TRUE) \in ready
  BY <1>4
<1>6. 0 \in ready
  BY <1>4, <1>5 DEF Decided
<1> QED
  BY <1>6, RaceAssumption DEF Cands

LEMMA RaceInvInit == RaceInit => RaceInv
<1> SUFFICES ASSUME RaceInit PROVE RaceInv
  OBVIOUS
<1>1. RaceShape
  <2>1. starter \in [next : Nat \ {0}, st : {"slot", "pause", "done"}]
    BY DEF RaceInit
  <2>2. engine \subseteq Cands /\ slots \subseteq Cands /\ winner \in 0 .. RaceN /\ failed \in Nat
    BY RaceAssumption DEF RaceInit
  <2> QED
    BY <2>1, <2>2 DEF RaceInit, RaceShape
<1>2. RaceTurn /\ RaceDecision /\ RaceReceived
  BY DEF RaceInit, RaceTurn, RaceDecision, RaceReceived
<1>3. RaceHeld /\ BestWins
  BY RaceAssumption DEF RaceInit, RaceHeld, BestWins
<1>4. Running = {} /\ Over = {}
  BY DEF RaceInit, Running, Over
<1>5. RaceSlots /\ RaceTokens
  BY <1>4, FS_EmptySet, RaceAssumption DEF RaceInit, RaceSlots, RaceTokens
<1> QED
  BY <1>1, <1>2, <1>3, <1>5 DEF RaceInv

\* Candidates can be counted.
LEMMA CandsFinite ==
    ASSUME NEW S \in SUBSET Cands
    PROVE  IsFiniteSet(S) /\ Cardinality(S) \in Nat /\ Cardinality(S) <= RaceN
<1>1. IsFiniteSet(Cands) /\ Cardinality(Cands) = RaceN
  BY FS_Interval, RaceAssumption DEF Cands
<1> QED
  BY <1>1, FS_Subset, FS_CardinalityType

\* A goroutine moves from one step to another: what holds of the slots and the tokens when
\* it fails or goes on, and when it ends.
LEMMA CandMoves ==
    ASSUME RaceInv, NEW i \in Cands, cand[i] \in {"inspect", "add", "warm"},
           slots' = slots, failed' \in Nat,
           \/ \E s \in {"add", "warm", "ok"} : cand' = [cand EXCEPT ![i] = s] /\ failed' = failed
           \/ cand' = [cand EXCEPT ![i] = "err"] /\ failed' = failed + 1
    PROVE  RaceSlots' /\ RaceTokens'
<1>a. cand \in [Cands -> {"idle", "inspect", "add", "warm", "ok", "err", "gone"}] /\ failed \in Nat
      /\ slots \subseteq Cands /\ RaceSlots /\ failed <= Cardinality(Over)
  BY DEF RaceInv, RaceShape, RaceTokens
<1>1. Running' = Running
  BY <1>a DEF Running
<1>2. RaceSlots'
  BY <1>a, <1>1 DEF RaceSlots
<1>o. IsFiniteSet(Over) /\ Cardinality(Over) \in Nat
  BY CandsFinite DEF Over
<1>3. CASE cand' = [cand EXCEPT ![i] = "err"] /\ failed' = failed + 1
  <2>1. Over' = Over \cup {i} /\ i \notin Over
    BY <1>3, <1>a DEF Over
  <2>2. Cardinality(Over \cup {i}) = Cardinality(Over) + 1
    BY <2>1, <1>o, FS_AddElement
  <2>3. Cardinality(Over') = Cardinality(Over) + 1
    BY <2>1, <2>2
  <2> QED
    BY <2>3, <1>2, <1>3, <1>o, <1>a DEF RaceTokens
<1>4. CASE \E s \in {"add", "warm", "ok"} : cand' = [cand EXCEPT ![i] = s] /\ failed' = failed
  <2>1. Over' = Over
    BY <1>4, <1>a DEF Over
  <2> QED
    BY <2>1, <1>2, <1>4, <1>a DEF RaceTokens
<1> QED
  BY <1>3, <1>4

LEMMA CandEnds ==
    ASSUME RaceInv, NEW i \in Cands, cand[i] \in {"ok", "err"},
           slots' = slots \ {i}, failed' = failed, cand' = [cand EXCEPT ![i] = "gone"]
    PROVE  RaceSlots' /\ RaceTokens' /\ slots' \subseteq Cands
<1>a. cand \in [Cands -> {"idle", "inspect", "add", "warm", "ok", "err", "gone"}] /\ failed \in Nat
      /\ slots \subseteq Cands /\ slots = Running /\ Cardinality(slots) <= RaceWidth
      /\ failed <= Cardinality(Over)
  BY DEF RaceInv, RaceShape, RaceTokens, RaceSlots
<1>1. Running' = Running \ {i} /\ i \in Running
  BY <1>a DEF Running
<1>2. IsFiniteSet(slots) /\ Cardinality(slots) \in Nat /\ IsFiniteSet(Over) /\ Cardinality(Over) \in Nat
  BY <1>a, CandsFinite DEF Over
<1>3. Cardinality(slots \ {i}) <= Cardinality(slots) /\ Cardinality(slots \ {i}) \in Nat
  BY <1>2, FS_RemoveElement, FS_CardinalityType, FS_Subset
<1>4. RaceSlots'
  BY <1>a, <1>1, <1>2, <1>3, RaceAssumption DEF RaceSlots
<1>5. Over' = Over \cup {i}
  BY <1>a DEF Over
<1>6. Over' \in SUBSET Cands /\ Over \in SUBSET Over'
  BY <1>5, <1>a DEF Over
<1>7. Cardinality(Over') >= Cardinality(Over) /\ Cardinality(Over') \in Nat
  <2>1. IsFiniteSet(Over') /\ Cardinality(Over') \in Nat
    BY <1>6, CandsFinite
  <2> QED
    BY <2>1, <1>2, <1>6, FS_Subset
<1> QED
  BY <1>4, <1>7, <1>2, <1>a DEF RaceTokens

\* One step of the starter or of a candidate's goroutine, up to its last select.
LEMMA RaceWorkKeeps ==
    ASSUME RaceInv,
           \/ StartNext \/ StarterStops \/ (\E b \in BOOLEAN : Stagger(b))
           \/ \E i \in Cands, ok \in BOOLEAN : Inspect(i, ok) \/ Add(i, ok) \/ Warmed(i, ok)
    PROVE  RaceInv'
<1>a. RaceShape /\ RaceTurn /\ RaceSlots /\ RaceTokens /\ RaceDecision /\ RaceReceived /\ RaceHeld /\ BestWins
  BY DEF RaceInv
<1>b. /\ starter \in [next : Nat \ {0}, st : {"slot", "pause", "done"}]
      /\ cand \in [Cands -> {"idle", "inspect", "add", "warm", "ok", "err", "gone"}]
      /\ outcome \in [Cands -> {"none", "ok", "err"}]
      /\ failed \in Nat /\ slots \subseteq Cands /\ engine \subseteq Cands
  BY <1>a DEF RaceShape
<1>c. UNCHANGED <<outcome, collector, winner, patience, cancelled>>
  BY DEF StartNext, StarterStops, Stagger, Inspect, Add, Warmed
<1>d. RaceDecision' /\ BestWins'
  BY <1>a, <1>c DEF RaceDecision, BestWins
<1>1. CASE StartNext
  <2>1. PICK n \in Cands : n = starter.next
    BY <1>1 DEF StartNext
  <2>2. n \in Nat \ {0} /\ cand[n] = "idle" /\ cand' = [cand EXCEPT ![n] = "inspect"]
        /\ slots' = slots \cup {n} /\ starter' = [starter EXCEPT !.st = "pause"]
        /\ failed' = failed /\ engine' = engine /\ Cardinality(slots) < RaceWidth
    BY <1>1, <1>a, <1>b, <2>1, RaceAssumption DEF StartNext, RaceTurn, Cands
  <2>3. RaceShape'
    BY <2>2, <1>a, <1>c DEF RaceShape
  <2>4. RaceTurn'
    <3>1. starter'.st = "pause" /\ starter'.next = n
      BY <2>1, <2>2, <1>b
    <3>2. \A i \in Cands : i > n => cand'[i] = "idle"
      BY <2>1, <2>2, <1>a, <1>b, <1>1 DEF RaceTurn, StartNext, Cands
    <3> QED
      BY <3>1, <3>2 DEF RaceTurn
  <2>5. Running' = Running \cup {n} /\ n \notin Running /\ Over' = Over
    BY <2>2, <1>b DEF Running, Over
  <2>6. RaceSlots'
    <3>1. slots = Running /\ IsFiniteSet(slots) /\ Cardinality(slots) \in Nat
      BY <1>a, <1>b, CandsFinite DEF RaceSlots
    <3>2. Cardinality(slots \cup {n}) = Cardinality(slots) + 1
      BY <3>1, <2>5, FS_AddElement
    <3>3. Cardinality(slots') <= RaceWidth
      BY <3>1, <3>2, <2>2, RaceAssumption
    <3> QED
      BY <3>1, <3>3, <2>2, <2>5 DEF RaceSlots
  <2>7. RaceTokens'
    BY <2>2, <2>5, <1>a DEF RaceTokens
  <2>8. RaceReceived' /\ RaceHeld'
    BY <2>2, <1>a, <1>b, <1>c DEF RaceReceived, RaceHeld
  <2> QED
    BY <1>d, <2>3, <2>4, <2>6, <2>7, <2>8 DEF RaceInv
<1>2. CASE StarterStops \/ \E b \in BOOLEAN : Stagger(b)
  <2>1. cand' = cand /\ slots' = slots /\ engine' = engine
    BY <1>2 DEF StarterStops, Stagger
  <2>2. failed' \in Nat /\ failed' <= failed
    BY <1>2, <1>b DEF StarterStops, Stagger
  <2>3. Running' = Running /\ Over' = Over /\ Cardinality(Over) \in Nat
    BY <2>1, CandsFinite DEF Running, Over
  <2>4. RaceSlots' /\ RaceTokens'
    BY <1>a, <1>b, <2>1, <2>2, <2>3 DEF RaceSlots, RaceTokens
  <2>5. RaceReceived' /\ RaceHeld'
    BY <1>a, <1>c, <2>1 DEF RaceReceived, RaceHeld
  <2>6. starter' \in [next : Nat \ {0}, st : {"slot", "pause", "done"}] /\ RaceTurn'
    <3>1. CASE StarterStops
      BY <3>1, <1>b DEF StarterStops, RaceTurn
    <3>2. ASSUME NEW b \in BOOLEAN, Stagger(b)
          PROVE  starter' \in [next : Nat \ {0}, st : {"slot", "pause", "done"}] /\ RaceTurn'
      <4>1. starter' = [next |-> starter.next + 1, st |-> IF starter.next = RaceN THEN "done" ELSE "slot"]
            /\ starter.st = "pause"
        BY <3>2 DEF Stagger
      <4>2. \A i \in Cands : i > starter.next => cand[i] = "idle"
        BY <4>1, <1>a DEF RaceTurn
      <4>3. \A i \in Cands : i >= starter.next + 1 => cand[i] = "idle"
        BY <4>2, <1>b DEF Cands
      <4>4. starter' \in [next : Nat \ {0}, st : {"slot", "pause", "done"}]
        BY <4>1, <1>b
      <4> QED
        BY <4>1, <4>3, <4>4, <2>1 DEF RaceTurn
    <3> QED
      BY <1>2, <3>1, <3>2
  <2>7. RaceShape'
    BY <1>a, <1>c, <2>1, <2>2, <2>6 DEF RaceShape
  <2> QED
    BY <1>d, <2>4, <2>5, <2>6, <2>7 DEF RaceInv
<1>3. ASSUME NEW i \in Cands, NEW ok \in BOOLEAN, Inspect(i, ok) \/ Add(i, ok) \/ Warmed(i, ok)
      PROVE  RaceInv'
  <2>1. cand[i] \in {"inspect", "add", "warm"} /\ slots' = slots /\ starter' = starter
    BY <1>3 DEF Inspect, Add, Warmed
  <2>2. \/ \E s \in {"add", "warm", "ok"} : cand' = [cand EXCEPT ![i] = s] /\ failed' = failed
        \/ cand' = [cand EXCEPT ![i] = "err"] /\ failed' = failed + 1
    BY <1>3 DEF Inspect, Add, Warmed, Fail
  <2>3. failed' \in Nat
    BY <2>2, <1>b
  <2>4. RaceSlots' /\ RaceTokens'
    BY <2>1, <2>2, <2>3, CandMoves
  <2>5. cand' \in [Cands -> {"idle", "inspect", "add", "warm", "ok", "err", "gone"}]
        /\ \A j \in Cands : cand[j] = "idle" \/ cand[j] = "gone" => cand'[j] = cand[j]
    BY <2>1, <2>2, <1>b
  <2>6. RaceTurn' /\ RaceReceived'
    BY <2>1, <2>5, <1>a, <1>c DEF RaceTurn, RaceReceived
  <2>7. outcome[i] = "none"
    BY <2>1, <1>a, <1>b DEF RaceReceived
  <2>8. engine' \subseteq Cands /\ RaceHeld'
    <3>1. CASE Inspect(i, ok)
      BY <3>1, <2>7, <1>a, <1>b, <1>c DEF Inspect, Fail, RaceHeld
    <3>2. CASE Add(i, ok)
      BY <3>2, <2>7, <1>a, <1>b, <1>c DEF Add, Fail, RaceHeld
    <3>3. CASE Warmed(i, ok)
      BY <3>3, <2>7, <1>a, <1>b, <1>c DEF Warmed, Fail, RaceHeld
    <3> QED
      BY <1>3, <3>1, <3>2, <3>3
  <2>9. RaceShape'
    BY <1>a, <1>c, <2>1, <2>3, <2>5, <2>8 DEF RaceShape
  <2> QED
    BY <1>d, <2>4, <2>6, <2>8, <2>9 DEF RaceInv
<1> QED
  BY <1>1, <1>2, <1>3

\* What is discarded when the race is over: what was received and is not the winner.
LEMMA DiscardKeeps ==
    ASSUME RaceHeld, RaceShape, NEW out \in [Cands -> {"none", "ok", "err"}], NEW w \in 0 .. RaceN,
           engine' = DiscardLosers(out, w), outcome' = out, winner' = w, collector' # "race",
           cand' \in [Cands -> {"idle", "inspect", "add", "warm", "ok", "err", "gone"}],
           \A i \in Cands : out[i] # "none" => cand'[i] = "gone",
           \A i \in Cands \ HeldBefore :
             i \in engine <=> cand'[i] \in {"warm", "ok"} \/ out[i] = "ok"
    PROVE  engine' \subseteq Cands /\ RaceHeld'
<1>1. engine' \subseteq Cands /\ HeldBefore \subseteq engine'
  BY DEF RaceHeld, RaceShape, DiscardLosers
<1>2. ASSUME NEW i \in Cands \ HeldBefore
      PROVE  i \in engine' <=> cand'[i] \in {"warm", "ok"} \/ (out[i] = "ok" /\ w = i)
  <2>1. i \in engine' <=> i \in engine /\ ~(i # w /\ out[i] = "ok")
    BY DEF DiscardLosers
  <2> QED
    BY <2>1
<1> QED
  BY <1>1, <1>2 DEF RaceHeld

\* The collector and the goroutines' last selects.
LEMMA RaceEndKeeps ==
    ASSUME RaceInv, PatienceEnds \/ Leave \/ \E i \in Cands : Stray(i) \/ Receive(i)
    PROVE  RaceInv'
<1>a. RaceShape /\ RaceTurn /\ RaceSlots /\ RaceTokens /\ RaceDecision /\ RaceReceived /\ RaceHeld /\ BestWins
  BY DEF RaceInv
<1>b. /\ starter \in [next : Nat \ {0}, st : {"slot", "pause", "done"}]
      /\ cand \in [Cands -> {"idle", "inspect", "add", "warm", "ok", "err", "gone"}]
      /\ outcome \in [Cands -> {"none", "ok", "err"}]
      /\ failed \in Nat /\ slots \subseteq Cands /\ engine \subseteq Cands
      /\ collector \in {"race", "commit", "failed", "cancelled"} /\ winner \in 0 .. RaceN
      /\ patience \in {"off", "running", "over"} /\ cancelled \in BOOLEAN
  BY <1>a DEF RaceShape
<1>c. starter' = starter /\ failed' = failed
  BY DEF PatienceEnds, Leave, Stray, Receive
<1>1. ASSUME NEW i \in Cands, Stray(i) PROVE RaceInv'
  <2>1. /\ cand[i] \in {"ok", "err"} /\ cand' = [cand EXCEPT ![i] = "gone"] /\ slots' = slots \ {i}
        /\ UNCHANGED <<outcome, collector, winner, patience, cancelled>> /\ cancelled
    BY <1>1 DEF Stray
  <2>2. RaceSlots' /\ RaceTokens' /\ slots' \subseteq Cands
    BY <2>1, <1>c, CandEnds
  <2>3. outcome[i] = "none"
    BY <2>1, <1>a, <1>b DEF RaceReceived
  <2>4. engine' \subseteq Cands /\ RaceHeld'
    BY <1>1, <2>1, <2>3, <1>a, <1>b DEF Stray, RaceHeld
  <2>5. RaceTurn' /\ RaceReceived'
    BY <2>1, <1>a, <1>b, <1>c DEF RaceTurn, RaceReceived
  <2>6. RaceDecision' /\ BestWins'
    BY <2>1, <1>a DEF RaceDecision, BestWins
  <2>7. RaceShape'
    BY <2>1, <2>2, <2>4, <1>b, <1>c DEF RaceShape
  <2> QED
    BY <2>2, <2>4, <2>5, <2>6, <2>7 DEF RaceInv
<1>2. ASSUME NEW i \in Cands, Receive(i) PROVE RaceInv'
  <2> DEFINE out == [outcome EXCEPT ![i] = cand[i]]
  <2>d. PICK w : w = Decided(out)
    OBVIOUS
  <2>e. PICK all \in BOOLEAN : all = \A j \in Cands : out[j] # "none"
    OBVIOUS
  <2>1. /\ collector = "race" /\ cand[i] \in {"ok", "err"} /\ cand' = [cand EXCEPT ![i] = "gone"]
        /\ slots' = slots \ {i} /\ outcome' = out /\ winner' = w
        /\ collector' = (IF w # 0 THEN "commit" ELSE IF all THEN "failed" ELSE "race")
        /\ cancelled' = (cancelled \/ w # 0 \/ all)
        /\ engine' = (IF w # 0 THEN DiscardLosers(out, w) ELSE engine)
        /\ patience' = (IF cand[i] = "ok" /\ patience = "off" THEN "running" ELSE patience)
    BY <1>2, <2>d, <2>e DEF Receive
  <2>2. RaceSlots' /\ RaceTokens' /\ slots' \subseteq Cands
    BY <2>1, <1>c, CandEnds
  <2>3. out \in [Cands -> {"none", "ok", "err"}]
        /\ cand' \in [Cands -> {"idle", "inspect", "add", "warm", "ok", "err", "gone"}]
    BY <2>1, <1>b
  <2>4. RaceTurn' /\ RaceReceived'
    BY <2>1, <1>a, <1>b, <1>c DEF RaceTurn, RaceReceived
  <2>5. /\ ~cancelled /\ winner = 0 /\ w \in 0 .. RaceN
        /\ w # 0 => out[w] = "ok" /\ \A j \in 1 .. (w - 1) : out[j] = "err"
    <3>1. ~cancelled /\ winner = 0
      BY <1>a, <2>1 DEF RaceDecision
    <3>2. ASSUME w # 0 PROVE w \in Cands /\ out[w] = "ok" /\ \A j \in 1 .. (w - 1) : out[j] = "err"
      <4> HIDE DEF out
      <4> QED
        BY <2>3, <2>d, <3>2, DecidedIs
    <3>3. w \in 0 .. RaceN
      BY <3>2, RaceAssumption DEF Cands
    <3> QED
      BY <3>1, <3>2, <3>3
  <2>6. RaceDecision'
    <3>1. cancelled' = (collector' # "race") /\ (collector' = "race" => winner' = 0)
      BY <2>1, <2>5
    <3>2. winner' # 0 => outcome'[winner'] = "ok"
      BY <2>1, <2>5
    <3>3. ASSUME patience' = "running" PROVE \E j \in Cands : out[j] = "ok"
      <4>1. CASE cand[i] = "ok"
        BY <4>1, <1>b
      <4>2. CASE cand[i] = "err"
        <5>1. PICK j \in Cands : outcome[j] = "ok"
          BY <4>2, <2>1, <3>3, <1>a DEF RaceDecision
        <5>2. j # i
          BY <5>1, <1>a, <2>1 DEF RaceReceived
        <5> QED
          BY <5>1, <5>2, <1>b
      <4> QED
        BY <2>1, <4>1, <4>2
    <3> QED
      BY <3>1, <3>2, <3>3, <2>1 DEF RaceDecision
  <2>7. BestWins'
    BY <2>1, <2>5 DEF BestWins
  <2>8. ASSUME NEW j \in Cands \ HeldBefore
        PROVE  j \in engine <=> cand'[j] \in {"warm", "ok"} \/ out[j] = "ok"
    <3>1. j \in engine <=> cand[j] \in {"warm", "ok"} \/ outcome[j] = "ok"
      BY <1>a, <2>1 DEF RaceHeld
    <3>2. CASE j = i
      <4>1. outcome[i] = "none"
        BY <2>1, <1>a, <1>b DEF RaceReceived
      <4> QED
        BY <3>1, <3>2, <4>1, <2>1, <1>b
    <3>3. CASE j # i
      BY <3>1, <3>3, <2>1, <1>b
    <3> QED
      BY <3>2, <3>3
  <2>9. engine' \subseteq Cands /\ RaceHeld'
    <3>1. CASE w # 0
      <4>1. \A j \in Cands : out[j] # "none" => cand'[j] = "gone"
        BY <2>1, <1>a, <1>b DEF RaceReceived
      <4>2. engine' = DiscardLosers(out, w) /\ outcome' = out /\ winner' = w /\ collector' # "race"
        BY <2>1, <3>1
      <4> HIDE DEF out
      <4> QED
        BY <1>a, <2>3, <2>5, <2>8, <4>1, <4>2, DiscardKeeps
    <3>2. CASE w = 0 /\ ~all
      BY <3>2, <2>1, <2>8, <1>a, <1>b DEF RaceHeld
    <3>3. CASE w = 0 /\ all
      <4>1. \A j \in Cands : out[j] # "ok"
        BY <3>3, <2>3, <2>d, <2>e, AllFailed
      <4>2. engine' = engine /\ outcome' = out
        BY <3>3, <2>1
      <4> HIDE DEF out
      <4> QED
        BY <4>1, <4>2, <2>8, <1>a, <1>b DEF RaceHeld
    <3> QED
      BY <3>1, <3>2, <3>3
  <2>10. RaceShape'
    <3>1. /\ collector' \in {"race", "commit", "failed", "cancelled"}
          /\ patience' \in {"off", "running", "over"} /\ cancelled' \in BOOLEAN
      BY <2>1, <1>b
    <3> QED
      BY <3>1, <2>1, <2>2, <2>3, <2>5, <2>9, <1>b, <1>c DEF RaceShape
  <2> QED
    BY <2>2, <2>4, <2>6, <2>7, <2>9, <2>10 DEF RaceInv
<1>3. CASE PatienceEnds
  <2> DEFINE ready == {i \in Cands : outcome[i] = "ok"}
  <2>1. PICK w : w = CHOOSE i \in ready : \A j \in ready : i <= j
    OBVIOUS
  <2>2. /\ collector = "race" /\ patience = "running" /\ winner' = w /\ engine' = DiscardLosers(outcome, w)
        /\ patience' = "over" /\ collector' = "commit" /\ cancelled' = TRUE
        /\ UNCHANGED <<slots, cand, outcome>>
    BY <1>3, <2>1 DEF PatienceEnds
  <2>3. ready # {} /\ ready \in SUBSET Nat
    BY <2>2, <1>a DEF RaceDecision, Cands
  <2>4. w \in ready /\ \A j \in ready : w <= j
    <3>1. \E m \in ready : \A x \in ready : m <= x
      BY <2>3, LeastOf
    <3> HIDE DEF ready
    <3> QED
      BY <2>1, <3>1
  <2>5. w \in Cands /\ outcome[w] = "ok" /\ w \in 0 .. RaceN /\ w # 0
    BY <2>4, RaceAssumption DEF Cands
  <2>6. ASSUME NEW j \in 1 .. (w - 1) PROVE outcome[j] # "ok"
    <3>1. j \in Cands /\ j < w /\ j \in Nat
      BY <2>5, RaceAssumption DEF Cands
    <3> QED
      BY <2>4, <2>5, <3>1 DEF Cands
  <2>7. BestWins' /\ RaceDecision'
    BY <2>2, <2>5, <2>6 DEF BestWins, RaceDecision
  <2>8. engine' \subseteq Cands /\ RaceHeld'
    <3>1. \A j \in Cands \ HeldBefore : j \in engine <=> cand[j] \in {"warm", "ok"} \/ outcome[j] = "ok"
      BY <2>2, <1>a DEF RaceHeld
    <3>2. \A j \in Cands : outcome[j] # "none" => cand[j] = "gone"
      BY <1>a DEF RaceReceived
    <3>3. cand' = cand /\ outcome' = outcome /\ collector' # "race" /\ winner' = w
          /\ engine' = DiscardLosers(outcome, w)
      BY <2>2
    <3> QED
      BY <1>a, <1>b, <2>5, <3>1, <3>2, <3>3, DiscardKeeps
  <2>9. RaceTurn' /\ RaceReceived' /\ Running' = Running /\ Over' = Over
    BY <2>2, <1>a, <1>c DEF RaceTurn, RaceReceived, Running, Over
  <2>10. RaceSlots' /\ RaceTokens'
    BY <2>2, <2>9, <1>a, <1>c DEF RaceSlots, RaceTokens
  <2>11. RaceShape'
    BY <2>2, <2>5, <2>8, <1>b, <1>c DEF RaceShape
  <2> QED
    BY <2>7, <2>8, <2>9, <2>10, <2>11 DEF RaceInv
<1>4. CASE Leave
  <2>1. /\ collector = "race" /\ collector' = "cancelled" /\ cancelled' = TRUE /\ winner = 0
        /\ engine' = DiscardLosers(outcome, 0) /\ UNCHANGED <<slots, cand, outcome, winner, patience>>
    BY <1>4, <1>a DEF Leave, RaceDecision
  <2>2. engine' \subseteq Cands /\ RaceHeld'
    <3>1. \A j \in Cands \ HeldBefore : j \in engine <=> cand[j] \in {"warm", "ok"} \/ outcome[j] = "ok"
      BY <2>1, <1>a DEF RaceHeld
    <3>2. \A j \in Cands : outcome[j] # "none" => cand[j] = "gone"
      BY <1>a DEF RaceReceived
    <3>3. cand' = cand /\ outcome' = outcome /\ collector' # "race" /\ winner' = 0 /\ 0 \in 0 .. RaceN
          /\ engine' = DiscardLosers(outcome, 0)
      BY <2>1, <1>b
    <3> QED
      BY <1>a, <1>b, <3>1, <3>2, <3>3, DiscardKeeps
  <2>3. RaceTurn' /\ RaceReceived' /\ Running' = Running /\ Over' = Over
    BY <2>1, <1>a, <1>c DEF RaceTurn, RaceReceived, Running, Over
  <2>4. RaceSlots' /\ RaceTokens'
    BY <2>1, <2>3, <1>a, <1>c DEF RaceSlots, RaceTokens
  <2>5. BestWins' /\ RaceDecision'
    BY <2>1, <1>a DEF BestWins, RaceDecision
  <2>6. RaceShape'
    BY <2>1, <2>2, <1>b, <1>c DEF RaceShape
  <2> QED
    BY <2>2, <2>3, <2>4, <2>5, <2>6 DEF RaceInv
<1> QED
  BY <1>1, <1>2, <1>3, <1>4

LEMMA RaceInvInductive == RaceInv /\ [RaceNext]_raceVars => RaceInv'
<1> SUFFICES ASSUME RaceInv, [RaceNext]_raceVars PROVE RaceInv'
  OBVIOUS
<1>1. CASE UNCHANGED raceVars
  BY <1>1 DEF raceVars, RaceInv, RaceShape, RaceTurn, RaceSlots, RaceTokens, RaceDecision, RaceReceived,
              RaceHeld, BestWins, Running, Over
<1> QED
  BY <1>1, RaceWorkKeeps, RaceEndKeeps DEF RaceNext, RaceStep

LEMMA RaceInvImplies == RaceInv => RaceSafe
<1> SUFFICES ASSUME RaceInv PROVE RaceSafe
  OBVIOUS
<1>1. Cardinality(Over) <= RaceN /\ Cardinality(Over) \in Nat
  BY CandsFinite DEF Over
<1>2. RaceTypeOK
  BY <1>1, RaceAssumption DEF RaceInv, RaceShape, RaceTokens, RaceTypeOK
<1>3. WidthKept
  BY DEF RaceInv, RaceSlots, WidthKept
<1>4. ASSUME collector # "race", Running = {}
      PROVE  engine = HeldBefore \cup ({winner} \ {0})
  <2>1. engine \subseteq Cands /\ HeldBefore \subseteq engine /\ HeldBefore \subseteq Cands
    BY RaceAssumption DEF RaceInv, RaceShape, RaceHeld
  <2>2. winner # 0 => winner \in Cands /\ outcome[winner] = "ok"
    BY RaceAssumption DEF RaceInv, RaceShape, RaceDecision, Cands
  <2>3. \A i \in Cands \ HeldBefore : i \in engine <=> outcome[i] = "ok" /\ winner = i
    <3>1. \A i \in Cands : cand[i] \notin {"warm", "ok"}
      BY <1>4 DEF Running
    <3> QED
      BY <1>4, <3>1 DEF RaceInv, RaceHeld
  <2>4. 0 \notin Cands
    BY RaceAssumption DEF Cands
  <2> QED
    BY <2>1, <2>2, <2>3, <2>4
<1>5. NoLoserLeaks
  BY <1>4 DEF NoLoserLeaks
<1> QED
  BY <1>2, <1>3, <1>5 DEF RaceSafe, RaceInv

\* race: for any candidates and width, the best release that delivers wins, never more than
\* raceWidth warm at once, and when the goroutines are done the engine holds the winner and
\* what it held before, nothing else and nothing less.
THEOREM RaceStaysSafe == RaceSpec => []RaceSafe
  BY RaceInvInit, RaceInvInductive, RaceInvImplies, PTL DEF RaceSpec

------------------------------------------------------------------------------
(* Playback, the desktop player and the goroutines that follow it.            *)

Trackers == [st : {"none", "begin", "follow", "suspend", "done"},
             chan : Runs \cup {0}, gen : Runs \cup {0}, positioned : BOOLEAN]
Starts == {"idle", "yield", "note", "launch", "play", "started", "leave", "done"}
MpvEvents == {"pos", "eof", "exit"}

\* What each variable may hold.
TrackShape ==
    /\ start \in [Runs -> Starts] /\ trackGen \in Runs \cup {0} /\ pin \in Runs \cup {0}
    /\ mpv.alive \in Runs \cup {0} /\ mpv.chan \in Runs \cup {0}
    /\ mpv = [alive |-> mpv.alive, chan |-> mpv.chan, sent |-> mpv.sent]
    /\ tracker \in [Runs -> Trackers] /\ saved \in [Runs -> Runs \cup {0}]
    /\ yielded \in BOOLEAN /\ other \in {"running", "paused"} /\ resumer \subseteq Runs

\* The channels hold what mpv reports, up to their size.
Channels == events \in [Runs -> Seq(MpvEvents)] /\ \A r \in Runs : Len(events[r]) <= EventBuffer

\* Playback.starting counts the starts that neither play nor failed yet.
Inside == {s \in Runs : start[s] \in {"yield", "note", "launch", "play"}}
Counted == starting = Cardinality(Inside) /\ Cardinality(Inside) <= 2

\* Whoever is about to play has the pin and the tracking; with nobody there, the channel
\* Events returns is that of the run that has the tracking.
Owner ==
    /\ \A r \in Runs : start[r] = "play" => pin = r /\ trackGen = r
    /\ (\A r \in Runs : start[r] # "play") /\ trackGen # 0 => mpv.chan = trackGen

\* A goroutine follows a run that started, and the one with the tracking its own channel.
Followers ==
    \A r \in Runs :
      /\ tracker[r].st # "none" => tracker[r].gen = r /\ mpv.chan # 0
      /\ tracker[r].st \in {"begin", "follow", "suspend"} => start[r] = "started"
      /\ start[r] \in {"idle", "yield", "note", "launch", "play"} => tracker[r].st = "none"
      /\ tracker[r].st = "follow" => tracker[r].chan \in Runs /\ (trackGen = r => tracker[r].chan = r)

\* A paused download is on record, or about to be, and somebody is left to look for it.
NotForgotten ==
    other = "paused" =>
      /\ yielded \/ \E r \in Runs : start[r] = "note"
      /\ starting # 0 \/ pin # 0 \/ resumer # {} \/ \E r \in Runs : start[r] = "leave"

\* The inductive invariant of the player.
TrackInv == /\ TrackShape /\ Channels /\ Counted /\ Owner /\ Followers /\ NotForgotten /\ PositionsOwn

\* Runs can be counted, and none has number 0.
LEMMA RunsFinite == ASSUME NEW S \in SUBSET Runs PROVE IsFiniteSet(S) /\ Cardinality(S) \in Nat
<1>1. IsFiniteSet(Runs)
  BY FS_Interval, TrackAssumption DEF Runs
<1> QED
  BY <1>1, FS_Subset, FS_CardinalityType

LEMMA RunsAreNumbers == \A r \in Runs : r \in Nat /\ r # 0
  BY TrackAssumption DEF Runs

\* Emit adds at most one event to a channel with room.
LEMMA EmitKeeps ==
    ASSUME Channels, NEW r \in Runs, NEW e \in MpvEvents, Emit(r, e)
    PROVE  Channels'
<1>1. CASE Len(events[r]) < EventBuffer
  <2>1. events' = [events EXCEPT ![r] = Append(events[r], e)]
    BY <1>1 DEF Emit
  <2>2. events[r] \in Seq(MpvEvents)
    BY DEF Channels
  <2>3. Append(events[r], e) \in Seq(MpvEvents) /\ Len(Append(events[r], e)) = Len(events[r]) + 1
    BY <2>2
  <2>4. Len(events[r]) + 1 <= EventBuffer
    BY <1>1, <2>2, TrackAssumption
  <2> QED
    BY <2>1, <2>3, <2>4 DEF Channels
<1>2. CASE ~(Len(events[r]) < EventBuffer)
  BY <1>2 DEF Emit, Channels
<1> QED
  BY <1>1, <1>2

LEMMA TrackInvInit == TrackInit => TrackInv
<1> SUFFICES ASSUME TrackInit PROVE TrackInv
  OBVIOUS
<1>1. TrackShape
  BY DEF TrackInit, TrackShape, Starts, Trackers, NoTracker
<1>2. Channels
  BY TrackAssumption DEF TrackInit, Channels
<1>3. Inside = {}
  BY DEF TrackInit, Inside
<1>4. Counted
  BY <1>3, FS_EmptySet DEF TrackInit, Counted
<1>5. Owner /\ Followers
  BY DEF TrackInit, Owner, Followers, NoTracker
<1>6. NotForgotten /\ PositionsOwn
  BY DEF TrackInit, NotForgotten, PositionsOwn
<1> QED
  BY <1>1, <1>2, <1>4, <1>5, <1>6 DEF TrackInv

\* A start moves on without leaving.
LEMMA MoveCounts ==
    ASSUME TrackShape, Counted, NEW r \in Runs, NEW s \in {"note", "launch", "play"},
           start[r] \in {"yield", "note", "launch"}, start' = [start EXCEPT ![r] = s], starting' = starting
    PROVE  Counted' /\ starting # 0
<1>1. Inside' = Inside
  BY DEF Inside, TrackShape
<1>2. r \in Inside
  BY DEF Inside
<1>3. IsFiniteSet(Inside)
  BY RunsFinite DEF Inside
<1>4. Cardinality(Inside) # 0
  BY <1>2, <1>3, FS_EmptySet
<1> QED
  BY <1>1, <1>4 DEF Counted

\* A start that plays or failed counts no longer.
LEMMA LeaveCounts ==
    ASSUME TrackShape, Counted, NEW r \in Runs, NEW s \in {"started", "leave"},
           start[r] \in {"launch", "play"}, start' = [start EXCEPT ![r] = s], starting' = starting - 1
    PROVE  Counted'
<1>1. Inside' = Inside \ {r} /\ r \in Inside
  BY DEF Inside, TrackShape
<1>2. IsFiniteSet(Inside) /\ Cardinality(Inside) \in Nat
  BY RunsFinite DEF Inside
<1>3. Cardinality(Inside \ {r}) = Cardinality(Inside) - 1
  BY <1>1, <1>2, FS_RemoveElement
<1>4. Cardinality(Inside') = Cardinality(Inside) - 1
  BY <1>1, <1>3
<1> QED
  BY <1>2, <1>4 DEF Counted

\* The starts: counted, yielding, pinned, and playing or failing.
LEMMA StartKeeps ==
    ASSUME TrackInv, ~LaunchesCross, NEW r \in Runs,
           StartPlay(r) \/ Yield(r) \/ YieldNote(r) \/ Launch(r)
    PROVE  TrackInv'
<1>a. TrackShape /\ Channels /\ Counted /\ Owner /\ Followers /\ NotForgotten /\ PositionsOwn
  BY DEF TrackInv
<1>b. start \in [Runs -> Starts] /\ tracker \in [Runs -> Trackers]
  BY <1>a DEF TrackShape
<1>c. UNCHANGED <<mpv, events, tracker, saved, resumer>>
  BY DEF StartPlay, Yield, YieldNote, Launch
<1>d. Channels' /\ PositionsOwn'
  BY <1>a, <1>c DEF Channels, PositionsOwn
<1>1. CASE StartPlay(r)
  <2>1. /\ start[r] = "idle" /\ start' = [start EXCEPT ![r] = "yield"] /\ starting' = starting + 1
        /\ UNCHANGED <<trackGen, pin, yielded, other>>
    BY <1>1 DEF StartPlay
  <2>2. Counted'
    <3> DEFINE Busy == {s \in Runs : start[s] \in {"yield", "note", "launch", "play", "leave"}}
    <3>1. Inside \in SUBSET Busy /\ IsFiniteSet(Busy) /\ Cardinality(Busy) \in Nat
      BY RunsFinite DEF Inside
    <3>2. Cardinality(Busy) < 2
      BY <1>1 DEF StartPlay
    <3>3. IsFiniteSet(Inside) /\ Cardinality(Inside) \in Nat /\ Cardinality(Inside) <= Cardinality(Busy)
      BY <3>1, FS_Subset, RunsFinite DEF Inside
    <3> HIDE DEF Busy
    <3>4. Inside' = Inside \cup {r} /\ r \notin Inside
      BY <2>1, <1>b DEF Inside
    <3>5. Cardinality(Inside \cup {r}) = Cardinality(Inside) + 1
      BY <3>3, <3>4, FS_AddElement
    <3>6. Cardinality(Inside') = Cardinality(Inside) + 1
      BY <3>4, <3>5
    <3> QED
      BY <3>1, <3>2, <3>3, <3>6, <2>1, <1>a DEF Counted
  <2>3. starting' # 0
    BY <2>1, <1>a, RunsFinite DEF Counted, Inside
  <2>4. TrackShape'
    BY <2>1, <1>a, <1>c DEF TrackShape, Starts
  <2>5. Owner'
    BY <2>1, <1>a, <1>b, <1>c DEF Owner
  <2>6. Followers'
    BY <2>1, <1>a, <1>b, <1>c DEF Followers
  <2>7. NotForgotten'
    BY <2>1, <2>3, <1>a, <1>b, <1>c DEF NotForgotten
  <2> QED
    BY <1>d, <2>2, <2>4, <2>5, <2>6, <2>7 DEF TrackInv
<1>2. CASE Yield(r)
  <2>1. PICK s \in {"note", "launch"} :
          /\ start[r] = "yield" /\ start' = [start EXCEPT ![r] = s] /\ other' = "paused"
          /\ s = (IF other = "running" THEN "note" ELSE "launch")
          /\ UNCHANGED <<starting, trackGen, pin, yielded>>
    BY <1>2 DEF Yield
  <2>2. Counted' /\ starting # 0
    BY <2>1, <1>a, MoveCounts
  <2>4. TrackShape'
    BY <2>1, <1>a, <1>c DEF TrackShape, Starts
  <2>5. Owner'
    BY <2>1, <1>a, <1>b, <1>c DEF Owner
  <2>6. Followers'
    BY <2>1, <1>a, <1>b, <1>c DEF Followers
  <2>7. yielded \/ \E q \in Runs : start'[q] = "note"
    <3>1. CASE other = "running"
      BY <3>1, <2>1, <1>b
    <3>2. CASE other = "paused"
      BY <3>2, <2>1, <1>a, <1>b DEF NotForgotten
    <3> QED
      BY <3>1, <3>2, <1>a DEF TrackShape
  <2>8. NotForgotten'
    BY <2>1, <2>2, <2>7 DEF NotForgotten
  <2> QED
    BY <1>d, <2>2, <2>4, <2>5, <2>6, <2>8 DEF TrackInv
<1>3. CASE YieldNote(r)
  <2>1. /\ start[r] = "note" /\ start' = [start EXCEPT ![r] = "launch"] /\ yielded' = TRUE
        /\ UNCHANGED <<starting, trackGen, pin, other>>
    BY <1>3 DEF YieldNote
  <2>2. Counted' /\ starting # 0
    BY <2>1, <1>a, MoveCounts
  <2>4. TrackShape'
    BY <2>1, <1>a, <1>c DEF TrackShape, Starts
  <2>5. Owner'
    BY <2>1, <1>a, <1>b, <1>c DEF Owner
  <2>6. Followers'
    BY <2>1, <1>a, <1>b, <1>c DEF Followers
  <2>7. NotForgotten'
    BY <2>1, <2>2 DEF NotForgotten
  <2> QED
    BY <1>d, <2>2, <2>4, <2>5, <2>6, <2>7 DEF TrackInv
<1>4. CASE Launch(r)
  <2>1. /\ start[r] = "launch" /\ start' = [start EXCEPT ![r] = "play"] /\ pin' = r /\ trackGen' = r
        /\ UNCHANGED <<starting, yielded, other>> /\ \A s \in Runs : start[s] # "play"
    BY <1>4 DEF Launch
  <2>2. Counted' /\ starting # 0
    BY <2>1, <1>a, MoveCounts
  <2>4. TrackShape'
    BY <2>1, <1>a, <1>c DEF TrackShape, Starts
  <2>5. Owner'
    BY <2>1, <1>a, <1>b, <1>c DEF Owner
  <2>6. Followers'
    BY <2>1, <1>a, <1>b, <1>c DEF Followers
  <2>7. NotForgotten'
    BY <2>1, <2>2, <1>a, <1>b, <1>c DEF NotForgotten
  <2> QED
    BY <1>d, <2>2, <2>4, <2>5, <2>6, <2>7 DEF TrackInv
<1> QED
  BY <1>1, <1>2, <1>3, <1>4

\* The player starts, or does not.
LEMMA PlayerKeeps ==
    ASSUME TrackInv, NEW r \in Runs, PlayerStarts(r) \/ StartFails(r)
    PROVE  TrackInv'
<1>a. TrackShape /\ Channels /\ Counted /\ Owner /\ Followers /\ NotForgotten /\ PositionsOwn
  BY DEF TrackInv
<1>b. /\ start \in [Runs -> Starts] /\ tracker \in [Runs -> Trackers]
      /\ mpv.alive \in Runs \cup {0} /\ mpv.chan \in Runs \cup {0}
  BY <1>a DEF TrackShape
<1>c. UNCHANGED <<trackGen, pin, saved, yielded, other, resumer>> /\ r # 0
  BY RunsAreNumbers DEF PlayerStarts, StartFails
<1>d. PositionsOwn'
  BY <1>a, <1>c DEF PositionsOwn
<1>e. Channels'
  <2>1. ASSUME mpv.alive # 0, Emit(mpv.alive, "exit") PROVE Channels'
    BY <2>1, <1>a, <1>b, EmitKeeps DEF MpvEvents
  <2>2. ASSUME events' = events PROVE Channels'
    BY <2>2, <1>a DEF Channels
  <2> QED
    BY <2>1, <2>2 DEF PlayerStarts, StartFails
<1>1. CASE PlayerStarts(r)
  <2>1. /\ start[r] = "play" /\ start' = [start EXCEPT ![r] = "started"] /\ starting' = starting - 1
        /\ mpv' = [alive |-> r, chan |-> r, sent |-> 0]
        /\ tracker' = [tracker EXCEPT ![r] = [NoTracker EXCEPT !.st = "begin", !.gen = r]]
    BY <1>1 DEF PlayerStarts
  <2>2. pin = r /\ trackGen = r /\ \A s \in Runs : s # r => start[s] # "play"
    BY <2>1, <1>a DEF Owner
  <2>3. Counted'
    BY <2>1, <1>a, LeaveCounts
  <2>4. PICK t \in Trackers : t = [NoTracker EXCEPT !.st = "begin", !.gen = r] /\ t.st = "begin" /\ t.gen = r
    <3>1. NoTracker \in Trackers /\ r \in Runs \cup {0}
      BY DEF NoTracker, Trackers
    <3>2. /\ [NoTracker EXCEPT !.st = "begin", !.gen = r] \in Trackers
          /\ [NoTracker EXCEPT !.st = "begin", !.gen = r].st = "begin"
          /\ [NoTracker EXCEPT !.st = "begin", !.gen = r].gen = r
      BY <3>1 DEF Trackers
    <3> QED
      BY <3>2
  <2>5. TrackShape'
    BY <2>1, <2>4, <1>a, <1>c DEF TrackShape, Starts, Trackers
  <2>6. Owner'
    BY <2>1, <2>2, <1>b, <1>c DEF Owner
  <2>7. Followers'
    BY <2>1, <2>4, <1>a, <1>b, <1>c DEF Followers
  <2>8. NotForgotten'
    BY <2>1, <2>2, <1>a, <1>b, <1>c DEF NotForgotten
  <2> QED
    BY <1>d, <1>e, <2>3, <2>5, <2>6, <2>7, <2>8 DEF TrackInv
<1>2. CASE StartFails(r)
  <2>1. /\ start[r] \in {"launch", "play"} /\ start' = [start EXCEPT ![r] = "leave"] /\ starting' = starting - 1
        /\ mpv' = (IF start[r] = "play" THEN [alive |-> 0, chan |-> r, sent |-> 0] ELSE mpv)
        /\ tracker' = tracker
    BY <1>2 DEF StartFails
  <2>2. start[r] = "play" => trackGen = r /\ \A s \in Runs : s # r => start[s] # "play"
    BY <2>1, <1>a DEF Owner
  <2>3. Counted'
    BY <2>1, <1>a, LeaveCounts
  <2>5. TrackShape'
    BY <2>1, <1>a, <1>c DEF TrackShape, Starts
  <2>6. Owner'
    BY <2>1, <2>2, <1>a, <1>b, <1>c DEF Owner
  <2>7. Followers'
    BY <2>1, <1>a, <1>b, <1>c DEF Followers
  <2>8. NotForgotten'
    BY <2>1, <1>a, <1>b, <1>c DEF NotForgotten
  <2> QED
    BY <1>d, <1>e, <2>3, <2>5, <2>6, <2>7, <2>8 DEF TrackInv
<1> QED
  BY <1>1, <1>2

\* What yielded is looked for once nothing starts, and let go on once nothing is pinned.
LEMMA ResumeKeeps ==
    ASSUME TrackInv, NEW r \in Runs, ResumeCheck(r) \/ ResumeYielded(r)
    PROVE  TrackInv'
<1>a. TrackShape /\ Channels /\ Counted /\ Owner /\ Followers /\ NotForgotten /\ PositionsOwn
  BY DEF TrackInv
<1>b. /\ start \in [Runs -> Starts] /\ tracker \in [Runs -> Trackers] /\ resumer \subseteq Runs
  BY <1>a DEF TrackShape
<1>c. UNCHANGED <<starting, trackGen, mpv, events, tracker, pin, saved>>
  BY DEF ResumeCheck, ResumeYielded
<1>d. PositionsOwn' /\ Channels'
  BY <1>a, <1>c DEF PositionsOwn, Channels
<1>1. CASE ResumeCheck(r)
  <2>1. /\ start[r] = "leave" /\ start' = [start EXCEPT ![r] = "done"]
        /\ resumer' = (IF starting = 0 THEN resumer \cup {r} ELSE resumer) /\ UNCHANGED <<yielded, other>>
    BY <1>1 DEF ResumeCheck
  <2>2. Inside' = Inside
    BY <2>1, <1>b DEF Inside
  <2>3. Counted'
    BY <2>2, <1>a, <1>c DEF Counted
  <2>5. TrackShape'
    BY <2>1, <1>a, <1>c DEF TrackShape, Starts
  <2>6. Owner' /\ Followers'
    BY <2>1, <1>a, <1>b, <1>c DEF Owner, Followers
  <2>7. NotForgotten'
    BY <2>1, <1>a, <1>b, <1>c DEF NotForgotten
  <2> QED
    BY <1>d, <2>3, <2>5, <2>6, <2>7 DEF TrackInv
<1>2. CASE ResumeYielded(r)
  <2>1. /\ start' = start /\ resumer' = resumer \ {r}
        /\ \/ other' = "running" /\ yielded' = FALSE
           \/ ~(pin = 0 /\ yielded) /\ UNCHANGED <<other, yielded>>
    BY <1>2 DEF ResumeYielded
  <2>2. Counted'
    BY <2>1, <1>a, <1>c DEF Counted, Inside
  <2>3. TrackShape'
    BY <2>1, <1>a, <1>c DEF TrackShape
  <2>4. Owner' /\ Followers'
    BY <2>1, <1>a, <1>c DEF Owner, Followers
  <2>5. (\E s \in Runs : start[s] = "note") => starting # 0
    <3> SUFFICES ASSUME NEW s \in Runs, start[s] = "note" PROVE starting # 0
      OBVIOUS
    <3>1. s \in Inside /\ IsFiniteSet(Inside)
      BY RunsFinite DEF Inside
    <3> QED
      BY <3>1, <1>a, FS_EmptySet DEF Counted
  <2>6. NotForgotten'
    BY <2>1, <2>5, <1>a, <1>c DEF NotForgotten
  <2> QED
    BY <1>d, <2>2, <2>3, <2>4, <2>6 DEF TrackInv
<1> QED
  BY <1>1, <1>2

\* mpv reports, ends or is closed.
LEMMA ReportKeeps ==
    ASSUME TrackInv, PlayerReports \/ \E kind \in {"eof", "exit"} : PlayerEnds(kind)
    PROVE  TrackInv'
<1>a. TrackShape /\ Channels /\ Counted /\ Owner /\ Followers /\ NotForgotten /\ PositionsOwn
  BY DEF TrackInv
<1>b. mpv.alive \in Runs \cup {0} /\ mpv = [alive |-> mpv.alive, chan |-> mpv.chan, sent |-> mpv.sent]
  BY <1>a DEF TrackShape
<1>c. UNCHANGED <<start, starting, trackGen, tracker, pin, saved, yielded, other, resumer>>
  BY DEF PlayerReports, PlayerEnds
<1>1. /\ mpv'.chan = mpv.chan /\ mpv'.alive \in {mpv.alive, 0}
      /\ mpv' = [alive |-> mpv'.alive, chan |-> mpv'.chan, sent |-> mpv'.sent]
  <2>1. CASE PlayerReports
    BY <2>1, <1>b DEF PlayerReports
  <2>2. ASSUME NEW kind \in {"eof", "exit"}, PlayerEnds(kind)
        PROVE  /\ mpv'.chan = mpv.chan /\ mpv'.alive \in {mpv.alive, 0}
               /\ mpv' = [alive |-> mpv'.alive, chan |-> mpv'.chan, sent |-> mpv'.sent]
    BY <2>2, <1>b DEF PlayerEnds
  <2> QED
    BY <2>1, <2>2
<1>2. Channels'
  BY <1>a, <1>b, EmitKeeps DEF PlayerReports, PlayerEnds, MpvEvents
<1>3. TrackShape'
  BY <1>1, <1>a, <1>c DEF TrackShape
<1>4. Counted' /\ PositionsOwn' /\ NotForgotten'
  BY <1>a, <1>c DEF Counted, Inside, PositionsOwn, NotForgotten
<1>5. Owner' /\ Followers'
  BY <1>1, <1>a, <1>c DEF Owner, Followers
<1> QED
  BY <1>2, <1>3, <1>4, <1>5 DEF TrackInv

\* The goroutine of a run takes the channel of the moment, and what it saves is its own.
LEMMA FollowKeeps ==
    ASSUME TrackInv, NEW r \in Runs, TrackBegins(r) \/ TrackEvent(r) \/ Suspend(r)
    PROVE  TrackInv'
<1>a. TrackShape /\ Channels /\ Counted /\ Owner /\ Followers /\ NotForgotten /\ PositionsOwn
  BY DEF TrackInv
<1>b. /\ start \in [Runs -> Starts] /\ tracker \in [Runs -> Trackers] /\ saved \in [Runs -> Runs \cup {0}]
      /\ mpv.chan \in Runs \cup {0}
  BY <1>a DEF TrackShape
<1>c. UNCHANGED <<starting, trackGen, mpv, yielded, other, resumer>>
  BY DEF TrackBegins, TrackEvent, Suspend
<1>1. CASE TrackBegins(r)
  <2>1. /\ tracker[r].st = "begin" /\ tracker' = [tracker EXCEPT ![r].st = "follow", ![r].chan = mpv.chan]
        /\ UNCHANGED <<start, events, pin, saved>>
    BY <1>1 DEF TrackBegins
  <2>2. mpv.chan \in Runs /\ start[r] = "started" /\ tracker[r].gen = r
    BY <2>1, <1>a, <1>b DEF Followers
  <2>3. trackGen = r => mpv.chan = r
    BY <2>2, <1>a, RunsAreNumbers DEF Owner
  <2>4. tracker' \in [Runs -> Trackers]
    <3>1. tracker[r] \in Trackers /\ mpv.chan \in Runs \cup {0}
      BY <1>b
    <3>2. [tracker[r] EXCEPT !.st = "follow", !.chan = mpv.chan] \in Trackers
      BY <3>1 DEF Trackers
    <3>3. tracker' = [tracker EXCEPT ![r] = [tracker[r] EXCEPT !.st = "follow", !.chan = mpv.chan]]
      BY <2>1, <1>b
    <3> QED
      BY <3>2, <3>3, <1>b
  <2>5. TrackShape' /\ Channels' /\ Counted' /\ Owner' /\ NotForgotten' /\ PositionsOwn'
    BY <2>1, <2>4, <1>a, <1>c
       DEF TrackShape, Channels, Counted, Inside, Owner, NotForgotten, PositionsOwn
  <2>6. tracker'[r].st = "follow" /\ tracker'[r].chan = mpv.chan /\ tracker'[r].gen = r
        /\ \A s \in Runs : s # r => tracker'[s] = tracker[s]
    BY <2>1, <2>2, <1>b DEF Trackers
  <2>7. Followers'
    <3> SUFFICES ASSUME NEW s \in Runs
                 PROVE  (/\ tracker[s].st # "none" => tracker[s].gen = s /\ mpv.chan # 0
                         /\ tracker[s].st \in {"begin", "follow", "suspend"} => start[s] = "started"
                         /\ start[s] \in {"idle", "yield", "note", "launch", "play"} => tracker[s].st = "none"
                         /\ tracker[s].st = "follow"
                              => tracker[s].chan \in Runs /\ (trackGen = s => tracker[s].chan = s))'
      BY DEF Followers
    <3>1. CASE s = r
      <4>1. /\ tracker'[r].st = "follow" /\ tracker'[r].chan = mpv'.chan /\ tracker'[r].gen = r
            /\ start'[r] = "started" /\ mpv'.chan \in Runs /\ (trackGen' = r => mpv'.chan = r) /\ mpv'.chan # 0
        BY <2>1, <2>2, <2>3, <2>6, <1>c, RunsAreNumbers
      <4> QED
        BY <3>1, <4>1
    <3>2. CASE s # r
      <4>1. /\ tracker[s].st # "none" => tracker[s].gen = s /\ mpv.chan # 0
            /\ tracker[s].st \in {"begin", "follow", "suspend"} => start[s] = "started"
            /\ start[s] \in {"idle", "yield", "note", "launch", "play"} => tracker[s].st = "none"
            /\ tracker[s].st = "follow" => tracker[s].chan \in Runs /\ (trackGen = s => tracker[s].chan = s)
        BY <1>a DEF Followers
      <4>2. tracker'[s] = tracker[s] /\ mpv' = mpv /\ start' = start /\ trackGen' = trackGen
        BY <3>2, <2>1, <2>6, <1>c
      <4> QED
        BY <4>1, <4>2
    <3> QED
      BY <3>1, <3>2
  <2> QED
    BY <2>5, <2>7 DEF TrackInv
<1>2. CASE TrackEvent(r)
  <2> DEFINE t == tracker[r]
             mine == OwnsTracking(t)
             e == Head(events[t.chan])
  <2>1. /\ t.st = "follow" /\ events[t.chan] # <<>>
        /\ events' = [events EXCEPT ![t.chan] = Tail(@)]
        /\ saved' = (IF mine /\ (e = "pos" \/ t.positioned) THEN [saved EXCEPT ![r] = t.chan] ELSE saved)
        /\ tracker' = [tracker EXCEPT ![r].positioned = mine /\ (@ \/ e = "pos"),
                                      ![r].st = IF ~mine THEN "done" ELSE IF e = "pos" THEN @ ELSE "suspend"]
        /\ UNCHANGED <<start, pin>>
    BY <1>2 DEF TrackEvent
  <2>2. t.chan \in Runs /\ t.gen = r /\ start[r] = "started" /\ (trackGen = r => t.chan = r)
    BY <2>1, <1>a DEF Followers
  <2>3. mine => t.chan = r
    BY <2>2 DEF OwnsTracking
  <2>4. Channels'
    <3>1. events[t.chan] \in Seq(MpvEvents) /\ Len(events[t.chan]) <= EventBuffer
      BY <2>2, <1>a DEF Channels
    <3>2. Tail(events[t.chan]) \in Seq(MpvEvents) /\ Len(Tail(events[t.chan])) <= EventBuffer
      BY <3>1, <2>1, TrackAssumption
    <3> QED
      BY <2>1, <3>2, <1>a DEF Channels
  <2>5. PositionsOwn' /\ saved' \in [Runs -> Runs \cup {0}]
    BY <2>1, <2>2, <2>3, <1>a, <1>b DEF PositionsOwn
  <2>6. mine \in BOOLEAN
    BY DEF OwnsTracking
  <2>7. /\ tracker'[r] = [t EXCEPT !.positioned = mine /\ (@ \/ e = "pos"),
                                   !.st = IF ~mine THEN "done" ELSE IF e = "pos" THEN @ ELSE "suspend"]
        /\ \A s \in Runs : s # r => tracker'[s] = tracker[s]
        /\ DOMAIN tracker' = Runs /\ tracker' = [s \in Runs |-> tracker'[s]]
    BY <2>1, <1>b
  <2>8. t \in Trackers
    BY <1>b
  <2> HIDE DEF t, mine, e
  <2>9. /\ tracker'[r] \in Trackers /\ tracker'[r].gen = t.gen /\ tracker'[r].chan = t.chan
        /\ tracker'[r].st \in {"follow", "suspend", "done"}
    <3>1. PICK p, s : /\ p = (mine /\ (t.positioned \/ e = "pos"))
                      /\ s = (IF ~mine THEN "done" ELSE IF e = "pos" THEN t.st ELSE "suspend")
      OBVIOUS
    <3>2. p \in BOOLEAN /\ s \in {"follow", "suspend", "done"}
      BY <3>1, <2>1
    <3>3. tracker'[r] = [t EXCEPT !.positioned = p, !.st = s]
      BY <3>1, <2>7, Zenon
    <3> QED
      BY <3>2, <3>3, <2>8 DEF Trackers
  <2>10. tracker' \in [Runs -> Trackers]
    BY <2>7, <2>9, <1>b
  <2>11. TrackShape' /\ Counted' /\ Owner' /\ NotForgotten'
    BY <2>1, <2>5, <2>10, <1>a, <1>c DEF TrackShape, Counted, Inside, Owner, NotForgotten
  <2>12. Followers'
    BY <2>1, <2>2, <2>7, <2>9, <1>a, <1>c DEF Followers, t
  <2> QED
    BY <2>4, <2>5, <2>11, <2>12 DEF TrackInv
<1>3. CASE Suspend(r)
  <2>1. /\ tracker[r].st = "suspend" /\ tracker' = [tracker EXCEPT ![r].st = "done"]
        /\ pin' = (IF pin = r THEN 0 ELSE pin) /\ start' = [start EXCEPT ![r] = "leave"]
        /\ UNCHANGED <<events, saved>>
    BY <1>3 DEF Suspend
  <2>2. start[r] = "started"
    BY <2>1, <1>a DEF Followers
  <2>3. Inside' = Inside
    BY <2>1, <2>2, <1>b DEF Inside
  <2>4. Counted' /\ Channels' /\ PositionsOwn'
    BY <2>1, <2>3, <1>a, <1>c DEF Counted, Channels, PositionsOwn
  <2>5. TrackShape'
    BY <2>1, <1>a, <1>c DEF TrackShape, Starts, Trackers
  <2>6. Owner'
    BY <2>1, <2>2, <1>a, <1>b, <1>c DEF Owner
  <2>7. Followers'
    BY <2>1, <2>2, <1>a, <1>b, <1>c DEF Followers, Trackers
  <2>8. NotForgotten'
    BY <2>1, <2>2, <1>a, <1>b, <1>c DEF NotForgotten
  <2> QED
    BY <2>4, <2>5, <2>6, <2>7, <2>8 DEF TrackInv
<1> QED
  BY <1>1, <1>2, <1>3

LEMMA TrackInvInductive == ASSUME ~LaunchesCross PROVE TrackInv /\ [TrackNext]_trackVars => TrackInv'
<1> SUFFICES ASSUME TrackInv, [TrackNext]_trackVars PROVE TrackInv'
  OBVIOUS
<1>1. CASE UNCHANGED trackVars
  BY <1>1 DEF trackVars, TrackInv, TrackShape, Channels, Counted, Inside, Owner, Followers, NotForgotten, PositionsOwn
<1>2. ASSUME NEW r \in Runs, TrackStep(r) \/ StartPlay(r) \/ StartFails(r) PROVE TrackInv'
  BY <1>2, StartKeeps, PlayerKeeps, ResumeKeeps, FollowKeeps DEF TrackStep
<1> QED
  BY <1>1, <1>2, ReportKeeps DEF TrackNext

LEMMA TrackInvImplies == TrackInv => TrackSafe
<1> SUFFICES ASSUME TrackInv PROVE TrackSafe
  OBVIOUS
<1>1. Cardinality(Inside) \in Nat
  BY RunsFinite DEF Inside
<1>2. TrackTypeOK
  BY <1>1 DEF TrackInv, TrackShape, Channels, Counted, TrackTypeOK
<1>3. YieldedResumes
  BY DEF TrackInv, TrackShape, NotForgotten, YieldedResumes, QuietPlay
<1> QED
  BY <1>2, <1>3 DEF TrackSafe, TrackInv

\* launch, track, Suspend and resumeYielded: for any runs and any size of the channel, with one
\* start at a time inside launch, a position is saved under the episode its player played, and
\* when nothing starts, plays or closes the download that made way runs again.
THEOREM TrackStaysSafe == ASSUME ~LaunchesCross PROVE TrackSpec => []TrackSafe
  BY TrackInvInit, TrackInvInductive, TrackInvImplies, PTL DEF TrackSpec

------------------------------------------------------------------------------
(* The run that composes them.                                                 *)

LEMMA ProgressInits ==
    ProgressInit => Init /\ SyncInit /\ PeersInit /\ RaceInit /\ TrackInit
  BY DEF ProgressInit

LEMMA ProgressSteps ==
    [ProgressNext]_progressVars =>
      [Next]_vars /\ [PeersNext]_peerVars /\ [RaceNext]_raceVars /\ [TrackNext]_trackVars
  BY DEF ProgressNext, progressVars

\* What the run of MCProgress checks in every state, for any value of the constants: a job's
\* wait is capped (backoff), the remembered peers are bounded (remember), the race leaves
\* its winner alone in the engine (race), and positions go to the episode that was playing
\* (track) as long as no two starts are inside launch at once, which is what the run
\* assumes too.
THEOREM ProgressStaysSafe == ASSUME ~LaunchesCross PROVE ProgressSpec => []ProgressSafe
<1>1. ProgressSpec => Init /\ PeersInit /\ RaceInit /\ TrackInit /\ [][Next]_vars
        /\ [][PeersNext]_peerVars /\ [][RaceNext]_raceVars /\ [][TrackNext]_trackVars
  BY ProgressInits, ProgressSteps, PTL DEF ProgressSpec
<1>2. Init /\ [][Next]_vars => []Inv
  BY InvInit, InvInductive, PTL
<1>3. PeersInit /\ [][PeersNext]_peerVars => []PeersSafe
  BY PeersInvInit, PeersInvInductive, PeersInvImplies, PTL
<1>4. RaceInit /\ [][RaceNext]_raceVars => []RaceSafe
  BY RaceInvInit, RaceInvInductive, RaceInvImplies, PTL
<1>5. TrackInit /\ [][TrackNext]_trackVars => []TrackSafe
  BY TrackInvInit, TrackInvInductive, TrackInvImplies, PTL
<1>6. Inv /\ PeersSafe /\ RaceSafe /\ TrackSafe => ProgressSafe
  BY DEF Inv, ProgressSafe
<1> QED
  BY <1>1, <1>2, <1>3, <1>4, <1>5, <1>6, PTL

\* The same for what its steps may never do, and for the job's runs: they never overlap
\* (claim), two that the loop begins are an interval apart (backoff), and a tick spares a
\* lone or a delivering peer (shed, rescue).
THEOREM ProgressStaysKept ==
    ProgressSpec => []RunsNeverOverlap /\ LoopKeepsInterval /\ LonePeerSurvives
<1>1. ProgressSpec => Init /\ PeersInit /\ [][Next]_vars /\ [][PeersNext]_peerVars
  BY ProgressInits, ProgressSteps, PTL DEF ProgressSpec
<1>2. Init /\ [][Next]_vars => []RunsNeverOverlap /\ LoopKeepsInterval
  <2>1. Inv /\ [Next]_vars => [pc = "execute" /\ pc' = "run" => since = Every]_vars
    BY DEF Inv, Rested
  <2>2. Inv => RunsNeverOverlap
    BY DEF Inv
  <2> QED
    BY <2>1, <2>2, InvInit, InvInductive, PTL DEF LoopKeepsInterval
<1>3. PeersInit /\ [][PeersNext]_peerVars => LonePeerSurvives
  <2>1. PeersInv /\ [PeersNext]_peerVars
          => [JanitorTick => \A p \in conn : conn = {p} \/ heard[p] = 0 => p \in conn']_peerVars
    BY TickSpares
  <2> QED
    BY <2>1, PeersInvInit, PeersInvInductive, PTL DEF LonePeerSurvives
<1> QED
  BY <1>1, <1>2, <1>3
=============================================================================
