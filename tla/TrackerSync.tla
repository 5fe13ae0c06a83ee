----------------------------- MODULE TrackerSync -----------------------------
(***************************************************************************)
(* How one list entry is kept in agreement with AniList:                   *)
(* internal/library/sync.go (type Sync), the statements it runs            *)
(* (internal/store/sync.go, ImportList in internal/store/library.go) and   *)
(* the requests that edit the entry (internal/server/watch.go).            *)
(*                                                                         *)
(* The anilist-sync job pushes the entry when it is dirty and then merges  *)
(* the list it fetches. Request goroutines, the Handlers, edit the entry   *)
(* and push it at once (PushOne, forced), or remove it. A step is one SQL  *)
(* statement, one answer of AniList or one turn of the lock Sync.pushing.  *)
(*                                                                         *)
(* What an entry says (status, progress, score) is one number, the edit it *)
(* stems from, counted over both sides. local_updated_at is that count at  *)
(* the last edit of the row: the code's max(now, local_updated_at + 1) and *)
(* the count are both later with each edit, which is all that is compared. *)
(***************************************************************************)
EXTENDS Integers

CONSTANTS
    Handlers,      \* request goroutines running at the same time
    Nobody,        \* the lock is free
    MaxRequests,   \* bound: requests of a behaviour
    MaxSiteEdits,  \* bound: edits made on the site
    MaxFaults      \* bound: calls of a tracker that fail

ASSUME NamesAssumption == "job" \notin Handlers /\ Nobody \notin Handlers \cup {"job"}
ASSUME BoundsAssumption ==
    MaxRequests \in Nat /\ MaxSiteEdits \in Nat /\ MaxFaults \in Nat

VARIABLES
    local,      \* the row of list_entry
    remote,     \* external: the entry AniList holds
    finishing,  \* an episode marked watched may be the show's last one
    pushing,    \* who holds Sync.pushing
    procs,      \* where the job and the handlers are
    edits,      \* edits so far, on either side
    requests, siteEdits, faults,  \* what the bounds have left
    pushed,     \* history: the value the last push of this entry sent, or Removed
    sent,       \* history: every value AniList ever held
    gone        \* history: removed with success, and not edited since

syncVars == <<local, remote, finishing, pushing, procs, edits, requests, siteEdits, faults,
          pushed, sent, gone>>

\* Once the entry was removed the order of its pushes is no longer followed.
Removed == -1

bounds == <<requests, siteEdits, faults>>

SyncGoroutines == Handlers \cup {"job"}

NoEntry == [listed |-> FALSE, val |-> 0, changed |-> 0, remoteAt |-> 0,
            dirty |-> FALSE, known |-> FALSE]

Entry == [listed: BOOLEAN, val: Nat,
          changed: Nat,     \* local_updated_at
          remoteAt: Nat,    \* remote_updated_at
          dirty: BOOLEAN,
          known: BOOLEAN]   \* id > 0: AniList has given the entry its id

Remote == [listed: BOOLEAN, val: Nat, at: Nat]   \* at: updatedAt

PCs == {"idle", "finish", "push", "send", "clear", "fetch", "merge",
        "remove", "delete", "mal", "drop"}

Proc == [pc: PCs, val: Nat, changed: Nat, at: Nat, listed: BOOLEAN]

Resting == [pc |-> "idle", val |-> 0, changed |-> 0, at |-> 0, listed |-> FALSE]

At(g, pc) == procs[g].pc = pc

Become(g, p) == procs' = [procs EXCEPT ![g] = p]

SyncGoto(g, pc) == procs' = [procs EXCEPT ![g].pc = pc]

\* The job goes on to the pull, pushed or not; a request is over.
AfterPush(g) == Become(g, IF g = "job" THEN [Resting EXCEPT !.pc = "fetch"] ELSE Resting)

Ask == requests < MaxRequests /\ requests' = requests + 1 /\ UNCHANGED <<siteEdits, faults>>

Fault == faults < MaxFaults /\ faults' = faults + 1 /\ UNCHANGED <<requests, siteEdits>>

SyncInit ==
    /\ local = NoEntry
    /\ remote = [listed |-> FALSE, val |-> 0, at |-> 0]
    /\ finishing \in BOOLEAN
    /\ pushing = Nobody
    /\ procs = [g \in SyncGoroutines |-> Resting]
    /\ edits = 0 /\ requests = 0 /\ siteEdits = 0 /\ faults = 0
    /\ pushed = 0 /\ sent = {} /\ gone = FALSE

------------------------------------------------------------------------------
(* Edits.                                                                  *)

\* MarkWatched's first statement, SetScore, SetListStatus, Unwatch, and
\* ApplyRemote, which records a change made on the other tracker.
Edited == [local EXCEPT !.listed = TRUE, !.val = edits + 1,
                        !.changed = edits + 1, !.dirty = TRUE]

EditEntry(h) ==
    /\ At(h, "idle") /\ Ask
    /\ local' = Edited /\ edits' = edits + 1 /\ gone' = FALSE
    /\ SyncGoto(h, "push")
    /\ UNCHANGED <<finishing, remote, pushing, pushed, sent>>

MarkWatchedLast(h) ==
    /\ finishing /\ At(h, "idle") /\ Ask
    /\ local' = Edited /\ edits' = edits + 1 /\ gone' = FALSE
    /\ SyncGoto(h, "finish")
    /\ UNCHANGED <<finishing, remote, pushing, pushed, sent>>

\* MarkWatched's second statement: COMPLETED and dirty, local_updated_at as it was.
CompleteEntry(h) ==
    /\ At(h, "finish")
    /\ IF local.listed
       THEN local' = [local EXCEPT !.val = edits + 1, !.dirty = TRUE] /\ edits' = edits + 1
       ELSE UNCHANGED <<local, edits>>
    /\ SyncGoto(h, "push")
    /\ UNCHANGED <<finishing, remote, pushing, bounds, pushed, sent, gone>>

\* An episode marked watched that already was: pushSoon all the same.
MarkWatchedAgain(h) ==
    /\ At(h, "idle") /\ local.listed /\ Ask
    /\ SyncGoto(h, "push")
    /\ UNCHANGED <<finishing, local, remote, pushing, edits, pushed, sent, gone>>

\* External: the user changes, or adds, the entry on AniList's own site.
SiteEdit ==
    /\ siteEdits < MaxSiteEdits /\ siteEdits' = siteEdits + 1
    /\ remote' = [listed |-> TRUE, val |-> edits + 1, at |-> remote.at + 1]
    /\ edits' = edits + 1 /\ sent' = sent \cup {edits + 1} /\ gone' = FALSE
    /\ UNCHANGED <<finishing, local, pushing, procs, requests, faults, pushed>>

------------------------------------------------------------------------------
(* pushLatest and push.                                                    *)

\* Variant for mutation: the lock is not taken.
ReadUnlocked(g) ==
    /\ At(g, "push")
    /\ IF local.listed /\ (local.dirty \/ g # "job")
       THEN /\ Become(g, [Resting EXCEPT !.pc = "send", !.val = local.val,
                                         !.changed = local.changed])
            /\ UNCHANGED pushing
       ELSE AfterPush(g) /\ UNCHANGED pushing
    /\ UNCHANGED <<finishing, local, remote, edits, bounds, pushed, sent, gone>>

\* The lock, and the entry as it is now. Only a request forces a clean one.
ReadEntry(g) ==
    /\ At(g, "push") /\ pushing = Nobody
    /\ IF local.listed /\ (local.dirty \/ g # "job")
       THEN /\ Become(g, [Resting EXCEPT !.pc = "send", !.val = local.val,
                                         !.changed = local.changed])
            /\ pushing' = g
       ELSE AfterPush(g) /\ UNCHANGED pushing
    /\ UNCHANGED <<finishing, local, remote, edits, bounds, pushed, sent, gone>>

\* SetProgress reaches AniList, which makes the entry if it has none.
Received(g) ==
    /\ remote' = [listed |-> TRUE, val |-> procs[g].val, at |-> remote.at + 1]
    /\ pushed' = IF pushed = Removed THEN Removed ELSE procs[g].val
    /\ sent' = sent \cup {procs[g].val}

SetProgress(g) ==
    /\ At(g, "send")
    /\ Received(g)
    /\ Become(g, [procs[g] EXCEPT !.pc = "clear", !.at = remote.at + 1])
    /\ UNCHANGED <<finishing, local, pushing, edits, bounds, gone>>

\* It fails, before AniList saw it or after: the entry stays as it is.
SetProgressFails(g) ==
    /\ At(g, "send") /\ Fault
    /\ Received(g) \/ UNCHANGED <<remote, pushed, sent>>
    /\ pushing' = Nobody
    /\ AfterPush(g)
    /\ UNCHANGED <<finishing, local, edits, gone>>

\* dirty is cleared only if the row has not changed since it was read.
ClearDirtyAt(g) ==
    local' = IF ~local.listed THEN local
             ELSE [local EXCEPT !.dirty = @ /\ local.changed > procs[g].changed,
                                !.remoteAt = procs[g].at, !.known = TRUE]

ClearDirty(g) ==
    /\ At(g, "clear")
    /\ ClearDirtyAt(g)
    /\ pushing' = Nobody
    /\ AfterPush(g)
    /\ UNCHANGED <<finishing, remote, edits, bounds, pushed, sent, gone>>

------------------------------------------------------------------------------
(* The job: Run.                                                           *)

\* Variant for mutation: the dirty entries are not looked for.
RunJobPullOnly ==
    /\ At("job", "idle")
    /\ SyncGoto("job", "fetch")
    /\ UNCHANGED <<finishing, local, remote, pushing, edits, bounds, pushed, sent, gone>>

\* DirtyEntries; nothing dirty leaves only the pull.
RunJob ==
    /\ At("job", "idle")
    /\ SyncGoto("job", IF local.dirty THEN "push" ELSE "fetch")
    /\ UNCHANGED <<finishing, local, remote, pushing, edits, bounds, pushed, sent, gone>>

\* Importer.Run: the list as AniList has it now ...
FetchList ==
    /\ At("job", "fetch")
    /\ Become("job", [Resting EXCEPT !.pc = "merge", !.listed = remote.listed,
                                     !.val = remote.val, !.at = remote.at])
    /\ UNCHANGED <<finishing, local, remote, pushing, edits, bounds, pushed, sent, gone>>

FetchFails ==
    /\ At("job", "fetch") /\ Fault
    /\ Become("job", Resting)
    /\ UNCHANGED <<finishing, local, remote, pushing, edits, pushed, sent, gone>>

\* ... and ImportList with ImportMerge, without the lock: an unpushed edit and
\* a list older than our last push are skipped.
Merged(l) ==
    IF ~l.listed THEN local
    ELSE IF ~local.listed
    THEN [listed |-> TRUE, val |-> l.val, changed |-> edits, remoteAt |-> l.at,
          dirty |-> FALSE, known |-> TRUE]
    ELSE IF ~local.dirty /\ l.at > local.remoteAt
    THEN [local EXCEPT !.val = l.val, !.remoteAt = l.at, !.dirty = FALSE, !.known = TRUE]
    ELSE local

ImportList ==
    /\ At("job", "merge")
    /\ local' = Merged(procs["job"])
    /\ Become("job", Resting)
    /\ UNCHANGED <<finishing, remote, pushing, edits, bounds, pushed, sent, gone>>

------------------------------------------------------------------------------
(* Remove: on AniList, then MyAnimeList, then here, under the push lock.   *)

Remove(h) ==
    /\ At(h, "idle") /\ Ask
    /\ SyncGoto(h, "remove")
    /\ UNCHANGED <<finishing, local, remote, pushing, edits, pushed, sent, gone>>

\* Variant for mutation: the lock is not taken.
RemoveUnlocked(h) ==
    /\ At(h, "remove")
    /\ SyncGoto(h, IF local.known THEN "delete" ELSE "mal")
    /\ UNCHANGED <<finishing, local, remote, pushing, edits, bounds, pushed, sent, gone>>

RemoveRead(h) ==
    /\ At(h, "remove") /\ pushing = Nobody
    /\ pushing' = h
    /\ SyncGoto(h, IF local.known THEN "delete" ELSE "mal")
    /\ UNCHANGED <<finishing, local, remote, edits, bounds, pushed, sent, gone>>

DeleteEntry(h) ==
    /\ At(h, "delete")
    /\ remote' = [listed |-> FALSE, val |-> 0, at |-> remote.at]
    /\ SyncGoto(h, "mal")
    /\ UNCHANGED <<finishing, local, pushing, edits, bounds, pushed, sent, gone>>

RemoveFromMAL(h) ==
    /\ At(h, "mal")
    /\ SyncGoto(h, "drop")
    /\ UNCHANGED <<finishing, local, remote, pushing, edits, bounds, pushed, sent, gone>>

\* Either tracker refuses: the error is returned and nothing more is done.
RemoveFails(h) ==
    /\ procs[h].pc \in {"delete", "mal"} /\ Fault
    /\ Become(h, Resting)
    /\ pushing' = Nobody
    /\ UNCHANGED <<finishing, local, remote, edits, pushed, sent, gone>>

RemoveListEntry(h) ==
    /\ At(h, "drop")
    /\ local' = NoEntry
    /\ gone' = ~remote.listed /\ pushed' = Removed
    /\ pushing' = Nobody
    /\ Become(h, Resting)
    /\ UNCHANGED <<finishing, remote, edits, bounds, sent>>

------------------------------------------------------------------------------

JobStep == RunJob \/ FetchList \/ ImportList

PushStep(g) == ReadEntry(g) \/ SetProgress(g) \/ ClearDirty(g)

RequestStep(h) ==
    CompleteEntry(h) \/ RemoveRead(h) \/ DeleteEntry(h) \/ RemoveFromMAL(h) \/ RemoveListEntry(h)

SyncNext ==
    \/ JobStep
    \/ \E g \in SyncGoroutines : PushStep(g) \/ SetProgressFails(g)
    \/ \E h \in Handlers :
          \/ RequestStep(h) \/ RemoveFails(h)
          \/ EditEntry(h) \/ MarkWatchedLast(h) \/ MarkWatchedAgain(h) \/ Remove(h)
    \/ FetchFails \/ SiteEdit

SyncSpec == SyncInit /\ [][SyncNext]_syncVars

\* The scheduler keeps running the job, what has begun goes on, and the lock
\* is handed to whoever waits for it (a Go mutex starves nobody).
SyncFairness ==
    /\ WF_syncVars(JobStep)
    /\ \A g \in SyncGoroutines :
         SF_syncVars(ReadEntry(g)) /\ WF_syncVars(SetProgress(g) \/ ClearDirty(g))
    /\ \A h \in Handlers : SF_syncVars(RemoveRead(h)) /\ WF_syncVars(RequestStep(h))

SyncFairSpec == SyncSpec /\ SyncFairness

------------------------------------------------------------------------------
(* Properties.                                                             *)

\* Every variable has its type.
SyncTypeOK ==
    /\ local \in Entry /\ remote \in Remote /\ finishing \in BOOLEAN
    /\ pushing \in SyncGoroutines \cup {Nobody}
    /\ procs \in [SyncGoroutines -> Proc]
    /\ edits \in Nat /\ requests \in Nat /\ siteEdits \in Nat /\ faults \in Nat
    /\ pushed \in Nat \cup {Removed} /\ sent \subseteq Nat /\ gone \in BOOLEAN

\* Sync.pushing: "One push at a time, or the job's older value can land last".
\* While all edits are made here and the entry has not been removed, what pushes
\* write to AniList only ever gets newer. (After a removal it may not: a first push
\* whose answer was lost leaves the entry's id unknown, so Remove leaves AniList's
\* entry in place, and a list fetched before the removal brings the older value back.)
PushesInOrder ==
    [][siteEdits = 0 /\ pushed' # Removed => pushed' >= pushed]_syncVars

\* Remove: "a push already in flight can't recreate the entry after". An entry
\* taken off everywhere stays off AniList until someone edits it again.
RemovedStaysOffSite == gone => ~remote.listed \/ local.listed

\* ClearDirtyAt and the merge's guard: an edit AniList has never held is not
\* thrown away by a pull, however push, pull and edits overlap. (A show that
\* may reach its last episode is excepted: see CompletionSurvives.)
EditSurvivesPull ==
    [][~finishing /\ At("job", "merge") /\ ~At("job", "merge")'
            /\ local.listed /\ local'.val # local.val
        => local.val \in sent]_syncVars

\* What an entry's steps keep: pushes in their order, edits against pulls.
SyncKeeps == PushesInOrder /\ EditSurvivesPull

\* The entry and the site at every moment.
SyncSafe == SyncTypeOK /\ RemovedStaysOffSite

\* Every edit is pushed in the end: the entry does not stay dirty.
DirtyDrains == <>[]~local.dirty

AtRest == pushing = Nobody /\ \A g \in SyncGoroutines : At(g, "idle")

------------------------------------------------------------------------------
(* What the comments and tests of the code say and the code does not do.   *)

\* TestClearDirtyKeepsAnEditMadeDuringThePush: "An edit that landed meanwhile
\* must stay dirty, or it is never sent". With nothing under way, an edit
\* AniList has never held is still dirty.
CompletionSurvives ==
    AtRest /\ local.listed /\ ~local.dirty => local.val \in sent
==============================================================================
