----------------------------- MODULE Favourites -----------------------------
(* Favourites in step with AniList (library/sync.go favourites, store/prefs.go, anilist/
   favourites.go): the site can only be told to toggle, so a run reads its list, toggles what
   differs from the edits made here, notes what it holds, and takes over the rest.  One show
   stands for all: rows are settled one by one.  Edits here, edits on the site, lost answers
   and runs that break off fall between any two of the steps. *)
EXTENDS Integers

CONSTANTS FvEdits, FvSiteEdits, FvFaults   \* bounds

VARIABLES fvRow,      \* user_anime: favourite, favourite_synced, favourite_dirty
          fvSite,     \* on the site's list
          fvRun,      \* the run
          fvWish,     \* what the last edit, here or there, made it
          fvLost,     \* a toggle was applied and its answer lost, or its mark never written
          fvCrossed,  \* both sides were edited with no run between
          fvUsed
fvVars == <<fvRow, fvSite, fvRun, fvWish, fvLost, fvCrossed, fvUsed>>

NoRun == [pc |-> "idle", remote |-> FALSE, has |-> FALSE, want |-> FALSE, clean |-> FALSE, fav |-> FALSE]
FvInit ==
  /\ fvRow = [fav |-> FALSE, synced |-> FALSE, dirty |-> FALSE] /\ fvSite = FALSE /\ fvRun = NoRun
  /\ fvWish = FALSE /\ fvLost = FALSE /\ fvCrossed = FALSE
  /\ fvUsed = [edits |-> 0, site |-> 0, faults |-> 0]
FvSpend(k, bound) == fvUsed[k] < bound /\ fvUsed' = [fvUsed EXCEPT ![k] = @ + 1]

(* PatchBookmark, SetBookmark: dirty is what differs from what the site was last known to hold. *)
Edit ==
  /\ FvSpend("edits", FvEdits)
  /\ fvRow' = [fvRow EXCEPT !.fav = ~@, !.dirty = ~fvRow.fav # fvRow.synced] /\ fvWish' = ~fvRow.fav
  /\ fvCrossed' = (fvCrossed \/ (fvSite # fvRow.synced /\ fvRun.pc # "mark"))
  /\ UNCHANGED <<fvSite, fvRun, fvLost>>
SiteEdit ==
  /\ FvSpend("site", FvSiteEdits)
  /\ fvSite' = ~fvSite /\ fvWish' = ~fvSite /\ fvCrossed' = (fvCrossed \/ fvRun.pc # "idle" \/ fvRow.dirty)
  /\ UNCHANGED <<fvRow, fvRun, fvLost>>

(* favourites: the site's list, then the edits it has not been told of. *)
ReadSite ==
  /\ fvRun.pc = "idle"
  /\ fvRun' = [NoRun EXCEPT !.pc = "dirty", !.remote = fvSite]
  /\ UNCHANGED <<fvRow, fvSite, fvWish, fvLost, fvCrossed, fvUsed>>
DirtyFavourites ==
  /\ fvRun.pc = "dirty"
  /\ fvRun' = [fvRun EXCEPT !.has = fvRow.dirty, !.want = fvRow.fav,
                            !.pc = IF ~fvRow.dirty THEN "settled" ELSE IF fvRun.remote = fvRow.fav THEN "mark" ELSE "toggle"]
  /\ UNCHANGED <<fvRow, fvSite, fvWish, fvLost, fvCrossed, fvUsed>>
(* ToggleFavourite flips whatever the site holds now; an error leaves the edit for another run. *)
ToggleFavourite ==
  /\ fvRun.pc = "toggle"
  /\ fvSite' = ~fvSite /\ fvRun' = [fvRun EXCEPT !.pc = "mark", !.remote = fvRun.want]
  /\ UNCHANGED <<fvRow, fvWish, fvLost, fvCrossed, fvUsed>>
ToggleFails(applied) ==
  /\ fvRun.pc = "toggle" /\ FvSpend("faults", FvFaults)
  /\ fvSite' = (fvSite # applied) /\ fvLost' = (fvLost \/ applied) /\ fvRun' = [fvRun EXCEPT !.pc = "settled"]
  /\ UNCHANGED <<fvRow, fvWish, fvCrossed>>
(* MarkFavouriteSynced: an edit made while the push was out stays dirty. *)
MarkFavouriteSynced ==
  /\ fvRun.pc = "mark"
  /\ fvRow' = [fvRow EXCEPT !.synced = fvRun.want, !.dirty = fvRow.fav # fvRun.want]
  /\ fvRun' = [fvRun EXCEPT !.pc = "settled"]
  /\ UNCHANGED <<fvSite, fvWish, fvLost, fvCrossed, fvUsed>>
(* ApplyRemoteFavourites: the rows with nothing to tell are read, and those that differ from
   the site's list written, if they still have nothing to tell. *)
ReadSettled ==
  /\ fvRun.pc = "settled"
  /\ fvRun' = [fvRun EXCEPT !.pc = "apply", !.clean = ~fvRow.dirty, !.fav = fvRow.fav]
  /\ UNCHANGED <<fvRow, fvSite, fvWish, fvLost, fvCrossed, fvUsed>>
ApplyRemote ==
  /\ fvRun.pc = "apply"
  /\ LET held == fvRun.clean /\ fvRun.fav
         takes == fvRun.remote /\ ~held
         drops == held /\ ~fvRun.remote IN
     fvRow' = IF (takes \/ drops) /\ ~fvRow.dirty
              THEN [fvRow EXCEPT !.fav = fvRun.remote, !.synced = fvRun.remote] ELSE fvRow
  /\ fvRun' = NoRun
  /\ UNCHANGED <<fvSite, fvWish, fvLost, fvCrossed, fvUsed>>
(* The run breaks off. *)
RunBreaks ==
  /\ fvRun.pc # "idle" /\ FvSpend("faults", FvFaults)
  /\ fvLost' = (fvLost \/ fvRun.pc = "mark") /\ fvRun' = NoRun
  /\ UNCHANGED <<fvRow, fvSite, fvWish, fvCrossed>>

FvNext ==
  \/ Edit \/ SiteEdit \/ ReadSite \/ DirtyFavourites \/ ToggleFavourite \/ MarkFavouriteSynced
  \/ ReadSettled \/ ApplyRemote \/ RunBreaks
  \/ \E applied \in BOOLEAN : ToggleFails(applied)
FvSpec == FvInit /\ [][FvNext]_fvVars

-----------------------------------------------------------------------------
(* The last word stands: nothing a run does, in whatever order with the edits, undoes an edit
   made here.  A lost answer followed by an undo (the row looks as if nothing had been told),
   and edits on both sides with no run between (a toggle may then flip the wrong way), are the
   exceptions. *)
LastEditStands == ~fvLost /\ ~fvCrossed /\ (fvRow.dirty \/ fvSite = fvRow.fav \/ fvSite = fvRow.synced) => fvRow.fav = fvWish
(* A row with nothing to tell knows what the site holds, or the site was edited since. *)
CleanIsKnown == fvRow.dirty = (fvRow.fav # fvRow.synced)
FavouritesSafe == LastEditStands /\ CleanIsKnown
=============================================================================
