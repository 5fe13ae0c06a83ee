---------------------------- MODULE LocalLibrary ----------------------------
(* The library of files on disk (library/scan.go, store/local.go, server/local.go): one scan at
   a time walks the configured folders, records what it finds and flags what it no longer
   sees, while folders are added and taken out, files are assigned by hand, drives come and go
   and a play looks for its file.  Rows are kept under a root's real path; a root given as a
   link is compared by the link's own name where the code does so. *)
EXTENDS Integers, FiniteSets

CONSTANTS LfFiles, LfRoots,
          LfHome,     \* file |-> the root it lies under
          LfLinked,   \* roots given as a link or junction
          LfEvents    \* bound on changes of the disk and failures
ASSUME LfAssumption == LfHome \in [LfFiles -> LfRoots]

VARIABLES lfRoots,    \* library.paths
          lfDisk,     \* files there are
          lfDrive,    \* root |-> "in", "gone", or "empty": a mount point with nothing mounted
          lfLocked,   \* files in a folder that cannot be read now
          lfRow,      \* local_file: file |-> row
          lfScan,     \* the scan
          lfHand,     \* file |-> show last assigned by hand to the row it has, or Nothing
          lfGone,     \* files that were away, or whose root was, since a scan last recorded them
          lfCrossed,  \* the folders changed while a scan was at work
          lfEvents
lfVars == <<lfRoots, lfDisk, lfDrive, lfLocked, lfRow, lfScan, lfHand, lfGone, lfCrossed, lfEvents>>

Nothing == -1
Guesses == {0, 1}   \* what identify makes of a name: no show, or one
ByHand == {0, 2}    \* what a person makes of it
NoFile == [on |-> FALSE, show |-> 0, hand |-> FALSE, missing |-> FALSE]
NoScan == [pc |-> "idle", roots |-> {}, todo |-> {}, found |-> {}, walked |-> {}, lost |-> {}]
Under(R) == {f \in LfFiles : LfHome[f] \in R}
LfInit ==
  /\ lfRoots = LfRoots /\ lfDisk = LfFiles /\ lfDrive = [r \in LfRoots |-> "in"] /\ lfLocked = {}
  /\ lfRow = [f \in LfFiles |-> NoFile] /\ lfScan = NoScan /\ lfHand = [f \in LfFiles |-> Nothing]
  /\ lfGone = {} /\ lfCrossed = FALSE /\ lfEvents = 0
LfUse == lfEvents < LfEvents /\ lfEvents' = lfEvents + 1
Flagged(F) == [f \in LfFiles |-> IF f \in F /\ lfRow[f].on THEN [lfRow[f] EXCEPT !.missing = TRUE] ELSE lfRow[f]]

Away(f) == f \notin lfDisk \/ lfDrive[LfHome[f]] # "in"

(* localScan: one at a time, with the folders of that moment. *)
ScanStarts ==
  /\ lfScan.pc = "idle" /\ lfRoots # {}
  /\ lfScan' = [NoScan EXCEPT !.pc = "walk", !.roots = lfRoots, !.todo = lfRoots]
  /\ UNCHANGED <<lfRoots, lfDisk, lfDrive, lfLocked, lfRow, lfHand, lfGone, lfCrossed, lfEvents>>
(* walk: a root that cannot be read, or that has a folder which cannot, is not swept later.  A
   link that leads nowhere counts as an empty root, and is known by its own name from then on. *)
WalkRoot(r) ==
  /\ lfScan.pc = "walk" /\ r \in lfScan.todo
  /\ LET held == IF lfDrive[r] = "in" THEN Under({r}) \cap lfDisk ELSE {}
         dangling == r \in LfLinked /\ lfDrive[r] = "gone"
         clean == dangling \/ (lfDrive[r] # "gone" /\ held \cap lfLocked = {}) IN
     lfScan' = [lfScan EXCEPT !.todo = @ \ {r}, !.found = @ \cup (held \ lfLocked),
                              !.walked = IF clean THEN @ \cup {r} ELSE @,
                              !.lost = IF dangling THEN @ \cup {r} ELSE @]
  /\ UNCHANGED <<lfRoots, lfDisk, lfDrive, lfLocked, lfRow, lfHand, lfGone, lfCrossed, lfEvents>>
(* identify and SaveLocalFiles: a hand assignment outlives the scan's guess. *)
Saved(f, guess) ==
  IF lfRow[f].hand THEN [lfRow[f] EXCEPT !.missing = FALSE]
  ELSE [on |-> TRUE, show |-> guess, hand |-> FALSE, missing |-> FALSE]
SaveLocalFiles ==
  /\ lfScan.pc = "walk" /\ lfScan.todo = {}
  /\ \E guess \in [LfFiles -> Guesses] :
       lfRow' = [f \in LfFiles |-> IF f \in lfScan.found THEN Saved(f, guess[f]) ELSE lfRow[f]]
  /\ lfScan' = [lfScan EXCEPT !.pc = "sweep"] /\ lfGone' = lfGone \ {f \in lfScan.found : ~Away(f)}
  /\ UNCHANGED <<lfRoots, lfDisk, lfDrive, lfLocked, lfHand, lfCrossed, lfEvents>>
(* SweepLocal: rows of an older scan under the roots that walked. *)
SweepLocal ==
  /\ lfScan.pc = "sweep"
  /\ lfRow' = Flagged(Under(lfScan.walked \ lfScan.lost) \ lfScan.found)
  /\ lfScan' = [lfScan EXCEPT !.pc = "outside"]
  /\ UNCHANGED <<lfRoots, lfDisk, lfDrive, lfLocked, lfHand, lfGone, lfCrossed, lfEvents>>
(* SweepOutside, by the scan: with the folders it began with. *)
SweepOutside ==
  /\ lfScan.pc = "outside"
  /\ lfRow' = Flagged(Under(LfRoots \ (lfScan.roots \ lfScan.lost)))
  /\ lfScan' = NoScan /\ lfCrossed' = (lfScan.roots # lfRoots)
  /\ UNCHANGED <<lfRoots, lfDisk, lfDrive, lfLocked, lfHand, lfGone, lfEvents>>
ScanFails ==
  /\ lfScan.pc # "idle" /\ LfUse
  /\ lfScan' = NoScan
  /\ UNCHANGED <<lfRoots, lfDisk, lfDrive, lfLocked, lfRow, lfHand, lfGone, lfCrossed>>

(* setLibraryPaths: only a new folder has to be readable; what lies under none of the folders,
   by the names they were given with, is flagged at once. *)
SetLibraryPaths(R) ==
  /\ R # lfRoots /\ \A r \in R \ lfRoots : lfDrive[r] # "gone"
  /\ LfUse
  /\ lfRoots' = R
  /\ lfRow' = Flagged(Under(LfRoots \ (R \ LfLinked)))
  /\ lfGone' = lfGone \cup Under(LfRoots \ (R \cap lfRoots)) /\ lfCrossed' = (lfCrossed \/ lfScan.pc # "idle")
  /\ UNCHANGED <<lfDisk, lfDrive, lfLocked, lfScan, lfHand>>
(* forgetMissing drops the flagged rows, hand assignments included. *)
ForgetMissing ==
  /\ \E f \in LfFiles : lfRow[f].on /\ lfRow[f].missing
  /\ lfRow' = [f \in LfFiles |-> IF lfRow[f].missing THEN NoFile ELSE lfRow[f]]
  /\ lfHand' = [f \in LfFiles |-> IF lfRow[f].missing THEN Nothing ELSE lfHand[f]]
  /\ UNCHANGED <<lfRoots, lfDisk, lfDrive, lfLocked, lfScan, lfGone, lfCrossed, lfEvents>>
AssignLocalFile(f, show) ==
  /\ lfRow[f].on
  /\ lfRow' = [lfRow EXCEPT ![f].show = show, ![f].hand = TRUE] /\ lfHand' = [lfHand EXCEPT ![f] = show]
  /\ UNCHANGED <<lfRoots, lfDisk, lfDrive, lfLocked, lfScan, lfGone, lfCrossed, lfEvents>>
(* localCopy: a play finds the file gone and flags it. *)
LocalCopy(f) ==
  /\ lfRow[f].on /\ ~lfRow[f].missing /\ lfRow[f].show # 0
  /\ Away(f)
  /\ lfRow' = Flagged({f}) /\ lfGone' = lfGone \cup {f}
  /\ UNCHANGED <<lfRoots, lfDisk, lfDrive, lfLocked, lfScan, lfHand, lfCrossed, lfEvents>>

(* The disk: a file comes or goes, a drive is unplugged or comes back, a folder is locked. *)
FileChanges(f) ==
  /\ LfUse /\ lfDisk' = IF f \in lfDisk THEN lfDisk \ {f} ELSE lfDisk \cup {f}
  /\ lfGone' = lfGone \cup {f}
  /\ UNCHANGED <<lfRoots, lfDrive, lfLocked, lfRow, lfScan, lfHand, lfCrossed>>
DriveChanges(r, how) ==
  /\ how # lfDrive[r] /\ LfUse /\ lfDrive' = [lfDrive EXCEPT ![r] = how]
  /\ lfGone' = IF how = "empty" THEN lfGone \cup Under({r}) ELSE lfGone
  /\ UNCHANGED <<lfRoots, lfDisk, lfLocked, lfRow, lfScan, lfHand, lfCrossed>>
FolderLocks(f) ==
  /\ LfUse /\ lfLocked' = IF f \in lfLocked THEN {} ELSE {f}
  /\ UNCHANGED <<lfRoots, lfDisk, lfDrive, lfRow, lfScan, lfHand, lfGone, lfCrossed>>

LfNext ==
  \/ ScanStarts \/ SaveLocalFiles \/ SweepLocal \/ SweepOutside \/ ScanFails \/ ForgetMissing
  \/ \E r \in LfRoots : WalkRoot(r) \/ \E how \in {"in", "gone", "empty"} : DriveChanges(r, how)
  \/ \E R \in SUBSET LfRoots : SetLibraryPaths(R)
  \/ \E f \in LfFiles : LocalCopy(f) \/ FileChanges(f) \/ FolderLocks(f) \/ \E s \in ByHand : AssignLocalFile(f, s)
LfSpec == LfInit /\ [][LfNext]_lfVars

-----------------------------------------------------------------------------
(* A file is flagged missing only if it was away: a drive that is unplugged, or a folder that
   cannot be read, keeps its rows through every scan.  Roots given as links are the exception:
   their rows are compared with the wrong name (server/local.go, scan.go). *)
MissingWasGone == \A f \in LfFiles :
  lfRow[f].on /\ lfRow[f].missing /\ LfHome[f] \notin LfLinked => f \in lfGone \/ LfHome[f] \notin lfRoots
(* What a person assigned stays assigned through every scan, until the row is forgotten. *)
HandOutlives == \A f \in LfFiles : lfHand[f] # Nothing => lfRow[f].hand /\ lfRow[f].show = lfHand[f]
(* A folder taken out takes its files with it, unless a scan that began with it was at work. *)
TakenOutIsRetired == lfScan.pc = "idle" /\ ~lfCrossed =>
  \A f \in LfFiles : lfRow[f].on /\ LfHome[f] \notin lfRoots => lfRow[f].missing
LocalSafe == MissingWasGone /\ HandOutlives /\ TakenOutIsRetired
=============================================================================
