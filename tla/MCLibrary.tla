------------------------------ MODULE MCLibrary ------------------------------
(* Safety of the components of the library that share no state in
   their models: a behaviour picks one of them and runs it alone. *)
EXTENDS EpisodeFetch, CacheSweep, TrackerSync, Updater, Access, ReleaseChoice, TLC

VARIABLE part
libraryVars == <<part, fetchVars, cacheVars, syncVars, upVars, accVars, choiceVars>>

(* Two episodes in one torrent and a third in its own. *)
TwoPacks == [f \in CacheFiles |-> IF f <= 2 THEN "pack" ELSE "single"]

(* Candidates of a search that differ in each of the keys the ranking weighs. *)
Cand(tier, res, sea, seeders, conf, batch, lang, hevc, wrong, film) ==
  [tier |-> tier, res |-> res, sea |-> sea, seeders |-> seeders, conf |-> conf, batch |-> batch,
   lang |-> lang, hevc |-> hevc, wrong |-> wrong, film |-> film]
SomeFound ==
  {Cand(3, "1080p", "no", 3, TRUE, FALSE, "", FALSE, FALSE, FALSE),
   Cand(4, "720p", "group", 100, TRUE, FALSE, "ours", FALSE, FALSE, FALSE),
   Cand(1, "1080p", "best", 100, TRUE, TRUE, "", TRUE, FALSE, FALSE),
   Cand(0, "", "no", 100, FALSE, FALSE, "", FALSE, FALSE, FALSE),
   Cand(2, "1080p", "no", -1, TRUE, FALSE, "other", TRUE, FALSE, FALSE),
   Cand(2, "1080p", "best", 0, TRUE, FALSE, "ours", FALSE, FALSE, FALSE),
   Cand(1, "1080p", "no", 100, TRUE, FALSE, "ours", TRUE, TRUE, FALSE),
   Cand(3, "1080p", "no", 3, TRUE, FALSE, "", FALSE, FALSE, TRUE),
   Cand(0, "480p", "no", 100, TRUE, TRUE, "", FALSE, FALSE, TRUE),
   Cand(0, "480p", "no", 100, FALSE, FALSE, "", FALSE, FALSE, TRUE)}

(* Nothing tells the releases of EpisodeFetch apart. *)
LibrarySymmetry == Permutations(Releases)

LibraryInit ==
  /\ part \in {"fetch", "cache", "sync", "update", "access", "choice"}
  /\ FetchInit /\ CacheInit /\ SyncInit /\ UpInit /\ AccInit /\ ChoiceInit
  /\ part # "sync" => ~finishing

LibraryNext ==
  /\ part' = part
  /\ \/ part = "fetch" /\ FetchNext /\ UNCHANGED <<cacheVars, syncVars, upVars, accVars, choiceVars>>
     \/ part = "cache" /\ CacheNext /\ UNCHANGED <<fetchVars, syncVars, upVars, accVars, choiceVars>>
     \/ part = "sync" /\ SyncNext /\ UNCHANGED <<fetchVars, cacheVars, upVars, accVars, choiceVars>>
     \/ part = "update" /\ UpNext /\ UNCHANGED <<fetchVars, cacheVars, syncVars, accVars, choiceVars>>
     \/ part = "access" /\ AccNext /\ UNCHANGED <<fetchVars, cacheVars, syncVars, upVars, choiceVars>>
     \/ part = "choice" /\ ChoiceNext /\ UNCHANGED <<fetchVars, cacheVars, syncVars, upVars, accVars>>

LibrarySpec == LibraryInit /\ [][LibraryNext]_libraryVars
=============================================================================
