------------------------------ MODULE MCMedia ------------------------------
(* Safety of the parts between the swarm and the page: streams reading a torrent, the record of
   what was watched, the list of episodes and the sources it is made from, the trackers' copies
   of the list and the clients they are reached with.  They share no state in their models: a
   behaviour picks one and runs it alone. *)
EXTENDS ReaderWindow, WatchState, EpisodeCatalogue, MalSync,
        FranchiseGraph, CorpusIngest, AniListClient, LocalLibrary, ReleaseWatch, Favourites

MCLfHome == <<1, 2>>
MCRwCovers == <<{1}, {1}, {1, 2}>>

VARIABLE part
mediaVars == <<part, rdVars, watchVars, catVars, malVars, tokenVars, frVars, cgVars, alVars,
               lfVars, rwVars, fvVars>>

MediaInit ==
  /\ part \in {"readers", "watch", "catalogue", "mal", "token", "franchise", "corpus", "anilist",
              "local", "news", "favourites"}
  /\ RdInit /\ WatchInit /\ CatInit /\ MalInit /\ TokenInit /\ FrInit /\ CgInit /\ AlInit
  /\ LfInit /\ RwInit /\ FvInit
  /\ part # "readers" => selected
  /\ part # "watch" => sched.next = 0
  /\ part # "catalogue" => airingNow
  /\ part # "mal" => oneId
  /\ part # "anilist" => alToken = 0

MediaNext ==
  /\ part' = part
  /\ \/ part = "readers" /\ RdNext
        /\ UNCHANGED <<watchVars, catVars, malVars, tokenVars, frVars, cgVars, alVars, lfVars, rwVars, fvVars>>
     \/ part = "watch" /\ WatchNext
        /\ UNCHANGED <<rdVars, catVars, malVars, tokenVars, frVars, cgVars, alVars, lfVars, rwVars, fvVars>>
     \/ part = "catalogue" /\ CatNext
        /\ UNCHANGED <<rdVars, watchVars, malVars, tokenVars, frVars, cgVars, alVars, lfVars, rwVars, fvVars>>
     \/ part = "mal" /\ MalNext
        /\ UNCHANGED <<rdVars, watchVars, catVars, tokenVars, frVars, cgVars, alVars, lfVars, rwVars, fvVars>>
     \/ part = "token" /\ TokenNext
        /\ UNCHANGED <<rdVars, watchVars, catVars, malVars, frVars, cgVars, alVars, lfVars, rwVars, fvVars>>
     \/ part = "franchise" /\ FrNext
        /\ UNCHANGED <<rdVars, watchVars, catVars, malVars, tokenVars, cgVars, alVars, lfVars, rwVars, fvVars>>
     \/ part = "corpus" /\ CgNext
        /\ UNCHANGED <<rdVars, watchVars, catVars, malVars, tokenVars, frVars, alVars, lfVars, rwVars, fvVars>>
     \/ part = "anilist" /\ AlNext
        /\ UNCHANGED <<rdVars, watchVars, catVars, malVars, tokenVars, frVars, cgVars, lfVars, rwVars, fvVars>>
     \/ part = "local" /\ LfNext
        /\ UNCHANGED <<rdVars, watchVars, catVars, malVars, tokenVars, frVars, cgVars, alVars, rwVars, fvVars>>
     \/ part = "news" /\ RwNext
        /\ UNCHANGED <<rdVars, watchVars, catVars, malVars, tokenVars, frVars, cgVars, alVars, lfVars, fvVars>>
     \/ part = "favourites" /\ FvNext
        /\ UNCHANGED <<rdVars, watchVars, catVars, malVars, tokenVars, frVars, cgVars, alVars, lfVars, rwVars>>

MediaSpec == MediaInit /\ [][MediaNext]_mediaVars

(* Each component's invariant, of the component that runs.  On the way to the player: which
   pieces are wanted is what the streams and the choice make it (reader.go, torrent.go). *)
StreamSafe == part = "readers" => RdSafe

(* What is written down: progress and resume positions (store/playback.go), the list of
   episodes (store/episodes.go), MyAnimeList's copy (library/mal.go), its token (mal/auth.go),
   a show's seasons (store/franchise.go), the search corpus (store/corpus.go), AniList's answers
   (anilist/client.go), local files (store/local.go), announced releases (library/watcher.go) and
   favourites (library/sync.go). *)
RecordSafe ==
  /\ part = "watch" => WatchSafe
  /\ part = "catalogue" => CatalogueSafe
  /\ part = "mal" => MalAgrees
  /\ part = "token" => TokenSafe
  /\ part = "franchise" => FranchiseSafe
  /\ part = "corpus" => CorpusSafe
  /\ part = "anilist" => AniListSafe
  /\ part = "local" => LocalSafe
  /\ part = "news" => WatchNews
  /\ part = "favourites" => FavouritesSafe

(* Steps: an import spares what was edited here, a push never takes the site back
   (library/mal.go). *)
MediaKeeps == MalKeeps
=============================================================================
