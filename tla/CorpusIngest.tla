----------------------------- MODULE CorpusIngest -----------------------------
(* The corpus of titles and the matcher's index over it (library/corpus.go, store/corpus.go,
   library/remember.go, server/corpus.go, cmd/kuro/main.go): a daily job loads the frozen seed
   once, compares the list of ids that exist with what is known and asks AniList for the rest;
   pages add every show they see; shows an answer lacks are given up; and the index is built
   again after each, by the job or after a burst of new titles. *)
EXTENDS Integers, FiniteSets

CONSTANTS CgShows,
          CgSeed,     \* the shows of the frozen database
          CgBatch,    \* batchSize
          CgEvents    \* bound on failures and on changes of the site

VARIABLES cgSite,     \* shows AniList returns
          cgCorpus,   \* corpus_anime with its titles
          cgDead,     \* dead_anime
          cgIndex,    \* indexHolder: the shows of the index in use
          cgFresh,    \* sources whose corpus_source row is young enough
          cgJob,      \* the corpus job, or the refresh asked for by hand: one at a time
          cgPage,     \* the goroutine of a page's Remember
          cgAsk,      \* a page or the airing refresh hydrating one show
          cgBuild,    \* builder |-> index being built
          cgPending,  \* debounce: a build is due
          cgCovered,  \* what the last finished discovery had to cover
          cgTook,     \* the site once took a show away
          cgLost,     \* two builds ran at once, or one step of an update failed
          cgEvents
cgVars == <<cgSite, cgCorpus, cgDead, cgIndex, cgFresh, cgJob, cgPage, cgAsk, cgBuild, cgPending,
            cgCovered, cgTook, cgLost, cgEvents>>

NoJob == [pc |-> "idle", hand |-> FALSE, err |-> FALSE, disc |-> FALSE, live |-> {}, left |-> {}, chunk |-> {}, got |-> {},
          part |-> FALSE, hidden |-> {}, new |-> FALSE]
NoAsk == [pc |-> "idle", show |-> 0, part |-> FALSE]
NoBuild == [on |-> FALSE, ix |-> {}]
Builders == {"job", "burst", "start"}
CgInit ==
  /\ cgSite = CgShows /\ cgCorpus = {} /\ cgDead = {} /\ cgIndex = {} /\ cgFresh = {}
  /\ cgJob = NoJob /\ cgPage = [pc |-> "idle", show |-> 0, added |-> FALSE] /\ cgAsk = NoAsk
  /\ cgBuild = [b \in Builders |-> [on |-> b = "start", ix |-> {}]] /\ cgPending = FALSE /\ cgCovered = {}
  /\ cgTook = FALSE /\ cgLost = FALSE /\ cgEvents = 0
CgUse == cgEvents < CgEvents /\ cgEvents' = cgEvents + 1

(* Run, for the job or for a forced refresh asked for by hand: which sources are due; a seed that
   fails does not cost the discovery. *)
RunStarts(force) ==
  /\ cgJob.pc = "idle"
  /\ cgJob' = [NoJob EXCEPT !.pc = IF force \/ "manami" \notin cgFresh THEN "seed" ELSE "list",
                            !.hand = force, !.disc = force \/ "animeapi" \notin cgFresh,
                            !.left = CgSeed]
  /\ UNCHANGED <<cgSite, cgCorpus, cgDead, cgIndex, cgFresh, cgPage, cgAsk, cgBuild, cgPending,
                 cgCovered, cgTook, cgLost, cgEvents>>
(* seed: a batch of the stream is written, whatever came before it. *)
SeedBatch ==
  /\ cgJob.pc = "seed"
  /\ \E S \in SUBSET cgJob.left :
       /\ Cardinality(S) <= CgBatch /\ (S = {} <=> cgJob.left = {})
       /\ cgCorpus' = cgCorpus \cup S
       /\ cgFresh' = IF S = {} THEN cgFresh \cup {"manami"} ELSE cgFresh
       /\ cgJob' = [cgJob EXCEPT !.left = @ \ S, !.new = @ \/ S # {},
                                 !.pc = IF S = {} THEN "list" ELSE "seed"]
  /\ UNCHANGED <<cgSite, cgDead, cgIndex, cgPage, cgAsk, cgBuild, cgPending, cgCovered, cgTook,
                 cgLost, cgEvents>>
(* What was streamed counts as seeded even when its batch was not written. *)
SeedFails ==
  /\ cgJob.pc = "seed" /\ CgUse
  /\ \E read \in BOOLEAN : cgJob' = [cgJob EXCEPT !.pc = "list", !.err = TRUE, !.new = @ \/ read]
  /\ UNCHANGED <<cgSite, cgCorpus, cgDead, cgIndex, cgFresh, cgPage, cgAsk, cgBuild, cgPending,
                 cgCovered, cgTook, cgLost>>
(* discover: AnimeAPI's list, less KnownIDs. *)
Discover ==
  /\ cgJob.pc = "list"
  /\ cgJob' = IF ~cgJob.disc THEN [cgJob EXCEPT !.pc = "after"]
              ELSE [cgJob EXCEPT !.pc = "ask", !.live = cgSite, !.hidden = {},
                                 !.left = cgSite \ (cgCorpus \cup cgDead)]
  /\ UNCHANGED <<cgSite, cgCorpus, cgDead, cgIndex, cgFresh, cgPage, cgAsk, cgBuild, cgPending,
                 cgCovered, cgTook, cgLost, cgEvents>>
(* MediaByIDs for one chunk: what the site has now, or part of it when the second, anonymous
   question failed (ErrIncomplete). *)
AskTitles ==
  /\ cgJob.pc = "ask" /\ cgJob.left # {}
  /\ \E S \in SUBSET cgJob.left, part \in BOOLEAN :
       /\ IF part THEN CgUse ELSE cgEvents' = cgEvents
       /\ Cardinality(S) = IF Cardinality(cgJob.left) < CgBatch THEN Cardinality(cgJob.left) ELSE CgBatch
       /\ \E got \in IF part THEN SUBSET (S \cap cgSite) ELSE {S \cap cgSite} :
            cgJob' = [cgJob EXCEPT !.pc = "write", !.chunk = S, !.got = got, !.part = part,
                                   !.left = @ \ S]
  /\ UNCHANGED <<cgSite, cgCorpus, cgDead, cgIndex, cgFresh, cgPage, cgAsk, cgBuild, cgPending,
                 cgCovered, cgTook, cgLost>>
(* fetchTitles: SaveCorpus, then MarkDead for what a whole answer lacked. *)
SaveTitles ==
  /\ cgJob.pc = "write"
  /\ cgCorpus' = cgCorpus \cup cgJob.got
  /\ cgDead' = IF cgJob.part THEN cgDead ELSE cgDead \cup (cgJob.chunk \ cgJob.got)
  /\ cgJob' = [cgJob EXCEPT !.pc = "ask", !.new = @ \/ cgJob.got # {},
                            !.hidden = IF cgJob.part THEN @ \cup (cgJob.chunk \ cgJob.got) ELSE @]
  /\ UNCHANGED <<cgSite, cgIndex, cgFresh, cgPage, cgAsk, cgBuild, cgPending, cgCovered, cgTook,
                 cgLost, cgEvents>>
(* MarkSource, once all of it is fetched. *)
MarkSource ==
  /\ cgJob.pc = "ask" /\ cgJob.left = {}
  /\ cgFresh' = cgFresh \cup {"animeapi"} /\ cgCovered' = cgJob.live \ cgJob.hidden
  /\ cgJob' = [cgJob EXCEPT !.pc = "after"]
  /\ UNCHANGED <<cgSite, cgCorpus, cgDead, cgIndex, cgPage, cgAsk, cgBuild, cgPending, cgTook,
                 cgLost, cgEvents>>
FetchFails ==
  /\ cgJob.pc \in {"list", "ask", "write"} /\ CgUse
  /\ cgJob' = [cgJob EXCEPT !.pc = "after", !.err = TRUE]
  /\ UNCHANGED <<cgSite, cgCorpus, cgDead, cgIndex, cgFresh, cgPage, cgAsk, cgBuild, cgPending,
                 cgCovered, cgTook, cgLost>>

(* RebuildIndex: BuildIndex reads the corpus, and the holder is swapped when it is done. *)
Beside(b) == \E c \in Builders \ {b} : cgBuild[c].on
BuildReads(b) == cgBuild' = [cgBuild EXCEPT ![b] = [on |-> TRUE, ix |-> cgCorpus]]
(* The end of the run: one that failed half way still indexes what it saved, and one asked for
   by hand indexes anyway when nothing failed. *)
JobBuilds ==
  /\ cgJob.pc = "after"
  /\ IF cgJob.new \/ (cgJob.hand /\ ~cgJob.err) THEN cgJob' = [NoJob EXCEPT !.pc = "build"] /\ BuildReads("job")
     ELSE cgJob' = NoJob /\ cgBuild' = cgBuild
  /\ cgLost' = (cgLost \/ Beside("job"))
  /\ UNCHANGED <<cgSite, cgCorpus, cgDead, cgIndex, cgFresh, cgPage, cgAsk, cgPending, cgCovered,
                 cgTook, cgEvents>>
(* debounce: the flag is lowered before the build starts, so what comes during it is built again. *)
BurstBuilds ==
  /\ cgPending /\ ~cgBuild["burst"].on
  /\ cgPending' = FALSE /\ BuildReads("burst")
  /\ cgLost' = (cgLost \/ Beside("burst"))
  /\ UNCHANGED <<cgSite, cgCorpus, cgDead, cgIndex, cgFresh, cgJob, cgPage, cgAsk, cgCovered, cgTook,
                 cgEvents>>
SetIndex(b) ==
  /\ cgBuild[b].on
  /\ cgIndex' = cgBuild[b].ix /\ cgBuild' = [cgBuild EXCEPT ![b] = NoBuild]
  /\ cgJob' = IF b = "job" THEN NoJob ELSE cgJob
  /\ UNCHANGED <<cgSite, cgCorpus, cgDead, cgFresh, cgPage, cgAsk, cgPending, cgCovered, cgTook,
                 cgLost, cgEvents>>
(* BuildIndex fails: logged, and the old index stays. *)
BuildFails(b) ==
  /\ cgBuild[b].on /\ CgUse
  /\ cgBuild' = [cgBuild EXCEPT ![b] = NoBuild] /\ cgLost' = TRUE
  /\ cgJob' = IF b = "job" THEN NoJob ELSE cgJob
  /\ UNCHANGED <<cgSite, cgCorpus, cgDead, cgIndex, cgFresh, cgPage, cgAsk, cgPending, cgCovered, cgTook>>

(* Remember, remember: the row and the corpus, then the mark of a dead show is lifted; titles
   the corpus lacked call for a build. *)
RememberSaves(a) ==
  /\ cgPage.pc = "idle" /\ a \in cgSite /\ (a \notin cgCorpus \/ a \in cgDead)
  /\ cgPage' = [pc |-> "revive", show |-> a, added |-> a \notin cgCorpus]
  /\ cgCorpus' = cgCorpus \cup {a}
  /\ UNCHANGED <<cgSite, cgDead, cgIndex, cgFresh, cgJob, cgAsk, cgBuild, cgPending, cgCovered, cgTook,
                 cgLost, cgEvents>>
RememberRevives ==
  /\ cgPage.pc = "revive"
  /\ cgDead' = cgDead \ {cgPage.show} /\ cgPending' = (cgPending \/ cgPage.added)
  /\ cgPage' = [cgPage EXCEPT !.pc = "idle", !.show = 0, !.added = FALSE]
  /\ UNCHANGED <<cgSite, cgCorpus, cgIndex, cgFresh, cgJob, cgAsk, cgBuild, cgCovered, cgTook, cgLost,
                 cgEvents>>
(* Revive fails: the titles stay, and nobody is told of them. *)
RememberFails ==
  /\ cgPage.pc = "revive" /\ CgUse
  /\ cgPage' = [cgPage EXCEPT !.pc = "idle", !.show = 0, !.added = FALSE] /\ cgLost' = TRUE
  /\ UNCHANGED <<cgSite, cgCorpus, cgDead, cgIndex, cgFresh, cgJob, cgAsk, cgBuild, cgPending, cgCovered,
                 cgTook>>
(* Hydrate of one show: the question, and later what is made of an answer that lacks it: gone
   from the site, or hidden by an answer that is incomplete. *)
HydrateAsks(a, part) ==
  /\ cgAsk.pc = "idle" /\ a \notin cgDead /\ (part \/ a \notin cgSite)
  /\ IF part THEN CgUse ELSE cgEvents' = cgEvents
  /\ cgAsk' = [pc |-> "write", show |-> a, part |-> part]
  /\ UNCHANGED <<cgSite, cgCorpus, cgDead, cgIndex, cgFresh, cgJob, cgPage, cgBuild, cgPending, cgCovered,
                 cgTook, cgLost>>
HydrateWrites ==
  /\ cgAsk.pc = "write"
  /\ cgDead' = IF cgAsk.part THEN cgDead ELSE cgDead \cup {cgAsk.show}
  /\ cgAsk' = NoAsk
  /\ UNCHANGED <<cgSite, cgCorpus, cgIndex, cgFresh, cgJob, cgPage, cgBuild, cgPending, cgCovered, cgTook,
                 cgLost, cgEvents>>

(* AniList drops a show, or serves it again; and a day goes by. *)
SiteDrops(a) ==
  /\ a \in cgSite /\ CgUse /\ cgSite' = cgSite \ {a} /\ cgTook' = TRUE
  /\ UNCHANGED <<cgCorpus, cgDead, cgIndex, cgFresh, cgJob, cgPage, cgAsk, cgBuild, cgPending, cgCovered,
                 cgLost>>
SiteServes(a) ==
  /\ a \notin cgSite /\ cgSite' = cgSite \cup {a}
  /\ UNCHANGED <<cgCorpus, cgDead, cgIndex, cgFresh, cgJob, cgPage, cgAsk, cgBuild, cgPending, cgCovered,
                 cgTook, cgLost, cgEvents>>
DayPasses ==
  /\ cgFresh # {} /\ cgFresh' = {}
  /\ UNCHANGED <<cgSite, cgCorpus, cgDead, cgIndex, cgJob, cgPage, cgAsk, cgBuild, cgPending, cgCovered,
                 cgTook, cgLost, cgEvents>>

CgNext ==
  \/ \E force \in BOOLEAN : RunStarts(force)
  \/ SeedBatch \/ SeedFails \/ Discover \/ AskTitles \/ SaveTitles \/ MarkSource \/ FetchFails
  \/ JobBuilds \/ BurstBuilds \/ RememberRevives \/ RememberFails \/ HydrateWrites \/ DayPasses
  \/ \E b \in Builders : SetIndex(b) \/ BuildFails(b)
  \/ \E a \in CgShows : RememberSaves(a) \/ SiteDrops(a) \/ SiteServes(a) \/ \E p \in BOOLEAN : HydrateAsks(a, p)
CgSpec == CgInit /\ [][CgNext]_cgVars

-----------------------------------------------------------------------------
(* A source marked as read has been read: every id of the list it was read from is in the
   corpus or given up, save those an incomplete answer hid. *)
MarkedIsCovered == cgCovered \subseteq cgCorpus \cup cgDead
(* Once nothing is at work the index holds every show of the corpus, a run that failed half
   way included, unless two builds crossed or a build or a save failed. *)
AtWork == cgJob.pc # "idle" \/ cgPage.pc # "idle" \/ cgPending \/ \E b \in Builders : cgBuild[b].on
IndexAgrees == ~AtWork /\ ~cgLost => cgIndex = cgCorpus
(* A show the site never took away is never given up. *)
ServedIsKept == ~cgTook => cgDead = {}
CorpusSafe == MarkedIsCovered /\ IndexAgrees /\ ServedIsKept
=============================================================================
