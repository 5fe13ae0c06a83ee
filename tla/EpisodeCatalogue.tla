--------------------------- MODULE EpisodeCatalogue ---------------------------
(* How a show's episode list is put together from sources of unequal worth: the episode source
   (ani.zip), MyAnimeList's listing, streaming thumbnails, releases found, the filler dataset and
   the filler site (library/enrich.go over store/episodes.go and metadata/metadata.go, the page's
   handler in server/corpus.go).  A page load fetches and saves; stills, flags and derived rows
   are filled behind it, one crawl of a kind at a time, each reading first and writing later. *)
EXTENDS Integers, FiniteSets

CONSTANTS CatMax,     \* episode numbers are 1 .. CatMax
          CatTotal,   \* episode_count
          Pages,      \* requests for the page
          CatLoads    \* bound on page loads, dataset refreshes and marks running out
ASSUME CatAssumption == CatMax \in Nat \ {0} /\ CatTotal \in 0 .. CatMax

Nums == 1 .. CatMax
VARIABLES rows,      \* n |-> the episode row: in, title (by whom), still (by whom)
          kinds,     \* n |-> the filler row: who classified it, as what; recap
          marks,     \* corpus_source: episodes, listing, derived, flags
          airingNow, \* the show still airs
          page,      \* p |-> where its handler is, and the list it fetched
          stilling, crawling, deriving,   \* the goroutines behind
          loads,
          gaveStill, \* history: numbers whose row the source gave a still
          dataSaid,  \* history: numbers the dataset has classified
          hid        \* history: numbers a fill of gaps took off the page
catVars == <<rows, kinds, marks, airingNow, page, stilling, crawling, deriving, loads, gaveStill, dataSaid, hid>>

NoEpRow == [in |-> FALSE, title |-> "no", still |-> "no"]
NoKind == [by |-> "none", kind |-> "unknown", recap |-> FALSE]
CatInit ==
  /\ rows = [n \in Nums |-> NoEpRow] /\ kinds = [n \in Nums |-> NoKind]
  /\ marks = [episodes |-> FALSE, listing |-> FALSE, derived |-> FALSE, flags |-> "no"]
  /\ airingNow \in BOOLEAN /\ page = [p \in Pages |-> [pc |-> "idle", got |-> {}, stills |-> {}]]
  /\ stilling = [pc |-> "idle", gaps |-> {}] /\ crawling = [pc |-> "idle", got |-> {}] /\ deriving = "idle"
  /\ loads = 0 /\ gaveStill = {} /\ dataSaid = {} /\ hid = {}

CatSpend == loads < CatLoads /\ loads' = loads + 1
Stored(R) == {n \in Nums : R[n].in}
TopOf(S) == CHOOSE n \in S : \A m \in S : m <= n
LowOf(S) == CHOOSE n \in S : \A m \in S : n <= m
(* Episodes, plannedEpisodes, padToCount: the numbers the page lists. *)
Listed(R) ==
  IF Stored(R) = {} THEN 1 .. CatTotal
  ELSE IF \E n \in Stored(R) : R[n].title # "no" THEN Stored(R)
  ELSE Stored(R) \cup {n \in 1 .. 2 * CatMax : n > TopOf(Stored(R)) /\ n - LowOf(Stored(R)) + 1 <= CatTotal}
(* EpisodesStale: complete for good, or fetched within its age. *)
Stale ==
  /\ ~(Stored(rows) # {} /\ Cardinality(Stored(rows)) >= CatTotal /\ ~airingNow
       /\ \A n \in Stored(rows) : rows[n].still # "no" /\ rows[n].title # "no")
  /\ ~marks.episodes
Bare == \A n \in Stored(rows) : rows[n].title = "no"
Unclassified == {n \in Stored(rows) : kinds[n].kind = "unknown"}

-----------------------------------------------------------------------------
(* What the sources may answer: the episode source's numbers, MyAnimeList's listing, the numbers
   found in releases, what the filler site and the dataset classify. *)
SourceAnswers == {{}, {1}, {CatMax}, Nums}
ListingAnswers == {{}, {1}, Nums, 1 .. CatTotal}
ReleaseNumbers == {{}, {1}, {CatTotal}}
SiteAnswers == {{}, Nums}
DatasetAnswers == {{1}, {CatMax}}
FlagAnswers == {{}, {1}, {CatMax}}

(* The page: its fetch when stale, an error or an answer.  A number is listed with a title;
   a still may lag. *)
LoadPage(p) ==
  /\ page[p].pc = "idle" /\ CatSpend
  /\ IF ~Stale THEN page' = [page EXCEPT ![p].pc = "crawl"]
     ELSE \/ \E got \in SourceAnswers : \E stills \in {{}, got} :
               page' = [page EXCEPT ![p] = [pc |-> "save", got |-> got, stills |-> stills]]
          \/ page' = [page EXCEPT ![p].pc = "show"]
  /\ UNCHANGED <<rows, kinds, marks, airingNow, stilling, crawling, deriving, gaveStill, dataSaid, hid>>
(* SaveEpisodes: what the source has wins, what it lacks is kept, and a row it does not list goes.
   Then stillsAsync, unless one runs, and the mark. *)
SaveEpisodes(p) ==
  LET got == page[p].got  stills == page[p].stills
  IN /\ page[p].pc = "save"
     /\ rows' = IF got = {} THEN rows ELSE
          [n \in Nums |-> IF n \notin got THEN NoEpRow
             ELSE [in |-> TRUE, title |-> "source", still |-> IF n \in stills THEN "source" ELSE rows[n].still]]
     /\ gaveStill' = IF got = {} THEN gaveStill ELSE (gaveStill \cap got) \cup stills
     /\ stilling' = IF stilling.pc = "idle" THEN [pc |-> "gaps", gaps |-> {}] ELSE stilling
     /\ marks' = [marks EXCEPT !.episodes = TRUE]
     /\ page' = [page EXCEPT ![p] = [pc |-> "crawl", got |-> {}, stills |-> {}]]
     /\ UNCHANGED <<kinds, airingNow, crawling, deriving, loads, dataSaid, hid>>
(* flagsAsync, unless a crawl of the show is under way. *)
StartCrawl(p) ==
  /\ page[p].pc = "crawl" /\ page' = [page EXCEPT ![p].pc = "show"]
  /\ crawling' = IF crawling.pc = "idle" THEN [pc |-> "flags", got |-> {}] ELSE crawling
  /\ UNCHANGED <<rows, kinds, marks, airingNow, stilling, deriving, loads, gaveStill, dataSaid, hid>>
(* The rows shown; when they come from the count alone, releases are searched behind. *)
ShowPage(p) ==
  /\ page[p].pc = "show" /\ page' = [page EXCEPT ![p].pc = "idle"]
  /\ deriving' = IF Stored(rows) = {} /\ CatTotal > 0 /\ ~marks.derived /\ deriving = "idle" THEN "search" ELSE deriving
  /\ UNCHANGED <<rows, kinds, marks, airingNow, stilling, crawling, loads, gaveStill, dataSaid, hid>>

(* fillStills: the gaps are read, the listing asked, and the gaps filled where still empty. *)
ReadStillGaps ==
  /\ stilling.pc = "gaps"
  /\ LET gaps == {n \in Stored(rows) : rows[n].still = "no"}
     IN stilling' = IF gaps = {} THEN [pc |-> "idle", gaps |-> {}] ELSE [pc |-> "set", gaps |-> gaps]
  /\ UNCHANGED <<rows, kinds, marks, airingNow, page, crawling, deriving, loads, gaveStill, dataSaid, hid>>
SetEpisodeStills ==
  /\ stilling.pc = "set" /\ stilling' = [pc |-> "idle", gaps |-> {}]
  /\ \E found \in {{}, stilling.gaps} :
       rows' = [n \in Nums |-> IF n \in found /\ rows[n].in /\ rows[n].still = "no"
                               THEN [rows[n] EXCEPT !.still = "stream"] ELSE rows[n]]
  /\ UNCHANGED <<kinds, marks, airingNow, page, crawling, deriving, loads, gaveStill, dataSaid, hid>>

-----------------------------------------------------------------------------
(* flags: not when marked; not listed yet is an answer for now; an error is none. *)
CrawlFlags ==
  /\ crawling.pc = "flags"
  /\ \/ marks.flags # "no" /\ crawling' = [crawling EXCEPT !.pc = "listing"] /\ UNCHANGED <<kinds, marks>>
     \/ /\ marks.flags = "no" /\ crawling' = [crawling EXCEPT !.pc = "listing"]
        /\ \/ UNCHANGED <<kinds, marks>>
           \/ kinds' = kinds /\ marks' = [marks EXCEPT !.flags = "provisional"]
     \/ /\ marks.flags = "no"
        /\ \E got \in FlagAnswers : crawling' = [pc |-> "saveflags", got |-> got]
        /\ UNCHANGED <<kinds, marks>>
  /\ UNCHANGED <<rows, airingNow, page, stilling, deriving, loads, gaveStill, dataSaid, hid>>
(* SaveFlags, and the mark: final when the show has finished by now. *)
SaveFlags ==
  /\ crawling.pc = "saveflags" /\ crawling' = [pc |-> "listing", got |-> {}]
  /\ kinds' = [n \in Nums |-> IF n \notin crawling.got THEN kinds[n]
                 ELSE IF kinds[n].kind = "unknown" THEN [by |-> "jikan", kind |-> "filler", recap |-> TRUE]
                 ELSE [kinds[n] EXCEPT !.recap = TRUE]]
  /\ marks' = [marks EXCEPT !.flags = IF airingNow THEN "provisional" ELSE "final"]
  /\ UNCHANGED <<rows, airingNow, page, stilling, deriving, loads, gaveStill, dataSaid, hid>>
(* listing: a list shorter than the show is dropped. *)
WholeOnly(got) == IF Cardinality(got) < CatTotal THEN {} ELSE got
(* listing, of a finished show no source has described. *)
AskListing ==
  /\ crawling.pc = "listing"
  /\ IF airingNow \/ ~Bare \/ marks.listing THEN crawling' = [pc |-> "gaps", got |-> {}]
     ELSE \/ \E got \in ListingAnswers : crawling' = [pc |-> "fill", got |-> WholeOnly(got)]
          \/ crawling' = [pc |-> "gaps", got |-> {}]
  /\ UNCHANGED <<rows, kinds, marks, airingNow, page, stilling, deriving, loads, gaveStill, dataSaid, hid>>
(* FillEpisodes: into gaps only; MarkListingTried. *)
FillEpisodes ==
  LET new == [n \in Nums |-> IF n \notin crawling.got THEN rows[n]
                ELSE [rows[n] EXCEPT !.in = TRUE, !.title = IF rows[n].title = "no" THEN "listing" ELSE rows[n].title]]
  IN /\ crawling.pc = "fill" /\ crawling' = [pc |-> "gaps", got |-> {}]
     /\ rows' = new /\ marks' = [marks EXCEPT !.listing = TRUE]
     /\ hid' = hid \cup ((Listed(rows) \cap 1 .. CatTotal) \ Listed(new))
     /\ UNCHANGED <<kinds, airingNow, page, stilling, deriving, loads, gaveStill, dataSaid>>
(* fillerGaps, SaveFillerGaps: the site classifies only what nobody has. *)
FillerGaps ==
  /\ crawling.pc = "gaps" /\ crawling' = [pc |-> "idle", got |-> {}]
  /\ \E found \in IF Unclassified = {} THEN {{}} ELSE SiteAnswers :
       kinds' = [n \in Nums |-> IF n \in found /\ kinds[n].kind = "unknown"
                                THEN [kinds[n] EXCEPT !.by = "site", !.kind = "canon"] ELSE kinds[n]]
  /\ UNCHANGED <<rows, marks, airingNow, page, stilling, deriving, loads, gaveStill, dataSaid, hid>>
(* Fillers, SaveFillers: the dataset has the last word, an "unknown" included. *)
SaveFillers ==
  /\ CatSpend
  /\ \E said \in DatasetAnswers : \E k \in {"filler", "unknown"} :
       /\ kinds' = [n \in Nums |-> IF n \in said THEN [kinds[n] EXCEPT !.by = "dataset", !.kind = k] ELSE kinds[n]]
       /\ dataSaid' = IF k = "unknown" THEN dataSaid \ said ELSE dataSaid \cup said
  /\ UNCHANGED <<rows, marks, airingNow, page, stilling, crawling, deriving, gaveStill, hid>>
(* deriveEpisodesAsync, SaveDerivedEpisodes: the mark first, then bare rows beside what is there. *)
SaveDerived ==
  /\ deriving = "search" /\ deriving' = "idle"
  /\ \/ \E got \in ReleaseNumbers :
          /\ rows' = [n \in Nums |-> IF n \in got /\ ~rows[n].in THEN [NoEpRow EXCEPT !.in = TRUE] ELSE rows[n]]
          /\ marks' = [marks EXCEPT !.derived = TRUE]
     \/ UNCHANGED <<rows, marks>>
  /\ UNCHANGED <<kinds, airingNow, page, stilling, crawling, loads, gaveStill, dataSaid, hid>>
(* A refresh finds the show finished; a mark runs out of its age. *)
CatTime ==
  /\ CatSpend
  /\ \/ airingNow /\ airingNow' = FALSE /\ marks' = marks
     \/ marks' = [episodes |-> FALSE, listing |-> FALSE, derived |-> FALSE,
                  flags |-> IF marks.flags = "final" THEN "final" ELSE "no"] /\ marks' # marks /\ airingNow' = airingNow
  /\ UNCHANGED <<rows, kinds, page, stilling, crawling, deriving, gaveStill, dataSaid, hid>>

CatNext ==
  \/ \E p \in Pages : LoadPage(p) \/ SaveEpisodes(p) \/ StartCrawl(p) \/ ShowPage(p)
  \/ ReadStillGaps \/ SetEpisodeStills \/ CrawlFlags \/ SaveFlags \/ AskListing \/ FillEpisodes \/ FillerGaps
  \/ SaveFillers \/ SaveDerived \/ CatTime
CatSpec == CatInit /\ [][CatNext]_catVars
-----------------------------------------------------------------------------
(* NextEpisode after e, filler skipped, the schedule aside: the next row that is neither filler
   nor recap, or past the rows the next number; zero past the count. *)
NextEpisode(e) ==
  LET good == {n \in Stored(rows) : n > e /\ kinds[n].kind # "filler" /\ ~kinds[n].recap}
      last == IF Stored(rows) = {} THEN 0 ELSE TopOf(Stored(rows))
      n == IF good # {} THEN LowOf(good) ELSE 1 + IF last > e THEN last ELSE e
  IN IF n > CatTotal THEN 0 ELSE n
(* A streaming thumbnail never stands where the episode source has given an image, though the
   gaps it fills were read before a page load saved one. *)
StillsKeepRank == \A n \in Nums : rows[n].still = "stream" => n \notin gaveStill
(* Neither the scraped site nor the listing's flags overrule the dataset. *)
KindsKeepRank == \A n \in dataSaid : kinds[n].by = "dataset"
(* Naming a bare list from MyAnimeList takes no counted episode off the page: a named row ends
   the padding up to the count. *)
FillNeverHides == hid = {}
(* Playing on moves forward, and over no more than filler and recaps. *)
NextMovesOn ==
  \A e \in 1 .. CatTotal :
    /\ NextEpisode(e) = 0 \/ NextEpisode(e) > e
    /\ NextEpisode(e) # 0 => \A n \in Stored(rows) : e < n /\ n < NextEpisode(e) => kinds[n].kind = "filler" \/ kinds[n].recap
CatalogueSafe == StillsKeepRank /\ KindsKeepRank /\ FillNeverHides /\ NextMovesOn
=============================================================================
