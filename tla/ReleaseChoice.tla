----------------------------- MODULE ReleaseChoice -----------------------------
(* Which release, and which file of it, is taken for an episode (internal/library/episode.go,
   internal/score, internal/torrent PickNumbered).  The entries of a franchise share a name
   and reuse episode numbers; releases name them by the conventions of the groups that make
   them.  Titles are abstracted to the words and markers the code reads out of them. *)
EXTENDS Integers, Sequences, FiniteSets, FiniteSetsExt, TLC
LOCAL INSTANCE SequencesExt

CONSTANTS Marks,      \* how a later entry's title tells it from the first one
          EntryCount, \* entries of the franchise
          Lengths,    \* episode counts
          Found,      \* candidates a search may find, for the ranking
          MaxFound

VARIABLES franchise,  \* the catalogue's entries in order, or none yet
          asked,      \* <<entry, episode>>, or none yet
          results     \* candidates in the order the sites answered
choiceVars == <<franchise, asked, results>>

-----------------------------------------------------------------------------
(* Titles.  An entry is its mark, the number the mark states, its episodes and whether it is
   a series.  parse.SeasonOf, PartOf, NumeralSeason, baseTitle, significantWords. *)
Series(e) == e.series
WordsOf(i, e) == IF e.mark \in {"dash", "colon"} THEN {"show", "sub" \o ToString(i)}
                 ELSE IF e.mark = "other" THEN {"other"} ELSE {"show"}
SeasonOf(e) == IF e.mark = "season" THEN e.num ELSE 0
PartOf(e) == IF e.mark = "part" THEN e.num ELSE 0
NumeralSeason(e) == IF e.mark \in {"season", "part", "roman"} THEN e.num ELSE 0
BaseTitle(e) == IF e.mark \in {"season", "part", "dash"} THEN {"show"} ELSE {}

(* defaultSeason, laterSeason: a digit counts as a season only past the first entry. *)
DefaultSeason(i) ==
  LET e == franchise[i]
  IN IF SeasonOf(e) > 0 THEN SeasonOf(e)
     ELSE IF NumeralSeason(e) > 0 /\ (e.mark = "roman" \/ i > 1) THEN NumeralSeason(e) ELSE 1
(* franchiseSeason: a later part continues its season. *)
FranchiseSeason(i) ==
  IF ~Series(franchise[i]) THEN 0
  ELSE Cardinality({j \in 1 .. i : /\ Series(franchise[j])
                                   /\ \/ \A k \in 1 .. j - 1 : ~Series(franchise[k])
                                      \/ PartOf(franchise[j]) < 2})

EpisodesOf(S) == FoldSet(LAMBDA j, n : n + franchise[j].eps, 0, S)
(* derivedAlias: the episode counted through the cours named alike, and through them all. *)
DerivedAlias(i, ep) ==
  LET earlier == {j \in 1 .. i - 1 : Series(franchise[j])}
      base == BaseTitle(franchise[i])
      named(j) == base # {} /\ (WordsOf(j, franchise[j]) = base \/ BaseTitle(franchise[j]) = base)
      run == EpisodesOf({j \in earlier : \A b \in earlier : named(b) \/ b < j})
      split == \E a, b \in earlier : a < b /\ named(a) /\ ~named(b)
  IN IF Len(franchise) < 2 THEN [tvdb |-> 0, abs |-> 0]
     ELSE [tvdb |-> IF run > 0 /\ ~split THEN run + ep ELSE 0,
           abs |-> IF earlier # {} THEN EpisodesOf(earlier) + ep ELSE 0]

(* cour: what separates this entry's releases from a sibling's. *)
CourOf(i, season, alias, ep) ==
  LET e == franchise[i]
      mine == WordsOf(i, e)
      others == {j \in 1 .. Len(franchise) : j # i}
      holders(w) == {j \in others : w \in WordsOf(j, franchise[j])}
      all == UNION {WordsOf(j, franchise[j]) : j \in others}
  IN [own |-> mine \ all,
      siblings |-> {w \in all \ mine : Cardinality(holders(w)) = 1},
      later |-> \/ season > 1 \/ PartOf(e) > 1 \/ alias.tvdb > ep
                \/ \E j \in 1 .. i - 1 : Series(franchise[j]) /\ BaseTitle(e) # {} /\ WordsOf(j, franchise[j]) = BaseTitle(e),
      base |-> IF BaseTitle(e) # {} THEN BaseTitle(e) ELSE mine]

(* numbering: the request filled in. *)
Numbering(i, ep) ==
  LET season == DefaultSeason(i)
      alias == DerivedAlias(i, ep)
  IN [ep |-> ep, season |-> season, part |-> PartOf(franchise[i]), alias |-> alias,
      counted |-> IF season = 1 THEN FranchiseSeason(i) ELSE 0,
      numerals |-> {NumeralSeason(franchise[i])} \ {0},
      cour |-> CourOf(i, season, alias, ep)]

-----------------------------------------------------------------------------
(* What a release says, against the request. *)
NumeralOf(rel, req) ==
  IF rel.season > 0 \/ rel.part > 0 \/ rel.num < 2
     \/ (~rel.roman /\ rel.num \in req.numerals /\ req.season # rel.num) THEN 0 ELSE rel.num
Own(rel, req) ==
  \/ rel.words \cap req.cour.own # {}
  \/ req.part > 0 /\ rel.part = req.part
  \/ req.season > 1 /\ (rel.season = req.season \/ NumeralOf(rel, req) = req.season)
Sibling(rel, req) == rel.words \cap req.cour.siblings # {}
Bare(rel, req) == req.cour.later /\ ~Own(rel, req)
NumbersFor(rel, req) ==
  (IF Bare(rel, req) THEN <<>> ELSE <<req.ep>>)
  \o SelectSeq(<<req.alias.tvdb>>, LAMBDA n : n > 0)
  \o SelectSeq(<<req.alias.abs>>, LAMBDA n : n > 0 /\ n # req.alias.tvdb)
Covers(rel, n) == rel.batch /\ rel.ep <= n /\ (rel.end = 0 \/ n <= rel.end)
NamesShow(rel, req) == 2 * Cardinality(rel.words \cap req.cour.base) >= Cardinality(req.cour.base)
Names(rel, req) == NamesShow(rel, req) \/ (rel.words # {} /\ rel.words \subseteq req.cour.base)
Broadcast(rel, req) == rel.season > 1 /\ req.cour.later /\ Names(rel, req)

Numbered(rel, req) ==
  LET plain == ~Bare(rel, req)
      tvdb == req.alias.tvdb > 0 /\ (NamesShow(rel, req) \/ Broadcast(rel, req))
      abs == req.alias.abs > 0 /\ Names(rel, req)
  IN [stated |-> \/ plain /\ rel.ep = req.ep
                 \/ tvdb /\ rel.ep = req.alias.tvdb
                 \/ abs /\ rel.ep = req.alias.abs,
      inBatch |-> \/ plain /\ Covers(rel, req.ep)
                  \/ tvdb /\ Covers(rel, req.alias.tvdb)
                  \/ abs /\ Covers(rel, req.alias.abs)]
Confirms(rel, req) ==
  LET n == Numbered(rel, req)
  IN \/ n.stated \/ (n.inBatch /\ rel.ep > 0)
     \/ rel.batch /\ rel.ep = 0 /\ rel.season > 0 /\ rel.season = req.season /\ ~req.cour.later
\* Variant for mutation: the season a release states is not looked at.
VerifiesAnySeason(rel, req) ==
  LET n == Numbered(rel, req)
  IN /\ Sibling(rel, req) => Own(rel, req)
     /\ req.part > 0 /\ rel.part > 0 => rel.part = req.part
     /\ n.stated \/ n.inBatch
Verifies(rel, req) ==
  LET n == Numbered(rel, req)
      unknownScope == rel.ep = 0 /\ ~rel.batch /\ Len(NumbersFor(rel, req)) > 0 /\ (Own(rel, req) \/ NamesShow(rel, req))
      broadcastNumber == req.alias.tvdb > req.ep /\ rel.ep = req.alias.tvdb /\ Broadcast(rel, req)
      numeral == NumeralOf(rel, req)
  IN /\ Sibling(rel, req) => Own(rel, req)
     /\ req.part > 0 /\ rel.part > 0 => rel.part = req.part
     /\ n.stated \/ n.inBatch \/ unknownScope
     /\ \/ broadcastNumber
        \/ /\ ~(req.season > 1 /\ rel.season > 0 /\ rel.season # req.season)
           /\ ~(numeral > 0 /\ numeral # Max({req.season, 1}))
           /\ ~(req.season = 1 /\ rel.season > 1 /\ rel.season # req.counted)
(* showIdentity: what a name adds to the base all entries share must be what this entry's title
   adds, or nothing; a title with a subtitle or a numeral is known by its base alone.  Seasons
   and the parts corpus.Normalise knows (1 and 2) are dropped from both. *)
Adds(words, roman, num, part) ==
  (words \ {"show", "other"}) \cup (IF roman THEN {num} ELSE {}) \cup (IF part > 2 THEN {"part"} ELSE {})
Identifies(rel, i) ==
  LET e == franchise[i]
      said == Adds(rel.words, rel.roman, rel.num, rel.part)
  IN /\ ("other" \in rel.words) = (e.mark = "other")
     /\ \/ said = {} \/ e.mark \in {"dash", "colon", "roman"}
        \/ said = Adds(WordsOf(i, e), e.mark = "roman", e.num, PartOf(e))

(* packNumber, PickNumbered: which file of a pack, its files known by their numbers. *)
Abs(n) == IF n < 0 THEN -n ELSE n
PackNumber(ep, numbers, files) ==
  LET held == SelectSeq(numbers, LAMBDA n : n >= Min(files) /\ n <= Max(files))
      off(k) == Abs((held[k] - (ep - 1)) - Min(files))
  IN IF numbers = <<>> THEN 0
     ELSE IF held = <<>> THEN numbers[1]
     ELSE held[CHOOSE k \in DOMAIN held : \A l \in DOMAIN held : off(k) < off(l) \/ (off(k) = off(l) /\ k <= l)]
PickNumbered(ep, numbers, files) ==
  IF Cardinality(files) = 1 THEN files \cap Range(numbers)
  ELSE files \cap {PackNumber(ep, numbers, files)}

-----------------------------------------------------------------------------
(* The conventions by which groups name what they release (external): in the entry's own
   title and numbers, under the season it is broadcast as, or counted through the show. *)
Plain(i) ==
  LET e == franchise[i]
  IN [words |-> WordsOf(i, e), season |-> SeasonOf(e), part |-> PartOf(e),
      num |-> IF e.mark \in {"part", "roman"} THEN e.num ELSE 0, roman |-> e.mark = "roman",
      ep |-> 0, end |-> 0, batch |-> FALSE]
EarlierShow(i) == EpisodesOf({j \in 1 .. i - 1 : Series(franchise[j]) /\ franchise[j].mark # "other"})
EarlierPart(i) == EpisodesOf({j \in 1 .. i - 1 : Series(franchise[j]) /\ FranchiseSeason(j) = FranchiseSeason(i)})
Single(i, n) == [Plain(i) EXCEPT !.ep = n]
Broadcasted(i, n) == [Plain(i) EXCEPT !.season = FranchiseSeason(i), !.part = 0, !.num = 0, !.ep = EarlierPart(i) + n]
CountedOn(i, n) == [Plain(i) EXCEPT !.words = {"show"}, !.season = 0, !.part = 0, !.num = 0, !.ep = EarlierShow(i) + n]
Batch(i) == [Plain(i) EXCEPT !.ep = 1, !.end = franchise[i].eps, !.batch = TRUE]
SeasonPack(i) == [Plain(i) EXCEPT !.batch = TRUE]

Counts(i) == Series(franchise[i]) /\ franchise[i].mark # "other"
Offered ==
  LET E == {x \in (1 .. Len(franchise)) \X (1 .. Max(Lengths)) : x[2] <= franchise[x[1]].eps}
      C == {x \in E : Counts(x[1])}
  IN {[rel |-> Single(x[1], x[2]), of |-> x] : x \in E}
     \cup {[rel |-> Broadcasted(x[1], x[2]), of |-> x] : x \in C}
     \cup {[rel |-> CountedOn(x[1], x[2]), of |-> x] : x \in C}
(* A pack: its name, its entry, and the number its first file carries less one. *)
Packs ==
  LET pack(rel, i, f) == [rel |-> rel, entry |-> i, first |-> f]
      countedBatch(i) == [CountedOn(i, 1) EXCEPT !.end = EarlierShow(i) + franchise[i].eps, !.batch = TRUE]
  IN {pack(Batch(i), i, 0) : i \in DOMAIN franchise}
     \cup {pack(SeasonPack(i), i, 0) : i \in DOMAIN franchise}
     \cup {pack(SeasonPack(i), i, EarlierShow(i)) : i \in {j \in DOMAIN franchise : Counts(j)}}
     \cup {pack(countedBatch(i), i, EarlierShow(i)) : i \in {j \in DOMAIN franchise : Counts(j)}}

-----------------------------------------------------------------------------
(* The ranking.  evaluateSpecs: a rejected release is listed, never started by itself. *)
Rejected(c) == c.wrong \/ c.seeders = 0
ResRank(c) == CASE c.res = "1080p" -> 4 [] c.res = "720p" -> 2 [] c.res = "" -> 0 [] OTHER -> 1
Thin(c) == c.seeders \in 0 .. 4
Unread(c) == c.lang = "other"
(* evaluate, applyLadder, applySubtitles; a swarm's share is capped at 50. *)
Score(c) ==
  LET ladder == IF c.tier > 0 THEN (5 - c.tier) * 100 ELSE ResRank(c) * 30
      sea == CASE c.sea = "best" -> 260 [] c.sea = "group" -> 90 [] OTHER -> 0
      lang == CASE c.lang = "ours" -> 15 [] c.lang = "other" -> -170 [] OTHER -> 0
      scope == IF c.batch THEN -15 ELSE 0
      swarm == IF c.seeders < 1 THEN 0 ELSE IF Thin(c) THEN 0 ELSE 50
  IN Max({0, ladder + sea + lang + scope + swarm})
(* better: strict keys, then the score. *)
Better(a, b) ==
  LET pa == ~Rejected(a)
      first(p, q, rest) == IF p # q THEN p ELSE rest
  IN first(pa, ~Rejected(b),
       IF ~pa THEN first(a.conf, b.conf, Score(a) > Score(b))
       ELSE first(a.res # "", b.res # "",
            first(a.conf, b.conf,
            IF a.film /\ b.film /\ Thin(a) # Thin(b) THEN ~Thin(a)
            ELSE first(~a.batch, ~b.batch,
                 first(a.sea = "best", b.sea = "best",
                 IF ResRank(a) # ResRank(b) THEN ResRank(a) > ResRank(b)
                 ELSE first(~Unread(a), ~Unread(b),
                      first(~a.hevc, ~b.hevc, Score(a) > Score(b))))))))
InsertRanked(out, c) ==
  LET at == CHOOSE k \in 1 .. Len(out) + 1 :
              /\ \A j \in k .. Len(out) : Better(c, out[j])
              /\ k = 1 \/ ~Better(c, out[k - 1])
  IN SubSeq(out, 1, at - 1) \o <<c>> \o SubSeq(out, at, Len(out))
Rank(cands) == FoldLeft(InsertRanked, <<>>, cands)

-----------------------------------------------------------------------------
(* The catalogue's franchises: the first entry has the plain name, films stand between, a later
   one states its place among the seasons or among the parts of the first. *)
SeriesUpTo(f, i) == Cardinality({j \in 1 .. i - 1 : f[j].series}) + 1
Catalogue ==
  {f \in [1 .. EntryCount -> [mark : Marks \cup {"plain"}, num : 0 .. EntryCount, eps : Lengths \cup {1}, series : BOOLEAN]] :
     \A i \in 1 .. EntryCount :
       /\ (i = 1) = (f[i].mark = "plain")
       /\ i = 1 => f[i].series
       /\ f[i].num = IF f[i].mark \in {"season", "part", "roman"} THEN SeriesUpTo(f, i) ELSE 0
       /\ ~f[i].series => f[i].mark \in {"dash", "colon"}
       /\ f[i].eps \in IF f[i].series THEN Lengths ELSE {1}
       /\ f[i].mark = "other" => \A j \in 2 .. i - 1 : f[j].mark # "other"
       /\ f[i].series => \A j \in 2 .. i - 1 : f[j].series => (f[j].mark = "part") = (f[i].mark = "part")}

ChoiceInit == franchise = <<>> /\ asked = <<>> /\ results = <<>>
(* learnRelations, then Find for one of the entries' episodes. *)
LearnRelations ==
  /\ franchise = <<>> /\ results = <<>> /\ franchise' \in Catalogue
  /\ UNCHANGED <<asked, results>>
AskEpisode(i, n) ==
  /\ franchise # <<>> /\ asked = <<>> /\ n <= franchise[i].eps /\ asked' = <<i, n>>
  /\ UNCHANGED <<franchise, results>>
(* searchAll: one more of the sites' answers; one search is for a film or it is not. *)
SiteAnswers(c) ==
  /\ franchise = <<>> /\ Len(results) < MaxFound
  /\ \A k \in DOMAIN results : results[k].film = c.film
  /\ results' = Append(results, c)
  /\ UNCHANGED <<franchise, asked>>
ChoiceNext ==
  \/ LearnRelations
  \/ \E i \in 1 .. EntryCount, n \in 1 .. Max(Lengths) : AskEpisode(i, n)
  \/ \E c \in Found : SiteAnswers(c)
ChoiceSpec == ChoiceInit /\ [][ChoiceNext]_choiceVars
-----------------------------------------------------------------------------
Takes(rel, req, i) == Verifies(rel, req) /\ Confirms(rel, req) /\ Identifies(rel, i)

(* A release taken as the episode of a series is that episode, whichever convention named it
   and whichever of its siblings reuses the number, so long as a release stating a part is not
   weighed for an entry that states none. *)
RightEpisode ==
  asked # <<>> /\ Series(franchise[asked[1]]) =>
    LET req == Numbering(asked[1], asked[2])
    IN \A o \in Offered : Takes(o.rel, req, asked[1]) /\ (o.rel.part > 0 => req.part > 0) => o.of = asked
(* The file taken from a pack, by whichever of the episode's numbers its files seem to carry,
   is the episode's. *)
RightFile ==
  asked # <<>> /\ Series(franchise[asked[1]]) =>
    LET req == Numbering(asked[1], asked[2])
    IN \A p \in Packs :
         Takes(p.rel, req, asked[1]) /\ (p.rel.part > 0 => req.part > 0) =>
           \A f \in PickNumbered(req.ep, NumbersFor(p.rel, req), p.first + 1 .. p.first + franchise[p.entry].eps) :
             p.entry = asked[1] /\ f - p.first = asked[2]
(* The release started by itself does not depend on which site answered first, is no rejected
   one while another is not, and a full swarm buys no lower resolution. *)
BestIsBest ==
  results # <<>> =>
    LET best == Rank(results)[1]
        other == Rank(Reverse(results))[1]
    IN /\ ~Better(best, other) /\ ~Better(other, best)
       /\ \A i, j \in DOMAIN results : i < j => ~Better(Rank(results)[j], Rank(results)[i])
       /\ \A k \in DOMAIN results :
            LET c == results[k]
            IN /\ Rejected(best) => Rejected(c)
               /\ (~Rejected(c) /\ c.conf = best.conf /\ c.batch = best.batch /\ c.sea = best.sea /\ ~c.film) =>
                    ResRank(best) >= ResRank(c)
ChoiceSafe == RightEpisode /\ RightFile /\ BestIsBest

=============================================================================
