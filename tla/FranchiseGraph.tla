---------------------------- MODULE FranchiseGraph ----------------------------
(* The seasons of a show (library/relations.go, store/franchise.go, library/import.go Hydrate):
   opening a page walks AniList's prequel and sequel edges outward, hop by hop, replaces the
   edges of every show that answered, names the members nobody imported and numbers the
   connected groups again.  The site changes meanwhile, pages are opened together, and a page
   that is left breaks its walk off wherever it is.  Shows are numbered in broadcast order;
   films and spin-offs, which are listed and never walked, are left out. *)
EXTENDS Integers, FiniteSets, FiniteSetsExt

CONSTANTS FrShows,    \* a finite set of positive integers
          FrHops,     \* maxHops
          Visitors,   \* pages open at once
          FrUntitled, \* shows nobody has imported yet
          FrEvents    \* bound on changes of the site and walks broken off
ASSUME FrAssumption == {1, 2} \subseteq FrShows /\ FrShows \subseteq Nat \ {0}

VARIABLES frSite,   \* AniList: has, the shows it returns; edges, pairs as two-element sets
          frRel,    \* table relation: <<show, related>>
          frAlone,  \* its self-edges: shows found to stand alone
          frRoot,   \* table franchise: show |-> root, 0 without a row
          frFresh,  \* relation_fetch younger than relationsMaxAge
          frNamed,  \* shows with a title
          frDead,   \* dead_anime
          frWalk,   \* each page's walk
          frCut,    \* history: the site took something back, a walk was broken off half written, or
                    \* one saved what it was told over a newer answer
          frEvents
frVars == <<frSite, frRel, frAlone, frRoot, frFresh, frNamed, frDead, frWalk, frCut, frEvents>>
frStore == <<frRel, frAlone, frRoot, frFresh, frNamed, frDead>>

NoWalk == [pc |-> "idle", show |-> 0, seen |-> {}, front |-> {}, edges |-> {}, fetched |-> {}, hop |-> 0]
FrInit ==
  /\ frSite = [has |-> FrShows, edges |-> {{1, 2}}]
  /\ frRel = {} /\ frAlone = {} /\ frRoot = [a \in FrShows |-> 0] /\ frFresh = {}
  /\ frNamed = FrShows \ FrUntitled /\ frDead = {} /\ frWalk = [v \in Visitors |-> NoWalk]
  /\ frCut = FALSE /\ frEvents = 0

FrUse == frEvents < FrEvents /\ frEvents' = frEvents + 1
Neighbours(G, S) == {e[2] : e \in {x \in G : x[1] \in S}} \cup {e[1] : e \in {x \in G : x[2] \in S}}
(* component: the least set that holds a and the neighbours of all it holds. *)
Component(G, a) ==
  {b \in FrShows : \A S \in SUBSET FrShows : a \in S /\ Neighbours(G, S) \subseteq S => b \in S}

(* HasRelations, RelationsStale. *)
Known(a) == a \in frAlone \/ Neighbours(frRel, {a}) # {} \/ frRoot[a] # 0
(* Franchise, soloFranchise. *)
Seasons(a) ==
  IF frRoot[a] = 0 THEN {a} \cap frNamed
  ELSE {b \in FrShows : frRoot[b] = frRoot[a]} \ frDead
(* nameMembers: without a title and not given up. *)
Untitled(S) == S \ (frNamed \cup frDead)

-----------------------------------------------------------------------------
(* Ensure: a show never walked, or not for a week, is walked; else its members are named. *)
OpenPage(v, a) ==
  /\ frWalk[v].pc = "idle"
  /\ frWalk' = [frWalk EXCEPT ![v] =
       IF ~Known(a) \/ a \notin frFresh
       THEN [NoWalk EXCEPT !.pc = "hop", !.show = a, !.seen = {a}, !.front = {a}]
       ELSE [NoWalk EXCEPT !.pc = IF Untitled(Seasons(a)) = {} THEN "idle" ELSE "names",
                           !.seen = Seasons(a)]]
  /\ UNCHANGED <<frSite, frStore, frCut, frEvents>>
(* Fetch's loop: the edges of the frontier as the site has them now. *)
Hop(v) ==
  LET w == frWalk[v]
      got == w.front \cap frSite.has
      found == {e \in got \X FrShows : {e[1], e[2]} \in frSite.edges}
      next == {e[2] : e \in found} \ w.seen
      last == next = {} \/ w.hop + 1 = FrHops
      fetched == w.fetched \cup got
  IN /\ w.pc = "hop"
     /\ frWalk' = [frWalk EXCEPT ![v] =
          IF last /\ w.show \notin fetched THEN NoWalk
          ELSE [w EXCEPT !.pc = IF last THEN "mark" ELSE "hop", !.seen = @ \cup next, !.front = next,
                         !.edges = @ \cup found, !.fetched = fetched, !.hop = @ + 1]]
     /\ UNCHANGED <<frSite, frStore, frCut, frEvents>>
(* MarkRelationsFetched, before anything is saved. *)
MarkFetched(v) ==
  /\ frWalk[v].pc = "mark"
  /\ frFresh' = frFresh \cup frWalk[v].fetched
  /\ frWalk' = [frWalk EXCEPT ![v].pc = "save"]
  /\ UNCHANGED <<frSite, frRel, frAlone, frRoot, frNamed, frDead, frCut, frEvents>>
(* MarkNoRelations: what is stored of a show that has no edge left stays. *)
MarkAlone(v) ==
  /\ frWalk[v].pc = "save" /\ frWalk[v].edges = {}
  /\ frAlone' = frAlone \cup {frWalk[v].show}
  /\ frWalk' = [frWalk EXCEPT ![v] = NoWalk]
  /\ UNCHANGED <<frSite, frRel, frRoot, frFresh, frNamed, frDead, frCut, frEvents>>
(* SaveRelations: every edge of a show that answered is replaced, with an older answer too. *)
Drops(G, H) == \E e \in G : e \notin H /\ <<e[2], e[1]>> \notin H
SaveRelations(v) ==
  LET w == frWalk[v]
  IN /\ w.pc = "save" /\ w.edges # {}
     /\ frRel' = {e \in frRel : e[1] \notin w.fetched /\ e[2] \notin w.fetched} \cup w.edges
     /\ frCut' = (frCut \/ Drops(frRel, frRel'))
     /\ frWalk' = [frWalk EXCEPT ![v].pc = "names"]
     /\ UNCHANGED <<frSite, frAlone, frRoot, frFresh, frNamed, frDead, frEvents>>

(* Hydrate: an incomplete answer is no proof that a show is gone. *)
GivenUp(missing, got, incomplete) == IF incomplete THEN {} ELSE missing \ got
Hydrate(v, incomplete) ==
  LET w == frWalk[v]
      missing == Untitled(w.seen)
      all == missing \cap frSite.has
  IN /\ w.pc = "names"
     /\ \E got \in IF incomplete THEN SUBSET all ELSE {all} :
          /\ frNamed' = frNamed \cup got
          /\ frDead' = frDead \cup GivenUp(missing, got, incomplete)
     /\ frWalk' = [frWalk EXCEPT ![v] = IF w.edges = {} THEN NoWalk ELSE [w EXCEPT !.pc = "rebuild"]]
     /\ UNCHANGED <<frSite, frRel, frAlone, frRoot, frFresh, frCut, frEvents>>

(* The groups to number: one for each walked show that has an edge between living shows. *)
Groups(ids, G) == {Component(G, a) : a \in {x \in ids : Neighbours(G, {x}) # {}}}
(* RebuildFranchisesFor: the edges are read inside the write. *)
Rebuild(v) ==
  LET ids == frWalk[v].seen
      G == {e \in frRel : e[1] \notin frDead /\ e[2] \notin frDead}
      groups == Groups(ids, G)
      stale == ids \cup UNION groups
  IN /\ frWalk[v].pc = "rebuild"
     /\ frRoot' = [b \in FrShows |->
          IF b \in UNION groups THEN Min(CHOOSE g \in groups : b \in g)
          ELSE IF b \in stale \/ frRoot[b] \in stale THEN 0 ELSE frRoot[b]]
     /\ frWalk' = [frWalk EXCEPT ![v] = NoWalk]
     /\ UNCHANGED <<frSite, frRel, frAlone, frFresh, frNamed, frDead, frCut, frEvents>>

(* The page is left, or a call fails: the walk's context ends.  After the mark it is half written. *)
LeavePage(v) ==
  /\ frWalk[v].pc # "idle" /\ FrUse
  /\ frWalk' = [frWalk EXCEPT ![v] = NoWalk]
  /\ frCut' = (frCut \/ frWalk[v].pc \in {"save", "rebuild"} \/ (frWalk[v].pc = "names" /\ frWalk[v].edges # {}))
  /\ UNCHANGED <<frSite, frStore>>
WeekPasses ==
  /\ frFresh # {} /\ frFresh' = {}
  /\ UNCHANGED <<frSite, frRel, frAlone, frRoot, frNamed, frDead, frWalk, frCut, frEvents>>
(* Remember: a page of AniList's showed it, so it is not gone. *)
Revive(a) ==
  /\ a \in frDead \cap frSite.has
  /\ frNamed' = frNamed \cup {a} /\ frDead' = frDead \ {a}
  /\ UNCHANGED <<frSite, frRel, frAlone, frRoot, frFresh, frWalk, frCut, frEvents>>

(* AniList's editors. *)
SiteLinks(a, b) ==
  /\ a < b /\ {a, b} \subseteq frSite.has /\ {a, b} \notin frSite.edges /\ FrUse
  /\ frSite' = [frSite EXCEPT !.edges = @ \cup {{a, b}}]
  /\ UNCHANGED <<frStore, frWalk, frCut>>
SiteUnlinks(e) ==
  /\ e \in frSite.edges /\ FrUse
  /\ frSite' = [frSite EXCEPT !.edges = @ \ {e}] /\ frCut' = TRUE
  /\ UNCHANGED <<frStore, frWalk>>
SiteRemoves(a) ==
  /\ a \in frSite.has /\ FrUse
  /\ frSite' = [has |-> frSite.has \ {a}, edges |-> {e \in frSite.edges : a \notin e}]
  /\ frCut' = TRUE
  /\ UNCHANGED <<frStore, frWalk>>
SiteReturns(a) ==
  /\ a \notin frSite.has /\ FrUse
  /\ frSite' = [frSite EXCEPT !.has = @ \cup {a}]
  /\ UNCHANGED <<frStore, frWalk, frCut>>

FrNext ==
  \/ \E v \in Visitors : \/ \E a \in FrShows : OpenPage(v, a)
                         \/ Hop(v) \/ MarkFetched(v) \/ MarkAlone(v) \/ SaveRelations(v)
                         \/ \E i \in BOOLEAN : Hydrate(v, i)
                         \/ Rebuild(v) \/ LeavePage(v)
  \/ WeekPasses
  \/ \E a \in FrShows : Revive(a) \/ SiteRemoves(a) \/ SiteReturns(a) \/ \E b \in FrShows : SiteLinks(a, b)
  \/ \E e \in SUBSET FrShows : SiteUnlinks(e)
FrSpec == FrInit /\ [][FrNext]_frVars

-----------------------------------------------------------------------------
(* A show's root is a season of its own franchise, whatever walks crossed: the page asks for
   the seasons of a root. *)
RootsOwnRows == \A a \in FrShows : frRoot[a] # 0 => frRoot[frRoot[a]] = frRoot[a]
(* "Edges read inside the write, or two rebuilds can commit an older graph over a newer one":
   while the site only adds, no walk is broken off half written and none saves an older answer
   over a newer one, the numbered groups are the groups the stored edges make, between walks,
   however many pages walk together. *)
Settled == ~frCut /\ \A v \in Visitors : frWalk[v].pc \in {"rebuild", "names"} => frWalk[v].edges = {}
GroupsAgree ==
  Settled => \A a, b \in FrShows :
    a # b => (b \in Component(frRel, a) <=> (frRoot[a] # 0 /\ frRoot[a] = frRoot[b]))
(* A show the site never took back is never given up, however answers hide it. *)
NoneGivenUp == ~frCut => frDead = {}
FranchiseSafe == RootsOwnRows /\ GroupsAgree /\ NoneGivenUp
=============================================================================
