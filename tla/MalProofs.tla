------------------------------ MODULE MalProofs ------------------------------
(***************************************************************************)
(* Proofs about MalSync: MyAnimeList's copy of the list.  MalInv and       *)
(* JobInv give what an undisturbed job and a removal leave; MalBase and    *)
(* Backed give what a pull may write over and what a push may send.        *)
(***************************************************************************)
EXTENDS MalSync, TLAPS

-----------------------------------------------------------------------------
(* MyAnimeList: what an undisturbed job leaves, and what a removal leaves.  *)

MalRow == [in : BOOLEAN, val : Int, score : Int, changed : Int]
MalTold == [seen : BOOLEAN, val : Int, score : Int]
MalSite == [in : BOOLEAN, val : Int, score : 0 .. 10, at : Int]
MalSnap == [a : Shows, val : Int, score : Int, clears : BOOLEAN]
MalListed == [i : Shows, a : Shows, e : MalSite]
MalMark == [a : Shows, val : Int, score : Int]
MalHolds == {"push", "mark", "entries", "row", "apply"}
MalRun == [pc : MalHolds \cup {"idle", "one", "run", "pull", "rest", "remove", "drop"}, todo : SUBSET (MalSnap \cup MalListed),
           at : Shows \cup {0}, last : MalTold, read : MalSnap \cup MalRow, marks : SUBSET MalMark, then : {"none", "pull"}]
MalShape ==
  /\ oneId \in BOOLEAN /\ listed \in [Shows -> MalRow] /\ told \in [Shows -> MalTold] /\ site \in [Shows -> MalSite]
  /\ mal \in [MalWorkers -> MalRun] /\ malMu \in MalWorkers \cup {"free"} /\ count \in Int
  /\ gone \subseteq Shows /\ calm \in BOOLEAN
\* The lock is held from the first read of a push or a pull to its last write.
MalLock == \A g \in MalWorkers : mal[g].pc \in MalHolds <=> malMu = g
\* What a run holds is of the kind its place says; a request that removes is at a show.
RunAt(w) ==
  /\ w.pc \in {"push", "mark"} => w.todo \subseteq MalSnap
  /\ w.pc = "mark" => w.read \in w.todo
  /\ w.pc \in {"entries", "row", "apply"} => w.todo \subseteq MalListed
  /\ w.pc \in {"row", "apply"} => w.at \in Shows
  /\ w.pc = "apply" => w.read \in MalRow
  /\ w.pc \in {"remove", "drop"} => w.at \in Shows
  /\ w.pc = "pull" => w.marks = {}
RunsAt == \A g \in MalWorkers : RunAt(mal[g])
\* The ids in use; with two shows of one id only that one.
IdOf(one, a) == IF one THEN 1 ELSE a
MalIds == {IdOf(oneId, a) : a \in Shows}
SiteKnown == \A i \in Shows : site[i].in => i \in MalIds
\* While a pull is under way what it listed stays on the site: a removal waits for the lock.
PullHolds(w) == w.pc \in {"entries", "row", "apply"} => \A x \in w.todo : Id(x.a) = x.i /\ x.i \in MalIds /\ site[x.i].in /\ x.e.in
PullsHold == \A g \in MalWorkers : PullHolds(mal[g])
GoneIsOff == \A a \in gone : ~listed[a].in /\ ~site[Id(a)].in
MalInv == MalShape /\ MalLock /\ RunsAt /\ SiteKnown /\ PullsHold /\ GoneIsOff

\* MALScore: whole points, and ten times the points are as many points again.
LEMMA ScoreIs == /\ \A s \in Int : MALScore(s) \in 0 .. 10
                 /\ \A s \in 0 .. 10 : MALScore(s * 10) = s
BY DEF MALScore

\* speaksForMAL of any rows.
SpokenOf(L, all) ==
  LET on == {a \in all : L[a].in}
      from == IF on = {} THEN all ELSE on
  IN CHOOSE a \in from : \A b \in from \ {a} :
       IF on = {} THEN a < b ELSE L[a].changed > L[b].changed \/ (L[a].changed = L[b].changed /\ a < b)
Spoken(L, one, i) == SpokenOf(L, {a \in Shows : IdOf(one, a) = i})
LEMMA SpeakerIs ==
  /\ \A i : Speaker(i) = Spoken(listed, oneId, i)
  /\ \A i : Speaker(i)' = Spoken(listed', oneId', i)
BY DEF Speaker, Spoken, SpokenOf, Id, IdOf, EditedLater

\* Who speaks: the only one; or of two the one listed, or edited later, or the first.
LEMMA SpokenIs ==
  ASSUME NEW L \in [Shows -> MalRow]
  PROVE  /\ Spoken(L, FALSE, 1) = 1 /\ Spoken(L, FALSE, 2) = 2
         /\ Spoken(L, TRUE, 1) = IF L[2].in /\ (~L[1].in \/ L[2].changed > L[1].changed) THEN 2 ELSE 1
<1>1. Shows = {1, 2} /\ L[1].changed \in Int /\ L[2].changed \in Int
  BY DEF Shows, MalRow
<1>2. ASSUME NEW i \in {1, 2} PROVE Spoken(L, FALSE, i) = i
  <2>1. {a \in Shows : IdOf(FALSE, a) = i} = {i}
    BY <1>1, <1>2 DEF IdOf
  <2>2. SpokenOf(L, {i}) = i
    BY DEF SpokenOf
  <2> QED BY <2>1, <2>2 DEF Spoken
<1>3. {a \in Shows : IdOf(TRUE, a) = 1} = {1, 2}
  BY <1>1 DEF IdOf
<1> DEFINE on == {a \in {1, 2} : L[a].in}
           from == IF on = {} THEN {1, 2} ELSE on
           first(a) == \A b \in from \ {a} : IF on = {} THEN a < b ELSE L[a].changed > L[b].changed \/ (L[a].changed = L[b].changed /\ a < b)
           who == IF L[2].in /\ (~L[1].in \/ L[2].changed > L[1].changed) THEN 2 ELSE 1
<1>4. Spoken(L, TRUE, 1) = CHOOSE a \in from : first(a)
  <2>1. Spoken(L, TRUE, 1) = SpokenOf(L, {1, 2})
    BY <1>3 DEF Spoken
  <2>2. SpokenOf(L, {1, 2}) = CHOOSE a \in from : first(a)
    BY DEF SpokenOf
  <2> QED BY <2>1, <2>2
<1>5. who \in from /\ first(who) /\ \A b \in from : first(b) => b = who
  <2>1. CASE ~L[1].in /\ ~L[2].in
    <3>1. on = {} /\ from = {1, 2} /\ who = 1
      BY <2>1
    <3> QED BY <3>1
  <2>2. CASE L[1].in /\ ~L[2].in
    <3>1. on = {1} /\ from = {1} /\ who = 1
      BY <2>2
    <3> QED BY <3>1
  <2>3. CASE ~L[1].in /\ L[2].in
    <3>1. on = {2} /\ from = {2} /\ who = 2
      BY <2>3
    <3> QED BY <3>1
  <2>4. CASE L[1].in /\ L[2].in
    <3>1. on = {1, 2} /\ on # {} /\ from = {1, 2} /\ who = IF L[2].changed > L[1].changed THEN 2 ELSE 1
      BY <2>4
    <3>2. first(1) <=> L[1].changed > L[2].changed \/ L[1].changed = L[2].changed
      BY <3>1
    <3>3. first(2) <=> L[2].changed > L[1].changed
      BY <3>1
    <3> HIDE DEF first, who, from
    <3> QED BY <1>1, <3>1, <3>2, <3>3
  <2> QED BY <2>1, <2>2, <2>3, <2>4
<1>6. Spoken(L, TRUE, 1) = who
  <2> HIDE DEF from, first, who
  <2> QED BY <1>4, <1>5
<1> QED BY <1>2, <1>6

\* A speaker is a show of its id.
LEMMA SpeakerOf ==
  ASSUME MalShape, NEW i \in MalIds
  PROVE  Speaker(i) \in Shows /\ Id(Speaker(i)) = i
BY SpeakerIs, SpokenIs DEF MalShape, MalIds, IdOf, Id, Shows

MalPulls == {"entries", "row", "apply"}
\* A step of one goroutine, whatever it writes: what it owes the invariant.
LEMMA MalStep ==
  ASSUME MalInv, NEW g \in MalWorkers, NEW w \in MalRun, RunAt(w), mal' = [mal EXCEPT ![g] = w],
         oneId' = oneId, listed' \in [Shows -> MalRow], told' \in [Shows -> MalTold], site' \in [Shows -> MalSite],
         count' \in Int, gone' \subseteq Shows, calm' \in BOOLEAN,
         \/ malMu' = malMu /\ (w.pc \in MalHolds <=> mal[g].pc \in MalHolds)
         \/ malMu = "free" /\ malMu' = g /\ w.pc \in MalHolds
         \/ malMu = g /\ malMu' = "free" /\ w.pc \notin MalHolds,
         \A i \in Shows : site'[i].in => site[i].in \/ i \in MalIds,
         (\A i \in Shows : site[i].in => site'[i].in) \/ malMu = "free",
         w.pc \in MalPulls => \A x \in w.todo : Id(x.a) = x.i /\ x.i \in MalIds /\ site'[x.i].in /\ x.e.in,
         \A a \in gone' : ~listed'[a].in /\ ~site'[Id(a)].in
  PROVE  MalInv'
<1>1. /\ mal' \in [MalWorkers -> MalRun] /\ mal'[g] = w /\ \A h \in MalWorkers \ {g} : mal'[h] = mal[h]
  BY DEF MalInv, MalShape
<1>2. malMu' \in MalWorkers \cup {"free"} /\ MalLock'
  <2>1. \A h \in MalWorkers : h # "free"
    BY DEF MalWorkers
  <2> QED BY <1>1, <2>1 DEF MalInv, MalShape, MalLock
<1>3. RunsAt'
  BY <1>1 DEF MalInv, RunsAt
<1>4. SiteKnown' /\ MalIds' = MalIds
  BY DEF MalInv, SiteKnown, MalIds
<1>5. GoneIsOff'
  BY DEF GoneIsOff, Id
<1>6. ASSUME NEW h \in MalWorkers PROVE PullHolds(mal[h])'
  <2>1. CASE h = g
    BY <1>1, <1>4, <2>1 DEF PullHolds, MalPulls, Id
  <2>2. CASE h # g /\ malMu = "free"
    BY <1>1, <2>2 DEF PullHolds, MalInv, MalLock, MalHolds, MalWorkers
  <2>3. CASE h # g /\ \A i \in Shows : site[i].in => site'[i].in
    <3>1. PullHolds(mal[h]) /\ RunAt(mal[h]) /\ mal'[h] = mal[h]
      BY <1>1, <2>3 DEF MalInv, PullsHold, RunsAt
    <3>2. mal[h].pc \in {"entries", "row", "apply"} => \A x \in mal[h].todo : x.i \in Shows
      BY <3>1 DEF RunAt, MalListed
    <3> QED BY <1>4, <2>3, <3>1, <3>2 DEF PullHolds, Id
  <2> QED BY <2>1, <2>2, <2>3
<1>7. PullsHold'
  BY <1>6 DEF PullsHold
<1>8. MalShape'
  BY <1>1, <1>2 DEF MalInv, MalShape
<1> QED BY <1>2, <1>3, <1>4, <1>5, <1>7, <1>8 DEF MalInv

\* A run that begins or ends, and one that begins at a show.
RunPc(p) == [Idle EXCEPT !.pc = p]
RunOn(p, a) == [Idle EXCEPT !.pc = p, !.at = a]
LEMMA IdleIs ==
  /\ Idle \in MalRun /\ RunAt(Idle) /\ Idle.pc = "idle"
  /\ \A p \in {"idle", "one", "run", "pull", "rest"} : RunPc(p) \in MalRun /\ RunPc(p).pc = p /\ RunAt(RunPc(p)) /\ RunPc(p).marks = {}
  /\ \A p \in {"one", "remove"} : \A a \in Shows : RunOn(p, a) \in MalRun /\ RunOn(p, a).pc = p /\ RunAt(RunOn(p, a))
<1>1. NoListing \in MalSnap \cup MalRow /\ NotTold \in MalTold
  BY DEF NoListing, MalRow, NotTold, MalTold
<1>2. Idle \in MalRun /\ Idle.todo = {} /\ Idle.pc = "idle" /\ Idle.marks = {}
  BY <1>1 DEF Idle, MalRun, MalHolds
<1>3. \A p \in {"idle", "one", "run", "pull", "rest"} : RunPc(p) \in MalRun /\ RunPc(p).pc = p /\ RunPc(p).marks = {}
  BY <1>2 DEF MalRun, RunPc
<1>4. \A p \in {"one", "remove"} : \A a \in Shows : RunOn(p, a) \in MalRun /\ RunOn(p, a).pc = p /\ RunOn(p, a).at = a
  BY <1>2 DEF MalRun, RunOn
<1>5. RunAt(Idle)
  BY <1>2 DEF RunAt
<1>6. \A p \in {"idle", "one", "run", "pull", "rest"} : RunAt(RunPc(p))
  BY <1>3 DEF RunAt
<1>7. \A p \in {"one", "remove"} : \A a \in Shows : RunAt(RunOn(p, a))
  BY <1>4 DEF RunAt
<1> QED BY <1>2, <1>3, <1>4, <1>5, <1>6, <1>7

\* Facts of a state that every step reads.
LEMMA MalFacts ==
  ASSUME MalInv
  PROVE  /\ oneId \in BOOLEAN /\ listed \in [Shows -> MalRow] /\ told \in [Shows -> MalTold] /\ site \in [Shows -> MalSite]
         /\ count \in Int /\ gone \subseteq Shows /\ calm \in BOOLEAN
         /\ \A g \in MalWorkers : mal[g] \in MalRun /\ RunAt(mal[g]) /\ PullHolds(mal[g]) /\ (mal[g].pc \in MalHolds <=> malMu = g)
         /\ \A a \in Shows : Id(a) \in MalIds /\ Id(a) \in Shows
         /\ \A a \in gone : ~listed[a].in /\ ~site[Id(a)].in
BY DEF MalInv, MalShape, RunsAt, PullsHold, MalLock, GoneIsOff, MalIds, Id, IdOf, Shows

LEMMA EditShowKeeps ==
  ASSUME MalInv, NEW a \in Shows, NEW s \in MalScores, EditShow(a, s)
  PROVE  MalInv'
<1> DEFINE valued == s = listed[a].score
           row == [in |-> TRUE, score |-> s, changed |-> Bump(a, count + 1), val |-> IF valued THEN count + 1 ELSE listed[a].val]
           w == RunOn("one", a)
<1>1. /\ mal["request"].pc = "idle" /\ count' = count + 1 /\ listed' = [listed EXCEPT ![a] = row] /\ gone' = gone \ {a} /\ calm' = FALSE
      /\ mal' = [mal EXCEPT !["request"] = w] /\ oneId' = oneId /\ told' = told /\ site' = site /\ malMu' = malMu
  BY DEF EditShow, Become, Counted, RunOn
<1>2. row \in MalRow /\ listed' \in [Shows -> MalRow] /\ \A b \in Shows \ {a} : listed'[b] = listed[b]
  <2>1. Bump(a, count + 1) \in Int /\ s \in Int
    BY MalFacts DEF Bump, MalRow, MalScores
  <2>2. row \in MalRow
    BY <2>1, MalFacts DEF MalRow
  <2> HIDE DEF row
  <2> QED BY <1>1, <2>2, MalFacts
<1>3. w \in MalRun /\ RunAt(w) /\ w.pc = "one" /\ "request" \in MalWorkers
  BY IdleIs DEF MalWorkers
<1> HIDE DEF w, row
<1>4. \A b \in gone' : ~listed'[b].in /\ ~site'[Id(b)].in
  BY <1>1, <1>2, MalFacts
<1>5. count' \in Int /\ gone' \subseteq Shows /\ told' \in [Shows -> MalTold] /\ site' \in [Shows -> MalSite]
  BY <1>1, MalFacts
<1>6. calm' \in BOOLEAN
  BY <1>1
<1>7. w.pc \notin MalPulls /\ (w.pc \in MalHolds <=> mal["request"].pc \in MalHolds)
  BY <1>1, <1>3 DEF MalHolds, MalPulls
<1> QED BY <1>1, <1>2, <1>3, <1>4, <1>5, <1>6, <1>7, MalStep

LEMMA MergeKeeps ==
  ASSUME MalInv, NEW a \in Shows, AniListMerge(a)
  PROVE  MalInv'
<1>1. /\ listed[a].in /\ count' = count + 1 /\ listed' = [listed EXCEPT ![a].val = count + 1] /\ calm' = FALSE
      /\ oneId' = oneId /\ told' = told /\ site' = site /\ mal' = mal /\ malMu' = malMu /\ gone' = gone
  BY DEF AniListMerge, Counted, hist
<1>2. listed' \in [Shows -> MalRow] /\ \A b \in Shows : listed'[b].in = listed[b].in
  BY <1>1, MalFacts DEF MalRow
<1>3. "job" \in MalWorkers /\ mal' = [mal EXCEPT !["job"] = mal["job"]]
  BY <1>1 DEF MalInv, MalShape, MalWorkers
<1> DEFINE w == mal["job"]
<1>4. w \in MalRun /\ RunAt(w) /\ PullHolds(w)
  BY <1>3, MalFacts
<1> HIDE DEF w
<1>5. w.pc \in MalPulls => \A x \in w.todo : Id(x.a) = x.i /\ x.i \in MalIds /\ site'[x.i].in /\ x.e.in
  BY <1>1, <1>4 DEF PullHolds, MalPulls
<1>6. \A b \in gone' : ~listed'[b].in /\ ~site'[Id(b)].in
  BY <1>1, <1>2, MalFacts
<1>7. mal' = [mal EXCEPT !["job"] = w] /\ (w.pc \in MalHolds <=> mal["job"].pc \in MalHolds)
  BY <1>3 DEF w
<1>8. count' \in Int /\ gone' \subseteq Shows /\ told' \in [Shows -> MalTold] /\ site' \in [Shows -> MalSite]
  BY <1>1, MalFacts
<1>9. calm' \in BOOLEAN
  BY <1>1
<1> QED BY <1>1, <1>2, <1>3, <1>4, <1>5, <1>6, <1>7, <1>8, <1>9, MalStep

LEMMA OnSiteKeeps ==
  ASSUME MalInv, NEW s \in {0, 8}, OnSite(1, s)
  PROVE  MalInv'
<1> DEFINE v == IF s = site[1].score THEN count + 1 ELSE site[1].val
           row == [in |-> TRUE, val |-> v, score |-> s, at |-> count + 1]
           w == mal["job"]
<1>1. /\ count' = count + 1 /\ site' = [site EXCEPT ![1] = row] /\ calm' = FALSE
      /\ gone' = {a \in gone : Id(a) # 1}
      /\ oneId' = oneId /\ told' = told /\ listed' = listed /\ mal' = mal /\ malMu' = malMu
  BY DEF OnSite, Counted
<1>2. 1 \in Shows /\ 1 \in MalIds /\ "job" \in MalWorkers
  BY DEF Shows, MalIds, IdOf, MalWorkers
<1>3. row \in MalSite
  BY <1>2, MalFacts DEF MalSite
<1>4. mal' = [mal EXCEPT !["job"] = w] /\ w \in MalRun /\ RunAt(w) /\ PullHolds(w)
  BY <1>1, <1>2, MalFacts DEF MalInv, MalShape
<1>9. row.in
  OBVIOUS
<1> HIDE DEF row, w
<1>5. /\ site' \in [Shows -> MalSite] /\ \A i \in Shows : site[i].in => site'[i].in
      /\ \A i \in Shows : i # 1 => site'[i] = site[i]
  BY <1>1, <1>2, <1>3, <1>9, MalFacts
<1>6. w.pc \in MalPulls => \A x \in w.todo : Id(x.a) = x.i /\ x.i \in MalIds /\ site'[x.i].in /\ x.e.in
  BY <1>4, <1>5 DEF PullHolds, MalPulls, RunAt, MalListed
<1>7. \A b \in gone' : ~listed'[b].in /\ ~site'[Id(b)].in
  BY <1>1, <1>5, MalFacts
<1>8. count' \in Int /\ gone' \subseteq Shows /\ told' \in [Shows -> MalTold] /\ listed' \in [Shows -> MalRow]
  BY <1>1, MalFacts
<1>12. calm' \in BOOLEAN
  BY <1>1
<1>10. \A i \in Shows : site'[i].in => site[i].in \/ i \in MalIds
  BY <1>2, <1>5
<1>11. w.pc \in MalHolds <=> mal["job"].pc \in MalHolds
  BY DEF w
<1> QED BY <1>1, <1>2, <1>4, <1>5, <1>6, <1>7, <1>8, <1>10, <1>11, <1>12, MalStep

LEMMA SwitchKeeps ==
  ASSUME MalInv, SwitchAccount
  PROVE  MalInv'
<1> DEFINE w == mal["job"]
<1>1. /\ malMu = "free" /\ told' = [a \in Shows |-> NotTold] /\ site' = [i \in Shows |-> NoSite]
      /\ calm' = FALSE /\ gone' = {} /\ oneId' = oneId /\ listed' = listed /\ mal' = mal /\ malMu' = malMu /\ count' = count
  BY DEF SwitchAccount
<1>2. "job" \in MalWorkers /\ mal' = [mal EXCEPT !["job"] = w] /\ w \in MalRun /\ RunAt(w)
  BY <1>1, MalFacts DEF MalInv, MalShape, MalWorkers
<1>3. told' \in [Shows -> MalTold] /\ site' \in [Shows -> MalSite] /\ \A i \in Shows : ~site'[i].in
  BY <1>1 DEF NotTold, NoSite, MalTold, MalSite
<1>4. w.pc \notin MalPulls /\ (w.pc \in MalHolds <=> mal["job"].pc \in MalHolds)
  BY <1>1, <1>2, MalFacts DEF MalPulls, MalHolds, MalWorkers
<1> HIDE DEF w
<1>5. count' \in Int /\ gone' \subseteq Shows /\ calm' \in BOOLEAN /\ listed' \in [Shows -> MalRow] /\ \A b \in gone' : FALSE
  BY <1>1, MalFacts
<1> QED BY <1>1, <1>2, <1>3, <1>4, <1>5, MalStep

\* A request or the job begins, or what one asked ends: only its place changes.
LEMMA PlaceKeeps ==
  ASSUME MalInv, NEW g \in MalWorkers, NEW w \in MalRun, RunAt(w), mal' = [mal EXCEPT ![g] = w],
         w.pc \notin MalHolds, (malMu' = malMu /\ mal[g].pc \notin MalHolds) \/ (malMu' = "free" /\ mal[g].pc \in MalHolds),
         oneId' = oneId, listed' = listed, told' \in [Shows -> MalTold], site' = site, count' = count, gone' = gone, calm' \in BOOLEAN
  PROVE  MalInv'
<1>1. /\ listed' \in [Shows -> MalRow] /\ site' \in [Shows -> MalSite] /\ count' \in Int /\ gone' \subseteq Shows
      /\ \A b \in gone' : ~listed'[b].in /\ ~site'[Id(b)].in
      /\ mal[g].pc \in MalHolds => malMu = g
  BY MalFacts
<1>2. w.pc \notin MalPulls
  BY DEF MalHolds, MalPulls
<1> QED BY <1>1, <1>2, MalStep

RunJob == [Idle EXCEPT !.pc = "run", !.then = "pull"]
LEMMA RunJobIs == RunJob \in MalRun /\ RunAt(RunJob) /\ RunJob.pc = "run"
BY IdleIs DEF RunJob, RunAt, MalRun

LEMMA BeginKeeps ==
  ASSUME MalInv, StartJob \/ AskSync("run") \/ AskSync("pull") \/ (\E a \in Shows : TakeOff(a))
  PROVE  MalInv'
<1>1. /\ oneId' = oneId /\ listed' = listed /\ told' = told /\ site' = site /\ malMu' = malMu /\ count' = count /\ gone' = gone
  BY DEF StartJob, AskSync, TakeOff, hist
<1>2. calm' \in BOOLEAN
  BY DEF StartJob, AskSync, TakeOff
<1>3. told' \in [Shows -> MalTold] /\ "job" \in MalWorkers /\ "request" \in MalWorkers
  BY <1>1, MalFacts DEF MalWorkers
<1>4. CASE StartJob
  <2>1. mal["job"].pc = "idle" /\ mal' = [mal EXCEPT !["job"] = RunJob]
    BY <1>4 DEF StartJob, Become, RunJob
  <2>2. mal["job"].pc \notin MalHolds /\ RunJob.pc \notin MalHolds
    BY <2>1, RunJobIs DEF MalHolds
  <2> QED BY <1>1, <1>2, <1>3, <2>1, <2>2, RunJobIs, PlaceKeeps
<1>5. ASSUME NEW p \in {"run", "pull"}, AskSync(p) PROVE MalInv'
  <2>1. mal["request"].pc = "idle" /\ mal' = [mal EXCEPT !["request"] = RunPc(p)]
    BY <1>5 DEF AskSync, Become, RunPc
  <2>2. mal["request"].pc \notin MalHolds /\ RunPc(p).pc \notin MalHolds /\ RunPc(p) \in MalRun /\ RunAt(RunPc(p))
    BY <2>1, IdleIs DEF MalHolds
  <2> QED BY <1>1, <1>2, <1>3, <2>1, <2>2, PlaceKeeps
<1>6. ASSUME NEW a \in Shows, TakeOff(a) PROVE MalInv'
  <2>1. mal["request"].pc = "idle" /\ mal' = [mal EXCEPT !["request"] = RunOn("remove", a)]
    BY <1>6 DEF TakeOff, Become, RunOn
  <2>2. mal["request"].pc \notin MalHolds /\ RunOn("remove", a).pc \notin MalHolds /\ RunOn("remove", a) \in MalRun /\ RunAt(RunOn("remove", a))
    BY <2>1, IdleIs DEF MalHolds
  <2> QED BY <1>1, <1>2, <1>3, <2>1, <2>2, PlaceKeeps
<1> QED BY <1>4, <1>5, <1>6

LEMMA EndKeeps ==
  ASSUME MalInv, NEW g \in MalWorkers, RunEnds(g) \/ ListFails(g) \/ PullBreaks(g) \/ JobRests \/ DeleteFails
  PROVE  MalInv'
<1>1. /\ oneId' = oneId /\ listed' = listed /\ told' = told /\ site' = site /\ count' = count /\ gone' = gone
  BY DEF RunEnds, ListFails, PullBreaks, JobRests, DeleteFails, hist
<1>2. calm' \in BOOLEAN
  BY MalFacts DEF RunEnds, ListFails, PullBreaks, JobRests, DeleteFails
<1>3. told' \in [Shows -> MalTold] /\ "job" \in MalWorkers /\ "request" \in MalWorkers
  BY <1>1, MalFacts DEF MalWorkers
<1>4. CASE RunEnds(g) \/ PullBreaks(g)
  <2>1. PICK p \in {"idle", "pull"} : mal' = [mal EXCEPT ![g] = RunPc(p)]
    BY <1>4 DEF RunEnds, PullBreaks, LetGo, Become, RunPc
  <2>2. mal[g].pc \in MalHolds /\ malMu' = "free"
    BY <1>4 DEF RunEnds, PullBreaks, LetGo, MalHolds
  <2>3. RunPc(p).pc \notin MalHolds /\ RunPc(p) \in MalRun /\ RunAt(RunPc(p))
    BY IdleIs DEF MalHolds
  <2> QED BY <1>1, <1>2, <1>3, <2>1, <2>2, <2>3, PlaceKeeps
<1>5. ASSUME NEW h \in MalWorkers, mal[h].pc \notin MalHolds, malMu' = malMu, mal' = [mal EXCEPT ![h] = Idle] PROVE MalInv'
  <2>1. Idle.pc \notin MalHolds /\ Idle \in MalRun /\ RunAt(Idle)
    BY IdleIs DEF MalHolds
  <2> QED BY <1>1, <1>2, <1>3, <1>5, <2>1, PlaceKeeps
<1>6. CASE ListFails(g)
  BY <1>5, <1>6 DEF ListFails, Become, MalHolds
<1>7. CASE JobRests
  BY <1>3, <1>5, <1>7 DEF JobRests, Become, MalHolds
<1>8. CASE DeleteFails
  BY <1>3, <1>5, <1>8 DEF DeleteFails, Become, MalHolds
<1> QED BY <1>4, <1>6, <1>7, <1>8

LEMMA SeedKeeps ==
  ASSUME MalInv, NEW g \in MalWorkers, SeedPushed(g)
  PROVE  MalInv'
<1>1. /\ oneId' = oneId /\ listed' = listed /\ site' = site /\ count' = count /\ gone' = gone /\ calm' = calm /\ malMu' = "free"
      /\ mal[g].pc \in MalHolds
  BY DEF SeedPushed, hist, LetGo, MalHolds
<1>2. told' = [a \in Shows |-> IF \E m \in mal[g].marks : m.a = a
                               THEN LET m == CHOOSE n \in mal[g].marks : n.a = a IN [seen |-> TRUE, val |-> m.val, score |-> m.score]
                               ELSE told[a]]
  BY DEF SeedPushed
<1>3. ASSUME NEW a \in Shows, \E m \in mal[g].marks : m.a = a
      PROVE  (CHOOSE n \in mal[g].marks : n.a = a) \in MalMark
  BY <1>3, MalFacts DEF MalRun
<1>4. told' \in [Shows -> MalTold]
  BY <1>2, <1>3, MalFacts DEF MalTold, MalMark
<1>5. PICK p \in {"idle", "rest"} : mal' = [mal EXCEPT ![g] = RunPc(p)]
  BY DEF SeedPushed, LetGo, Become, RunPc
<1>6. RunPc(p).pc \notin MalHolds /\ RunPc(p) \in MalRun /\ RunAt(RunPc(p))
  BY IdleIs DEF MalHolds
<1>7. calm' \in BOOLEAN
  BY <1>1, MalFacts
<1> QED BY <1>1, <1>4, <1>5, <1>6, <1>7, PlaceKeeps

\* A step under the lock, or one that takes it: what is listed and what the site has stay.
LEMMA HoldKeeps ==
  ASSUME MalInv, NEW g \in MalWorkers, NEW w \in MalRun, RunAt(w), mal' = [mal EXCEPT ![g] = w], w.pc \in MalHolds,
         (malMu' = malMu /\ mal[g].pc \in MalHolds) \/ (malMu = "free" /\ malMu' = g),
         w.pc \in MalPulls => \A x \in w.todo : Id(x.a) = x.i /\ x.i \in MalIds /\ site[x.i].in /\ x.e.in,
         oneId' = oneId, listed' = listed, told' \in [Shows -> MalTold], site' = site, count' = count, gone' = gone, calm' = calm
  PROVE  MalInv'
<1>1. /\ listed' \in [Shows -> MalRow] /\ site' \in [Shows -> MalSite] /\ count' \in Int /\ gone' \subseteq Shows
      /\ \A b \in gone' : ~listed'[b].in /\ ~site'[Id(b)].in
  BY MalFacts
<1>2. calm' \in BOOLEAN
  BY MalFacts
<1> QED BY <1>1, <1>2, MalStep

LEMMA SnapIs == ASSUME MalInv, NEW a \in Shows PROVE Snap(a) \in MalSnap /\ Snap(a).a = a
BY MalFacts DEF Snap, MalSnap, MalRow, MalTold

LEMMA MalRunKeeps ==
  ASSUME MalInv, NEW g \in MalWorkers, Run(g) \/ PushOne(g)
  PROVE  MalInv'
<1>1. PICK S \in SUBSET Shows : mal' = [mal EXCEPT ![g] = [mal[g] EXCEPT !.pc = "push", !.todo = {Snap(a) : a \in S}]]
  <2>1. Pending \in SUBSET Shows /\ Pending \cap {mal[g].at} \in SUBSET Shows
    BY DEF Pending
  <2> QED BY <2>1 DEF Run, PushOne, Become
<1>2. /\ malMu = "free" /\ malMu' = g /\ oneId' = oneId /\ listed' = listed /\ told' = told /\ site' = site /\ count' = count
      /\ gone' = gone /\ calm' = calm
  BY DEF Run, PushOne, hist
<1> DEFINE T == {Snap(a) : a \in S}
           w == [mal[g] EXCEPT !.pc = "push", !.todo = T]
<1>3. T \subseteq MalSnap
  BY SnapIs
<1> HIDE DEF T
<1>4. w \in MalRun /\ w.pc = "push" /\ w.todo = T
  BY <1>3, MalFacts DEF MalRun, MalHolds
<1>5. mal' = [mal EXCEPT ![g] = w]
  BY <1>1 DEF T
<1> HIDE DEF w
<1>6. RunAt(w) /\ w.pc \in MalHolds /\ w.pc \notin MalPulls
  BY <1>3, <1>4 DEF RunAt, MalHolds, MalPulls
<1>7. told' \in [Shows -> MalTold]
  BY <1>2, MalFacts
<1> QED BY <1>2, <1>4, <1>5, <1>6, <1>7, HoldKeeps

\* What the site has once it took an entry.
Taken(e) == [in |-> TRUE, val |-> e.val, at |-> count,
             score |-> IF MALScore(e.score) > 0 \/ e.clears THEN MALScore(e.score) ELSE site[Id(e.a)].score]
LEMMA ReceivedIs ==
  ASSUME MalInv, NEW e \in MalSnap, Received(e)
  PROVE  /\ Id(e.a) \in MalIds /\ Id(e.a) \in Shows /\ site' \in [Shows -> MalSite]
         /\ site'[Id(e.a)] = Taken(e) /\ site'[Id(e.a)].in /\ \A i \in Shows \ {Id(e.a)} : site'[i] = site[i]
         /\ \A i \in Shows : site[i].in => site'[i].in
         /\ \A i \in Shows : site'[i].in => site[i].in \/ i \in MalIds
<1>1. e.a \in Shows /\ e.val \in Int /\ e.score \in Int /\ e.clears \in BOOLEAN
  BY DEF MalSnap
<1>2. Id(e.a) \in MalIds /\ Id(e.a) \in Shows /\ site \in [Shows -> MalSite] /\ count \in Int
  BY <1>1, MalFacts
<1>3. site' = [site EXCEPT ![Id(e.a)] = Taken(e)]
  BY DEF Received, Taken
<1>4. Taken(e) \in MalSite /\ Taken(e).in
  BY <1>1, <1>2, ScoreIs DEF Taken, MalSite
<1> QED BY <1>2, <1>3, <1>4

LEMMA SetKeeps ==
  ASSUME MalInv, NEW g \in MalWorkers, NEW e \in mal[g].todo, SetProgress(g, e)
  PROVE  MalInv'
<1> DEFINE w == [mal[g] EXCEPT !.pc = "mark", !.read = e]
<1>1. /\ mal[g].pc = "push" /\ Received(e) /\ mal' = [mal EXCEPT ![g] = w] /\ gone' = {a \in gone : Id(a) # Id(e.a)}
      /\ oneId' = oneId /\ listed' = listed /\ told' = told /\ malMu' = malMu /\ count' = count /\ calm' = calm
  BY DEF SetProgress, Become
<1>2. e \in MalSnap /\ mal[g] \in MalRun /\ mal[g].todo \subseteq MalSnap
  BY <1>1, MalFacts DEF RunAt
<1>3. w \in MalRun /\ w.pc = "mark" /\ w.todo = mal[g].todo /\ w.read = e
  BY <1>2 DEF MalRun, MalHolds
<1> HIDE DEF w
<1>4. RunAt(w) /\ w.pc \notin MalPulls /\ (w.pc \in MalHolds <=> mal[g].pc \in MalHolds)
  BY <1>1, <1>2, <1>3 DEF RunAt, MalPulls, MalHolds
<1>5. \A b \in gone' : ~listed'[b].in /\ ~site'[Id(b)].in
  BY <1>1, <1>2, MalFacts, ReceivedIs
<1>6. listed' \in [Shows -> MalRow] /\ told' \in [Shows -> MalTold] /\ count' \in Int /\ gone' \subseteq Shows
  BY <1>1, MalFacts
<1>7. calm' \in BOOLEAN
  BY <1>1, MalFacts
<1>8. /\ site' \in [Shows -> MalSite] /\ \A i \in Shows : site[i].in => site'[i].in
      /\ \A i \in Shows : site'[i].in => site[i].in \/ i \in MalIds
  BY <1>1, <1>2, ReceivedIs
<1> QED BY <1>1, <1>3, <1>4, <1>5, <1>6, <1>7, <1>8, MalStep

LEMMA SetFailsKeeps ==
  ASSUME MalInv, NEW g \in MalWorkers, NEW e \in mal[g].todo, SetProgressFails(g, e)
  PROVE  MalInv'
<1>1. /\ mal[g].pc = "push" /\ oneId' = oneId /\ listed' = listed /\ told' = told /\ count' = count /\ calm' = FALSE
      /\ (Received(e) /\ gone' = {a \in gone : Id(a) # Id(e.a)}) \/ (site' = site /\ gone' = gone)
  BY DEF SetProgressFails
<1>2. e \in MalSnap /\ mal[g] \in MalRun /\ mal[g].todo \subseteq MalSnap /\ RunAt(mal[g]) /\ (mal[g].pc \in MalHolds <=> malMu = g)
  BY <1>1, MalFacts DEF RunAt
<1>3. /\ site' \in [Shows -> MalSite] /\ (\A i \in Shows : site[i].in => site'[i].in)
      /\ \A i \in Shows : site'[i].in => site[i].in \/ i \in MalIds
  BY <1>1, <1>2, MalFacts, ReceivedIs
<1>4. gone' \subseteq Shows /\ \A b \in gone' : ~listed'[b].in /\ ~site'[Id(b)].in
  BY <1>1, <1>2, MalFacts, ReceivedIs
<1>5. listed' \in [Shows -> MalRow] /\ told' \in [Shows -> MalTold] /\ count' \in Int
  BY <1>1, MalFacts
<1>6. calm' \in BOOLEAN
  BY <1>1
<1>7. ASSUME NEW w \in MalRun, RunAt(w), mal' = [mal EXCEPT ![g] = w], w.pc = "push", malMu' = malMu PROVE MalInv'
  <2>1. w.pc \notin MalPulls /\ (w.pc \in MalHolds <=> mal[g].pc \in MalHolds)
    BY <1>1, <1>7 DEF MalPulls, MalHolds
  <2> QED BY <1>1, <1>3, <1>4, <1>5, <1>6, <1>7, <2>1, MalStep
<1>8. CASE UNCHANGED <<mal, malMu>>
  <2>1. mal' = [mal EXCEPT ![g] = mal[g]]
    BY <1>8 DEF MalInv, MalShape
  <2> QED BY <1>1, <1>2, <1>7, <1>8, <2>1
<1>9. CASE Become(g, [mal[g] EXCEPT !.todo = @ \ {e}]) /\ malMu' = malMu
  <2> DEFINE T == mal[g].todo \ {e}
             w == [mal[g] EXCEPT !.todo = T]
  <2>1. T \subseteq MalSnap
    BY <1>2
  <2> HIDE DEF T
  <2>2. w \in MalRun /\ w.pc = "push" /\ w.todo = T
    BY <1>1, <1>2, <2>1 DEF MalRun
  <2>3. mal' = [mal EXCEPT ![g] = w]
    BY <1>9 DEF Become, T
  <2> HIDE DEF w
  <2>4. RunAt(w)
    BY <2>1, <2>2 DEF RunAt
  <2> QED BY <1>7, <1>9, <2>2, <2>3, <2>4
<1>10. CASE LetGo(g, "idle")
  <2>1. mal' = [mal EXCEPT ![g] = RunPc("idle")] /\ malMu' = "free" /\ malMu = g
    BY <1>1, <1>2, <1>10 DEF LetGo, Become, RunPc, MalHolds
  <2>2. RunPc("idle") \in MalRun /\ RunAt(RunPc("idle")) /\ RunPc("idle").pc \notin MalHolds /\ RunPc("idle").pc \notin MalPulls
    BY IdleIs DEF MalHolds, MalPulls
  <2> QED BY <1>1, <1>3, <1>4, <1>5, <1>6, <2>1, <2>2, MalStep
<1> QED BY <1>8, <1>9, <1>10 DEF SetProgressFails

LEMMA MarkPushedKeeps ==
  ASSUME MalInv, NEW g \in MalWorkers, MarkPushed(g)
  PROVE  MalInv'
<1> DEFINE e == mal[g].read
           T == mal[g].todo \ {e}
           w == [mal[g] EXCEPT !.pc = "push", !.todo = T, !.read = NoListing]
<1>1. /\ mal[g].pc = "mark" /\ told' = [told EXCEPT ![e.a] = [seen |-> TRUE, val |-> e.val, score |-> e.score]]
      /\ mal' = [mal EXCEPT ![g] = w] /\ oneId' = oneId /\ listed' = listed /\ site' = site /\ malMu' = malMu /\ count' = count
      /\ gone' = gone /\ calm' = calm
  BY DEF MarkPushed, Become
<1>2. e \in MalSnap /\ mal[g] \in MalRun /\ mal[g].todo \subseteq MalSnap
  BY <1>1, MalFacts DEF RunAt
<1>3. T \subseteq MalSnap /\ NoListing \in MalRow
  BY <1>2 DEF NoListing, MalRow
<1>4. told' \in [Shows -> MalTold]
  BY <1>1, <1>2, MalFacts DEF MalTold, MalSnap
<1> HIDE DEF T, e
<1>5. w \in MalRun /\ w.pc = "push" /\ w.todo = T
  BY <1>2, <1>3 DEF MalRun, MalHolds
<1> HIDE DEF w
<1>6. RunAt(w) /\ w.pc \notin MalPulls /\ w.pc \in MalHolds /\ mal[g].pc \in MalHolds
  BY <1>1, <1>3, <1>5 DEF RunAt, MalPulls, MalHolds
<1> QED BY <1>1, <1>4, <1>5, <1>6, HoldKeeps

LEMMA ListKeeps ==
  ASSUME MalInv, NEW g \in MalWorkers, List(g)
  PROVE  MalInv'
<1> DEFINE T == {[i |-> i, a |-> Speaker(i), e |-> site[i]] : i \in {j \in Shows : site[j].in}}
           w == [mal[g] EXCEPT !.pc = "entries", !.todo = T]
<1>1. /\ malMu = "free" /\ malMu' = g /\ mal' = [mal EXCEPT ![g] = w] /\ oneId' = oneId /\ listed' = listed /\ told' = told
      /\ site' = site /\ count' = count /\ gone' = gone /\ calm' = calm
  BY DEF List, Become, hist
<1>2. ASSUME NEW i \in Shows, site[i].in PROVE i \in MalIds /\ Speaker(i) \in Shows /\ Id(Speaker(i)) = i
  BY <1>2, SpeakerOf DEF MalInv, SiteKnown
<1>3. \A x \in T : x \in MalListed /\ Id(x.a) = x.i /\ x.i \in MalIds /\ site[x.i].in /\ x.e.in
  BY <1>2, MalFacts DEF MalListed
<1> HIDE DEF T
<1>4. w \in MalRun /\ w.pc = "entries" /\ w.todo = T
  BY <1>3, MalFacts DEF MalRun, MalHolds
<1> HIDE DEF w
<1>5. RunAt(w) /\ w.pc \in MalHolds
  BY <1>3, <1>4 DEF RunAt, MalHolds
<1>6. told' \in [Shows -> MalTold]
  BY <1>1, MalFacts
<1>7. \A x \in w.todo : Id(x.a) = x.i /\ x.i \in MalIds /\ site[x.i].in /\ x.e.in
  BY <1>3, <1>4
<1> QED BY <1>1, <1>4, <1>5, <1>6, <1>7, HoldKeeps

LEMMA PushedKeeps ==
  ASSUME MalInv, NEW g \in MalWorkers, NEW x \in mal[g].todo, Pushed(g, x)
  PROVE  MalInv'
<1> DEFINE w == [mal[g] EXCEPT !.pc = "row", !.at = x.a, !.last = told[x.a]]
<1>1. /\ mal[g].pc = "entries" /\ malMu' = malMu /\ mal' = [mal EXCEPT ![g] = w] /\ oneId' = oneId /\ listed' = listed /\ told' = told
      /\ site' = site /\ count' = count /\ gone' = gone /\ calm' = calm
  BY DEF Pushed, Become, hist
<1>2. mal[g] \in MalRun /\ mal[g].todo \subseteq MalListed /\ x.a \in Shows /\ told[x.a] \in MalTold /\ PullHolds(mal[g])
  BY <1>1, MalFacts DEF RunAt, MalListed
<1>3. w \in MalRun /\ w.pc = "row" /\ w.todo = mal[g].todo /\ w.last = told[x.a] /\ w.at = x.a
  BY <1>2 DEF MalRun, MalHolds
<1> HIDE DEF w
<1>4. RunAt(w) /\ w.pc \in MalHolds /\ mal[g].pc \in MalHolds
  BY <1>1, <1>2, <1>3 DEF RunAt, MalHolds
<1>5. told' \in [Shows -> MalTold]
  BY <1>1, MalFacts
<1>6. \A y \in w.todo : Id(y.a) = y.i /\ y.i \in MalIds /\ site[y.i].in /\ y.e.in
  BY <1>1, <1>2, <1>3 DEF PullHolds
<1> QED BY <1>1, <1>3, <1>4, <1>5, <1>6, HoldKeeps

LEMMA ReadRowKeeps ==
  ASSUME MalInv, NEW g \in MalWorkers, NEW x \in mal[g].todo, ReadRow(g, x)
  PROVE  MalInv'
<1> DEFINE w == [mal[g] EXCEPT !.pc = "apply", !.read = listed[x.a]]
<1>1. /\ mal[g].pc = "row" /\ x.a = mal[g].at /\ malMu' = malMu /\ mal' = [mal EXCEPT ![g] = w] /\ oneId' = oneId /\ listed' = listed /\ told' = told
      /\ site' = site /\ count' = count /\ gone' = gone /\ calm' = calm
  BY DEF ReadRow, Become, hist
<1>2. mal[g] \in MalRun /\ mal[g].todo \subseteq MalListed /\ x.a \in Shows /\ listed[x.a] \in MalRow /\ PullHolds(mal[g])
  BY <1>1, MalFacts DEF RunAt, MalListed
<1>3. w \in MalRun /\ w.pc = "apply" /\ w.todo = mal[g].todo /\ w.read = listed[x.a] /\ w.at = x.a
  BY <1>1, <1>2 DEF MalRun, MalHolds
<1> HIDE DEF w
<1>4. RunAt(w) /\ w.pc \in MalHolds /\ mal[g].pc \in MalHolds
  BY <1>1, <1>2, <1>3 DEF RunAt, MalHolds
<1>5. told' \in [Shows -> MalTold]
  BY <1>1, MalFacts
<1>6. \A y \in w.todo : Id(y.a) = y.i /\ y.i \in MalIds /\ site[y.i].in /\ y.e.in
  BY <1>1, <1>2, <1>3 DEF PullHolds
<1> QED BY <1>1, <1>3, <1>4, <1>5, <1>6, HoldKeeps

\* ApplyRemote and what follows: what it is about, what it writes, and the mark it leaves.
Applied(g, x) == PulledEntry(mal[g].last, mal[g].read, x.e)
Writes(g, x) == Applied(g, x).do = "write" /\ (~listed[mal[g].at].in \/ listed[mal[g].at].changed <= mal[g].read.changed)
Moved(was, x) == ~(was.seen /\ Says(was, x.e.val, OurScore(was, x.e)))
Marks(g, x) == Moved(mal[g].last, x) /\ Applied(g, x).do # "keep" /\ (Applied(g, x).do = "write" => Writes(g, x))
Written(g, x) == [in |-> TRUE, val |-> Applied(g, x).val, score |-> Applied(g, x).score,
                  changed |-> IF listed[mal[g].at].in THEN Bump(mal[g].at, count) ELSE count]
MarkOf(g, x) == [a |-> mal[g].at, val |-> x.e.val, score |-> OurScore(mal[g].last, x.e)]
AppliedRun(g, x) == [mal[g] EXCEPT !.pc = "entries", !.todo = mal[g].todo \ {x},
                                   !.marks = IF Marks(g, x) THEN mal[g].marks \cup {MarkOf(g, x)} ELSE mal[g].marks]
LEMMA RunMarks ==
  ASSUME NEW r \in MalRun, NEW T
  PROVE  /\ [r EXCEPT !.pc = "entries", !.todo = T] = [r EXCEPT !.pc = "entries", !.todo = T, !.marks = r.marks]
         /\ \A m : [[r EXCEPT !.pc = "entries", !.todo = T] EXCEPT !.marks = @ \cup {m}]
                   = [r EXCEPT !.pc = "entries", !.todo = T, !.marks = r.marks \cup {m}]
BY DEF MalRun
LEMMA ApplyIs ==
  ASSUME MalInv, NEW g \in MalWorkers, NEW x \in mal[g].todo, Apply(g, x)
  PROVE  /\ mal[g].pc = "apply" /\ x.a = mal[g].at /\ x.a \in Shows /\ x \in MalListed /\ mal[g].read \in MalRow /\ mal[g].last \in MalTold
         /\ listed' = IF Writes(g, x) THEN [listed EXCEPT ![x.a] = Written(g, x)] ELSE listed
         /\ Written(g, x) \in MalRow /\ MarkOf(g, x) \in MalMark
         /\ mal' = [mal EXCEPT ![g] = AppliedRun(g, x)]
         /\ AppliedRun(g, x) \in MalRun /\ AppliedRun(g, x).pc = "entries" /\ AppliedRun(g, x).todo = mal[g].todo \ {x}
         /\ AppliedRun(g, x).marks = IF Marks(g, x) THEN mal[g].marks \cup {MarkOf(g, x)} ELSE mal[g].marks
<1> DEFINE a == mal[g].at
           r == mal[g].read
           T == mal[g].todo \ {x}
           M == IF Marks(g, x) THEN mal[g].marks \cup {MarkOf(g, x)} ELSE mal[g].marks
           done == [mal[g] EXCEPT !.pc = "entries", !.todo = T]
           marked == IF Moved(mal[g].last, x) THEN [done EXCEPT !.marks = @ \cup {MarkOf(g, x)}] ELSE done
<1>1. mal[g].pc = "apply" /\ x.a = a
  BY DEF Apply
<1>2. mal[g] \in MalRun /\ mal[g].todo \subseteq MalListed /\ a \in Shows /\ r \in MalRow /\ mal[g].last \in MalTold
  BY <1>1, MalFacts DEF RunAt, MalRun
<1>3. x \in MalListed /\ x.e.val \in Int /\ x.e.score \in Int /\ x.e.at \in Int
  BY <1>2 DEF MalListed, MalSite
<1>4. OurScore(mal[g].last, x.e) \in Int
  BY <1>2, <1>3 DEF OurScore, MalTold
<1>5. Applied(g, x).val \in Int /\ Applied(g, x).score \in Int
  BY <1>2, <1>3, <1>4 DEF Applied, PulledEntry, Merge, MalRow
<1>6. Bump(a, count) \in Int /\ count \in Int
  BY <1>2, MalFacts DEF Bump, MalRow
<1>7. Written(g, x) \in MalRow
  BY <1>5, <1>6 DEF Written, MalRow
<1>8. MarkOf(g, x) \in MalMark
  BY <1>2, <1>3, <1>4 DEF MarkOf, MalMark
<1>9. listed' = IF Writes(g, x) THEN [listed EXCEPT ![x.a] = Written(g, x)] ELSE listed
  BY <1>1 DEF Apply, Writes, Applied, Written
<1>10. mal' = [mal EXCEPT ![g] = IF Applied(g, x).do = "keep" \/ (Applied(g, x).do = "write" /\ ~Writes(g, x)) THEN done ELSE marked]
  BY DEF Apply, Become, Writes, Applied, Moved, MarkOf
<1>11. M \in SUBSET MalMark /\ T \in SUBSET (MalSnap \cup MalListed) /\ mal[g].marks \in SUBSET MalMark
  BY <1>2, <1>8 DEF MalRun
<1>12. AppliedRun(g, x) = [mal[g] EXCEPT !.pc = "entries", !.todo = T, !.marks = M]
  BY DEF AppliedRun
<1> HIDE DEF T
<1>13. (IF Applied(g, x).do = "keep" \/ (Applied(g, x).do = "write" /\ ~Writes(g, x)) THEN done ELSE marked) = AppliedRun(g, x)
  <2>1. CASE Marks(g, x)
    <3>1. (IF Applied(g, x).do = "keep" \/ (Applied(g, x).do = "write" /\ ~Writes(g, x)) THEN done ELSE marked)
          = [done EXCEPT !.marks = @ \cup {MarkOf(g, x)}]
      BY <2>1 DEF Marks
    <3>2. M = mal[g].marks \cup {MarkOf(g, x)}
      BY <2>1
    <3>3. [done EXCEPT !.marks = @ \cup {MarkOf(g, x)}] = [mal[g] EXCEPT !.pc = "entries", !.todo = T, !.marks = mal[g].marks \cup {MarkOf(g, x)}]
      <4> DEFINE q == mal[g]
      <4> HIDE DEF q
      <4>1. [[q EXCEPT !.pc = "entries", !.todo = T] EXCEPT !.marks = @ \cup {MarkOf(g, x)}]
            = [q EXCEPT !.pc = "entries", !.todo = T, !.marks = q.marks \cup {MarkOf(g, x)}]
        BY <1>2, RunMarks DEF q
      <4> QED BY <4>1 DEF q
    <3> HIDE DEF done, marked
    <3> QED BY <1>12, <3>1, <3>2, <3>3
  <2>2. CASE ~Marks(g, x)
    <3>1. (IF Applied(g, x).do = "keep" \/ (Applied(g, x).do = "write" /\ ~Writes(g, x)) THEN done ELSE marked) = done
      BY <2>2 DEF Marks
    <3>2. M = mal[g].marks
      BY <2>2
    <3> QED BY <1>2, <1>12, <3>1, <3>2, RunMarks
  <2> QED BY <2>1, <2>2
<1>14. mal' = [mal EXCEPT ![g] = AppliedRun(g, x)]
  BY <1>10, <1>13
<1> HIDE DEF M
<1>15. AppliedRun(g, x) \in MalRun /\ AppliedRun(g, x).pc = "entries" /\ AppliedRun(g, x).todo = T /\ AppliedRun(g, x).marks = M
  BY <1>2, <1>11, <1>12 DEF MalRun, MalHolds
<1> QED BY <1>1, <1>2, <1>3, <1>7, <1>8, <1>9, <1>14, <1>15 DEF T, M

LEMMA ApplyKeeps ==
  ASSUME MalInv, NEW g \in MalWorkers, NEW x \in mal[g].todo, Apply(g, x)
  PROVE  MalInv'
<1> DEFINE w == AppliedRun(g, x)
<1>1. /\ oneId' = oneId /\ told' = told /\ site' = site /\ malMu' = malMu /\ count' = count /\ gone' = gone /\ calm' = calm
  BY DEF Apply, hist
<1>2. /\ mal[g].pc = "apply" /\ x.a \in Shows /\ mal' = [mal EXCEPT ![g] = w]
      /\ w \in MalRun /\ w.pc = "entries" /\ w.todo = mal[g].todo \ {x}
  BY ApplyIs
<1> HIDE DEF w
<1>3. listed' \in [Shows -> MalRow] /\ \A b \in Shows \ {x.a} : listed'[b] = listed[b]
  <2>1. (listed' = IF Writes(g, x) THEN [listed EXCEPT ![x.a] = Written(g, x)] ELSE listed) /\ Written(g, x) \in MalRow
    BY ApplyIs
  <2>2. listed \in [Shows -> MalRow]
    BY MalFacts
  <2> QED BY <2>1, <2>2
<1>4. PullHolds(mal[g]) /\ RunAt(mal[g])
  BY MalFacts
<1>5. RunAt(w) /\ (w.pc \in MalHolds <=> mal[g].pc \in MalHolds)
  BY <1>2, <1>4 DEF RunAt, MalHolds
<1>6. \A y \in w.todo : Id(y.a) = y.i /\ y.i \in MalIds /\ site'[y.i].in /\ y.e.in
  BY <1>1, <1>2, <1>4 DEF PullHolds
<1>7. \A b \in gone' : ~listed'[b].in /\ ~site'[Id(b)].in
  <2>1. site[Id(x.a)].in
    BY <1>2, <1>4 DEF PullHolds
  <2> QED BY <1>1, <1>3, <2>1, MalFacts
<1>8. told' \in [Shows -> MalTold] /\ site' \in [Shows -> MalSite] /\ count' \in Int /\ gone' \subseteq Shows
  BY <1>1, MalFacts
<1>9. calm' \in BOOLEAN
  BY <1>1, MalFacts
<1> QED BY <1>1, <1>2, <1>3, <1>5, <1>6, <1>7, <1>8, <1>9, MalStep

LEMMA DeleteKeeps ==
  ASSUME MalInv, DeleteOnSite
  PROVE  MalInv'
<1> DEFINE i == Id(mal["request"].at)
           w == [mal["request"] EXCEPT !.pc = "drop"]
<1>1. /\ mal["request"].pc = "remove" /\ malMu = "free" /\ site' = [site EXCEPT ![i] = NoSite] /\ mal' = [mal EXCEPT !["request"] = w]
      /\ oneId' = oneId /\ listed' = listed /\ told' = told /\ malMu' = malMu /\ count' = count /\ gone' = gone /\ calm' = calm
  BY DEF DeleteOnSite, Become, hist
<1>2. "request" \in MalWorkers /\ mal["request"] \in MalRun /\ mal["request"].at \in Shows
  BY <1>1, MalFacts DEF RunAt, MalWorkers
<1>3. w \in MalRun /\ w.pc = "drop" /\ w.at = mal["request"].at
  BY <1>2 DEF MalRun
<1> HIDE DEF w
<1>4. RunAt(w) /\ w.pc \notin MalPulls /\ (w.pc \in MalHolds <=> mal["request"].pc \in MalHolds)
  BY <1>1, <1>2, <1>3 DEF RunAt, MalPulls, MalHolds
<1>9. NoSite \in MalSite /\ ~NoSite.in
  BY DEF NoSite, MalSite
<1>5. site' \in [Shows -> MalSite] /\ \A j \in Shows : site'[j].in => site[j].in
  <2> HIDE DEF i
  <2> QED BY <1>1, <1>9, MalFacts
<1>6. \A b \in gone' : ~listed'[b].in /\ ~site'[Id(b)].in
  BY <1>1, <1>5, MalFacts
<1>7. told' \in [Shows -> MalTold] /\ listed' \in [Shows -> MalRow] /\ count' \in Int /\ gone' \subseteq Shows
  BY <1>1, MalFacts
<1>8. calm' \in BOOLEAN
  BY <1>1, MalFacts
<1> QED BY <1>1, <1>2, <1>3, <1>4, <1>5, <1>6, <1>7, <1>8, MalStep

LEMMA RemoveKeeps ==
  ASSUME MalInv, RemoveListEntry
  PROVE  MalInv'
<1> DEFINE a == mal["request"].at
<1>1. /\ mal["request"].pc = "drop" /\ listed' = [listed EXCEPT ![a] = NoListing] /\ told' = [told EXCEPT ![a] = NotTold]
      /\ gone' = (IF site[Id(a)].in THEN gone ELSE gone \cup {a}) /\ mal' = [mal EXCEPT !["request"] = Idle]
      /\ oneId' = oneId /\ site' = site /\ malMu' = malMu /\ count' = count /\ calm' = calm
  BY DEF RemoveListEntry, Become
<1>2. "request" \in MalWorkers /\ a \in Shows
  BY <1>1, MalFacts DEF RunAt, MalWorkers
<1>3. /\ listed' \in [Shows -> MalRow] /\ told' \in [Shows -> MalTold] /\ ~listed'[a].in
      /\ \A b \in Shows \ {a} : listed'[b] = listed[b]
  BY <1>1, <1>2, MalFacts DEF NoListing, NotTold, MalRow, MalTold
<1>4. Idle \in MalRun /\ RunAt(Idle) /\ Idle.pc \notin MalPulls /\ (Idle.pc \in MalHolds <=> mal["request"].pc \in MalHolds)
  BY <1>1, IdleIs DEF MalPulls, MalHolds
<1> HIDE DEF a
<1>5. gone' \subseteq Shows /\ \A b \in gone' : ~listed'[b].in /\ ~site'[Id(b)].in
  BY <1>1, <1>2, <1>3, MalFacts
<1>6. site' \in [Shows -> MalSite] /\ count' \in Int
  BY <1>1, MalFacts
<1>7. calm' \in BOOLEAN
  BY <1>1, MalFacts
<1> QED BY <1>1, <1>2, <1>3, <1>4, <1>5, <1>6, <1>7, MalStep

LEMMA MalInitInv == MalInit => MalInv
<1> SUFFICES ASSUME MalInit PROVE MalInv
  OBVIOUS
<1>1. MalShape
  <2>1. NoListing \in MalRow /\ NotTold \in MalTold /\ NoSite \in MalSite
    BY DEF NoListing, NotTold, NoSite, MalRow, MalTold, MalSite
  <2>2. calm \in BOOLEAN /\ oneId \in BOOLEAN
    BY DEF MalInit
  <2> QED BY <2>1, <2>2, IdleIs DEF MalInit, MalShape
<1>2. RunsAt /\ PullsHold /\ MalLock
  BY IdleIs DEF MalInit, RunsAt, PullsHold, PullHolds, MalLock, MalHolds, MalWorkers
<1>3. SiteKnown /\ GoneIsOff
  BY DEF MalInit, SiteKnown, GoneIsOff, NoSite
<1> QED BY <1>1, <1>2, <1>3 DEF MalInv

LEMMA MalNextInv == MalInv /\ [MalNext]_malVars => MalInv'
<1> SUFFICES ASSUME MalInv, [MalNext]_malVars PROVE MalInv'
  OBVIOUS
<1>1. CASE UNCHANGED malVars
  <2>1. oneId' = oneId /\ listed' = listed /\ told' = told /\ site' = site /\ mal' = mal /\ malMu' = malMu /\ count' = count /\ gone' = gone /\ calm' = calm
    BY <1>1 DEF malVars
  <2> QED BY <2>1 DEF MalInv, MalShape, MalLock, RunsAt, SiteKnown, PullsHold, PullHolds, GoneIsOff, MalIds, Id
<1>2. ASSUME NEW a \in InPlay, AniListMerge(a) \/ TakeOff(a) \/ \E s \in MalScores : EditShow(a, s) PROVE MalInv'
  <2>1. a \in Shows
    BY DEF InPlay, Shows
  <2> QED BY <1>2, <2>1, MergeKeeps, BeginKeeps, EditShowKeeps
<1>3. ASSUME NEW s \in {0, 8}, OnSite(1, s) PROVE MalInv'
  BY <1>3, OnSiteKeeps
<1>4. CASE SwitchAccount \/ StartJob \/ AskSync("run") \/ AskSync("pull") \/ JobRests \/ DeleteOnSite \/ RemoveListEntry \/ DeleteFails
  <2>1. "job" \in MalWorkers
    BY DEF MalWorkers
  <2> QED BY <1>4, <2>1, SwitchKeeps, BeginKeeps, EndKeeps, DeleteKeeps, RemoveKeeps
<1>5. ASSUME NEW g \in MalWorkers,
             Run(g) \/ PushOne(g) \/ MarkPushed(g) \/ RunEnds(g) \/ List(g) \/ ListFails(g) \/ SeedPushed(g) \/ PullBreaks(g) PROVE MalInv'
  BY <1>5, MalRunKeeps, MarkPushedKeeps, EndKeeps, ListKeeps, SeedKeeps
<1>6. ASSUME NEW g \in MalWorkers, NEW e \in mal[g].todo, SetProgress(g, e) \/ SetProgressFails(g, e) \/ Pushed(g, e) \/ ReadRow(g, e) \/ Apply(g, e) PROVE MalInv'
  BY <1>6, SetKeeps, SetFailsKeeps, PushedKeeps, ReadRowKeeps, ApplyKeeps
<1> QED BY <1>1, <1>2, <1>3, <1>4, <1>5, <1>6 DEF MalNext

-----------------------------------------------------------------------------
\* The job's run as it goes, nothing else happening.
TheJob == mal["job"]
EntryOf(i) == [i |-> i, a |-> Speaker(i), e |-> site[i]]
Unmarked(w, a) == \A m \in w.marks : m.a # a
SaidAs(a) == told[a].seen /\ Says(told[a], listed[a].val, listed[a].score)
\* An entry the pull has yet to apply: nothing of it is left to push.
Waits(w, i) ==
  EntryOf(i) \in w.todo /\ Unmarked(w, Speaker(i)) /\ (listed[Speaker(i)].in => SaidAs(Speaker(i)))
\* One it has applied: told and listed as the site has it, or marked to be.
Agreed(a, i) ==
  told[a].seen /\ (listed[a].in => SaidAs(a) /\ listed[a].val = site[i].val /\ MALScore(listed[a].score) = site[i].score)
MarkedFor(w, a, i) ==
  \E m \in w.marks : /\ m.a = a /\ \A n \in w.marks : n.a = a => n = m
                     /\ listed[a].in /\ m.val = listed[a].val /\ m.score = listed[a].score
                     /\ m.val = site[i].val /\ MALScore(m.score) = site[i].score
DoneWith(w, i) ==
  EntryOf(i) \notin w.todo /\ (MarkedFor(w, Speaker(i), i) \/ (Unmarked(w, Speaker(i)) /\ Agreed(Speaker(i), i)))
JobPlaces == TheJob.pc \in {"idle", "run", "push", "mark", "pull", "entries", "row", "apply", "rest"}
CalmPush == TheJob.pc \in {"push", "mark"} => TheJob.todo = {Snap(a) : a \in Pending}
CalmPull == TheJob.pc = "pull" => Pending = {}
CalmList ==
  TheJob.pc \in MalPulls => /\ \A x \in TheJob.todo : x = EntryOf(x.i)
                         /\ \A i \in MalIds : site[i].in => Waits(TheJob, i) \/ DoneWith(TheJob, i)
CalmRead ==
  (TheJob.pc \in {"row", "apply"} => TheJob.last = told[TheJob.at]) /\ (TheJob.pc = "apply" => TheJob.read = listed[TheJob.at])
JobInv ==
  /\ JobPlaces
  /\ calm => mal["request"].pc = "idle" /\ CalmPush /\ CalmPull /\ CalmList /\ CalmRead /\ JobAgrees

\* pendingMAL of any rows.
PendingOf(L, T, one) ==
  {a \in Shows : L[a].in /\ Spoken(L, one, IdOf(one, a)) = a /\ (~T[a].seen \/ ~Says(T[a], L[a].val, L[a].score))}
LEMMA PendingIs == Pending = PendingOf(listed, told, oneId) /\ Pending' = PendingOf(listed', told', oneId')
BY SpeakerIs DEF Pending, PendingOf, Id, IdOf, Says
\* Nothing of the state is written: who speaks and what is pending stay.
LEMMA SameRows ==
  ASSUME listed' = listed, told' = told, oneId' = oneId
  PROVE  /\ \A i : Speaker(i)' = Speaker(i)
         /\ Pending' = Pending /\ \A a : Snap(a)' = Snap(a)
BY SpeakerIs, PendingIs DEF Snap

\* The job's run becomes w, and w is all that CALM is about.
LEMMA JobBecomes ==
  ASSUME MalInv, NEW w, mal' = [mal EXCEPT !["job"] = w]
  PROVE  TheJob' = w /\ mal'["request"] = mal["request"]
BY DEF MalInv, MalShape, MalWorkers, TheJob

LEMMA JobRunStep ==
  ASSUME MalInv, JobInv, calm, Run("job")
  PROVE  JobInv'
<1> DEFINE T == {Snap(a) : a \in Pending}
           w == [TheJob EXCEPT !.pc = "push", !.todo = T]
<1>1. /\ mal' = [mal EXCEPT !["job"] = w] /\ oneId' = oneId /\ listed' = listed /\ told' = told /\ site' = site /\ calm' = calm
  BY DEF Run, Become, TheJob, hist
<1>2. TheJob \in MalRun
  BY MalFacts DEF TheJob, MalWorkers
<1> HIDE DEF T
<1>3. w.pc = "push" /\ w.todo = T
  BY <1>2 DEF MalRun
<1> HIDE DEF w
<1>4. TheJob' = w /\ mal'["request"] = mal["request"]
  BY <1>1, JobBecomes
<1>5. T = {Snap(a)' : a \in Pending'}
  BY <1>1, SameRows DEF T
<1>6. JobPlaces' /\ CalmPush' /\ CalmPull' /\ CalmList' /\ CalmRead'
  BY <1>3, <1>4, <1>5 DEF JobPlaces, CalmPush, CalmPull, CalmList, CalmRead, MalPulls
<1>7. JobAgrees'
  BY <1>3, <1>4 DEF JobAgrees, TheJob
<1> QED BY <1>4, <1>6, <1>7 DEF JobInv

LEMMA JobSetStep ==
  ASSUME MalInv, JobInv, calm, NEW e \in TheJob.todo, SetProgress("job", e)
  PROVE  JobInv'
<1> DEFINE w == [TheJob EXCEPT !.pc = "mark", !.read = e]
<1>1. /\ TheJob.pc = "push" /\ mal' = [mal EXCEPT !["job"] = w] /\ oneId' = oneId /\ listed' = listed /\ told' = told /\ calm' = calm
  BY DEF SetProgress, Become, TheJob
<1>2. TheJob \in MalRun
  BY MalFacts DEF TheJob, MalWorkers
<1>3. w.pc = "mark" /\ w.todo = TheJob.todo
  BY <1>2 DEF MalRun
<1> HIDE DEF w
<1>4. TheJob' = w /\ mal'["request"] = mal["request"]
  BY <1>1, JobBecomes
<1>5. TheJob.todo = {Snap(a)' : a \in Pending'}
  BY <1>1, SameRows DEF JobInv, CalmPush
<1>6. JobPlaces' /\ CalmPush' /\ CalmPull' /\ CalmList' /\ CalmRead'
  BY <1>3, <1>4, <1>5 DEF JobPlaces, CalmPush, CalmPull, CalmList, CalmRead, MalPulls
<1>7. JobAgrees'
  BY <1>3, <1>4 DEF JobAgrees, TheJob
<1> QED BY <1>4, <1>6, <1>7 DEF JobInv

LEMMA JobMarkStep ==
  ASSUME MalInv, JobInv, calm, MarkPushed("job")
  PROVE  JobInv'
<1> DEFINE e == TheJob.read
           T == TheJob.todo \ {e}
           w == [TheJob EXCEPT !.pc = "push", !.todo = T, !.read = NoListing]
<1>1. /\ TheJob.pc = "mark" /\ mal' = [mal EXCEPT !["job"] = w] /\ oneId' = oneId /\ listed' = listed /\ calm' = calm
      /\ told' = [told EXCEPT ![e.a] = [seen |-> TRUE, val |-> e.val, score |-> e.score]]
  BY DEF MarkPushed, Become, TheJob
<1>2. TheJob \in MalRun /\ e \in TheJob.todo /\ TheJob.todo = {Snap(a) : a \in Pending} /\ listed \in [Shows -> MalRow] /\ told \in [Shows -> MalTold]
  BY <1>1, MalFacts DEF TheJob, MalWorkers, RunAt, JobInv, CalmPush
<1>3. PICK b \in Pending : e = Snap(b)
  BY <1>2
<1>4. b \in Shows /\ e.a = b /\ e.val = listed[b].val /\ e.score = listed[b].score /\ Pending \subseteq Shows
  BY <1>3 DEF Snap, Pending
<1> HIDE DEF e
<1>5. told'[b].seen /\ Says(told'[b], listed[b].val, listed[b].score) /\ \A a \in Shows \ {b} : told'[a] = told[a]
  BY <1>1, <1>2, <1>4 DEF Says
<1>6. Pending' = Pending \ {b}
  BY <1>1, <1>5, PendingIs DEF PendingOf
<1>7. \A a \in Shows \ {b} : Snap(a)' = Snap(a) /\ Snap(a) # e
  BY <1>1, <1>3, <1>4, <1>5 DEF Snap
<1>8. T = {Snap(a)' : a \in Pending'}
  BY <1>2, <1>3, <1>4, <1>6, <1>7
<1> HIDE DEF T
<1>9. w.pc = "push" /\ w.todo = T
  BY <1>2 DEF MalRun
<1> HIDE DEF w
<1>10. TheJob' = w /\ mal'["request"] = mal["request"]
  BY <1>1, JobBecomes
<1>11. JobPlaces' /\ CalmPush' /\ CalmPull' /\ CalmList' /\ CalmRead'
  BY <1>8, <1>9, <1>10 DEF JobPlaces, CalmPush, CalmPull, CalmList, CalmRead, MalPulls
<1>12. JobAgrees'
  BY <1>9, <1>10 DEF JobAgrees, TheJob
<1> QED BY <1>10, <1>11, <1>12 DEF JobInv

LEMMA JobRunEndsStep ==
  ASSUME MalInv, JobInv, calm, RunEnds("job")
  PROVE  JobInv'
<1>1. PICK p \in {"idle", "pull"} : mal' = [mal EXCEPT !["job"] = RunPc(p)]
  BY DEF RunEnds, LetGo, Become, RunPc
<1>2. TheJob.pc = "push" /\ TheJob.todo = {} /\ oneId' = oneId /\ listed' = listed /\ told' = told /\ site' = site /\ calm' = calm
  BY DEF RunEnds, TheJob, hist
<1>3. Pending' = {}
  BY <1>2, SameRows DEF JobInv, CalmPush
<1>4. RunPc(p).pc = p
  BY IdleIs
<1>5. TheJob' = RunPc(p) /\ mal'["request"] = mal["request"]
  BY <1>1, JobBecomes
<1>6. JobPlaces' /\ CalmPush' /\ CalmPull' /\ CalmList' /\ CalmRead'
  BY <1>3, <1>4, <1>5 DEF JobPlaces, CalmPush, CalmPull, CalmList, CalmRead, MalPulls
<1>7. JobAgrees'
  BY <1>4, <1>5 DEF JobAgrees, TheJob
<1> QED BY <1>5, <1>6, <1>7 DEF JobInv

\* What is written elsewhere leaves an entry of the pull as it is.
LEMMA EntryStays ==
  ASSUME NEW j, Speaker(j)' = Speaker(j), site'[j] = site[j], told'[Speaker(j)] = told[Speaker(j)],
         listed'[Speaker(j)] = listed[Speaker(j)], EntryOf(j) \in TheJob.todo <=> EntryOf(j) \in TheJob'.todo,
         \A m : m.a = Speaker(j) => (m \in TheJob.marks <=> m \in TheJob'.marks)
  PROVE  /\ EntryOf(j)' = EntryOf(j)
         /\ Waits(TheJob, j) => Waits(TheJob, j)'
         /\ DoneWith(TheJob, j) => DoneWith(TheJob, j)'
<1>1. EntryOf(j)' = EntryOf(j)
  BY DEF EntryOf
<1>2. Unmarked(TheJob, Speaker(j))' <=> Unmarked(TheJob, Speaker(j))
  BY DEF Unmarked
<1>3. SaidAs(Speaker(j))' <=> SaidAs(Speaker(j))
  BY DEF SaidAs, Says
<1>4. Agreed(Speaker(j), j)' <=> Agreed(Speaker(j), j)
  BY <1>3 DEF Agreed
<1>5. MarkedFor(TheJob, Speaker(j), j) => MarkedFor(TheJob, Speaker(j), j)'
  BY DEF MarkedFor
<1>6. Waits(TheJob, j) => Waits(TheJob, j)'
  BY <1>1, <1>2, <1>3 DEF Waits
<1>7. DoneWith(TheJob, j) => DoneWith(TheJob, j)'
  BY <1>1, <1>2, <1>4, <1>5 DEF DoneWith
<1> QED BY <1>1, <1>6, <1>7

LEMMA JobListStep ==
  ASSUME MalInv, JobInv, calm, List("job")
  PROVE  JobInv'
<1> DEFINE T == {[i |-> i, a |-> Speaker(i), e |-> site[i]] : i \in {j \in Shows : site[j].in}}
           w == [TheJob EXCEPT !.pc = "entries", !.todo = T]
<1>1. /\ TheJob.pc = "pull" /\ mal' = [mal EXCEPT !["job"] = w] /\ oneId' = oneId /\ listed' = listed /\ told' = told /\ site' = site /\ calm' = calm
  BY DEF List, Become, TheJob, hist
<1>2. TheJob \in MalRun /\ TheJob.marks = {} /\ Pending = {} /\ MalShape
  BY <1>1, MalFacts DEF TheJob, MalWorkers, RunAt, JobInv, CalmPull, MalInv
<1>3. \A i \in Shows : site[i].in => EntryOf(i) \in T
  BY DEF EntryOf
<1>4. \A x \in T : x.i \in Shows /\ x = EntryOf(x.i)
  BY DEF EntryOf
<1> HIDE DEF T
<1>5. w.pc = "entries" /\ w.todo = T /\ w.marks = {}
  BY <1>2 DEF MalRun
<1> HIDE DEF w
<1>6. TheJob' = w /\ mal'["request"] = mal["request"]
  BY <1>1, JobBecomes
<1>7. \A i : Speaker(i)' = Speaker(i)
  BY <1>1, SameRows
<1>8. \A i : EntryOf(i)' = EntryOf(i)
  BY <1>1, <1>7 DEF EntryOf
<1>9. ASSUME NEW i \in MalIds, site[i].in PROVE Waits(TheJob, i)'
  <2>1. i \in Shows /\ Speaker(i) \in Shows /\ Id(Speaker(i)) = i
    BY <1>2, SpeakerOf, MalFacts DEF MalIds, Id, IdOf
  <2>2. listed[Speaker(i)].in => SaidAs(Speaker(i))
    BY <1>2, <2>1 DEF Pending, SaidAs
  <2>3. Unmarked(TheJob, Speaker(i))'
    BY <1>5, <1>6 DEF Unmarked
  <2>4. SaidAs(Speaker(i))' <=> SaidAs(Speaker(i))
    BY <1>1, <1>7 DEF SaidAs, Says
  <2>5. EntryOf(i)' \in TheJob'.todo
    BY <1>3, <1>5, <1>6, <1>8, <1>9, <2>1
  <2> QED BY <1>1, <1>7, <2>2, <2>3, <2>4, <2>5 DEF Waits
<1>10. MalIds' = MalIds
  BY <1>1 DEF MalIds
<1>11. CalmList'
  <2>1. \A x \in TheJob'.todo : x = EntryOf(x.i)'
    BY <1>4, <1>5, <1>6, <1>8
  <2> QED BY <1>1, <1>9, <1>10, <2>1 DEF CalmList
<1>12. JobPlaces' /\ CalmPush' /\ CalmPull' /\ CalmRead'
  BY <1>5, <1>6 DEF JobPlaces, CalmPush, CalmPull, CalmRead
<1>13. JobAgrees'
  BY <1>5, <1>6 DEF JobAgrees, TheJob
<1> QED BY <1>6, <1>11, <1>12, <1>13 DEF JobInv

LEMMA JobPushedStep ==
  ASSUME MalInv, JobInv, calm, NEW x \in TheJob.todo, Pushed("job", x)
  PROVE  JobInv'
<1> DEFINE w == [TheJob EXCEPT !.pc = "row", !.at = x.a, !.last = told[x.a]]
<1>1. /\ TheJob.pc = "entries" /\ mal' = [mal EXCEPT !["job"] = w] /\ oneId' = oneId /\ listed' = listed /\ told' = told /\ site' = site /\ calm' = calm
  BY DEF Pushed, Become, TheJob, hist
<1>2. TheJob \in MalRun /\ CalmList
  BY MalFacts DEF TheJob, MalWorkers, JobInv
<1>3. w.pc = "row" /\ w.todo = TheJob.todo /\ w.marks = TheJob.marks /\ w.at = x.a /\ w.last = told[x.a]
  BY <1>2 DEF MalRun
<1> HIDE DEF w
<1>4. TheJob' = w /\ mal'["request"] = mal["request"]
  BY <1>1, JobBecomes
<1>5. \A i : Speaker(i)' = Speaker(i)
  BY <1>1, SameRows
<1>6. ASSUME NEW j PROVE EntryOf(j)' = EntryOf(j) /\ (Waits(TheJob, j) => Waits(TheJob, j)') /\ (DoneWith(TheJob, j) => DoneWith(TheJob, j)')
  <2>1. TheJob'.todo = TheJob.todo /\ TheJob'.marks = TheJob.marks
    BY <1>3, <1>4
  <2> QED BY <1>1, <1>5, <2>1, EntryStays
<1>7. MalIds' = MalIds
  BY <1>1 DEF MalIds
<1>8. CalmList'
  <2>1. \A y \in TheJob'.todo : y = EntryOf(y.i)'
    BY <1>1, <1>2, <1>3, <1>4, <1>6 DEF CalmList, MalPulls
  <2>2. \A i \in MalIds : site[i].in => Waits(TheJob, i)' \/ DoneWith(TheJob, i)'
    BY <1>1, <1>2, <1>6 DEF CalmList, MalPulls
  <2> QED BY <1>1, <1>7, <2>1, <2>2 DEF CalmList
<1>9. JobPlaces' /\ CalmPush' /\ CalmPull' /\ CalmRead'
  BY <1>1, <1>3, <1>4 DEF JobPlaces, CalmPush, CalmPull, CalmRead
<1>10. JobAgrees'
  BY <1>3, <1>4 DEF JobAgrees, TheJob
<1> QED BY <1>4, <1>8, <1>9, <1>10 DEF JobInv

LEMMA JobReadStep ==
  ASSUME MalInv, JobInv, calm, NEW x \in TheJob.todo, ReadRow("job", x)
  PROVE  JobInv'
<1> DEFINE w == [TheJob EXCEPT !.pc = "apply", !.read = listed[x.a]]
<1>1. /\ TheJob.pc = "row" /\ x.a = TheJob.at /\ mal' = [mal EXCEPT !["job"] = w] /\ oneId' = oneId /\ listed' = listed /\ told' = told /\ site' = site /\ calm' = calm
  BY DEF ReadRow, Become, TheJob, hist
<1>2. TheJob \in MalRun /\ CalmList /\ TheJob.last = told[TheJob.at]
  BY <1>1, MalFacts DEF TheJob, MalWorkers, JobInv, CalmRead
<1>3. w.pc = "apply" /\ w.todo = TheJob.todo /\ w.marks = TheJob.marks /\ w.at = x.a /\ w.last = TheJob.last /\ w.read = listed[x.a]
  BY <1>1, <1>2 DEF MalRun
<1> HIDE DEF w
<1>4. TheJob' = w /\ mal'["request"] = mal["request"]
  BY <1>1, JobBecomes
<1>5. \A i : Speaker(i)' = Speaker(i)
  BY <1>1, SameRows
<1>6. ASSUME NEW j PROVE EntryOf(j)' = EntryOf(j) /\ (Waits(TheJob, j) => Waits(TheJob, j)') /\ (DoneWith(TheJob, j) => DoneWith(TheJob, j)')
  <2>1. TheJob'.todo = TheJob.todo /\ TheJob'.marks = TheJob.marks
    BY <1>3, <1>4
  <2> QED BY <1>1, <1>5, <2>1, EntryStays
<1>7. MalIds' = MalIds
  BY <1>1 DEF MalIds
<1>8. CalmList'
  <2>1. \A y \in TheJob'.todo : y = EntryOf(y.i)'
    BY <1>1, <1>2, <1>3, <1>4, <1>6 DEF CalmList, MalPulls
  <2>2. \A i \in MalIds : site[i].in => Waits(TheJob, i)' \/ DoneWith(TheJob, i)'
    BY <1>1, <1>2, <1>6 DEF CalmList, MalPulls
  <2> QED BY <1>1, <1>7, <2>1, <2>2 DEF CalmList
<1>9. JobPlaces' /\ CalmPush' /\ CalmPull' /\ CalmRead'
  BY <1>1, <1>2, <1>3, <1>4 DEF JobPlaces, CalmPush, CalmPull, CalmRead
<1>10. JobAgrees'
  BY <1>3, <1>4 DEF JobAgrees, TheJob
<1> QED BY <1>4, <1>8, <1>9, <1>10 DEF JobInv

\* Who speaks for an id still does when its row is written anew.
LEMMA SpeakerStays ==
  ASSUME MalInv, NEW a \in Shows, NEW row \in MalRow, row.in, listed[a].in => row.changed >= listed[a].changed,
         Speaker(Id(a)) = a, listed' = [listed EXCEPT ![a] = row], oneId' = oneId
  PROVE  \A j \in MalIds : Speaker(j)' = Speaker(j)
<1>1. listed \in [Shows -> MalRow] /\ listed' \in [Shows -> MalRow] /\ oneId \in BOOLEAN /\ Shows = {1, 2}
  BY MalFacts DEF Shows
<1>2. listed'[a] = row /\ (\A b \in Shows \ {a} : listed'[b] = listed[b]) /\ \A b \in Shows : listed[b].changed \in Int /\ row.changed \in Int
  BY <1>1 DEF MalRow
<1>3. CASE ~oneId
  <2>1. MalIds = {1, 2}
    BY <1>1, <1>3 DEF MalIds, IdOf
  <2>2. \A i : Speaker(i) = Spoken(listed, FALSE, i) /\ Speaker(i)' = Spoken(listed', FALSE, i)
    BY <1>1, <1>3, SpeakerIs
  <2>3. \A L \in {listed, listed'} : Spoken(L, FALSE, 1) = 1 /\ Spoken(L, FALSE, 2) = 2
    BY <1>1, SpokenIs
  <2> QED BY <2>1, <2>2, <2>3
<1>4. CASE oneId
  <2>1. MalIds = {1} /\ Id(a) = 1
    BY <1>4 DEF MalIds, IdOf, Id, Shows
  <2>2. Speaker(1) = IF listed[2].in /\ (~listed[1].in \/ listed[2].changed > listed[1].changed) THEN 2 ELSE 1
    BY <1>1, <1>4, SpeakerIs, SpokenIs
  <2>3. Speaker(1)' = IF listed'[2].in /\ (~listed'[1].in \/ listed'[2].changed > listed'[1].changed) THEN 2 ELSE 1
    BY <1>1, <1>4, SpeakerIs, SpokenIs
  <2>4. CASE a = 1
    BY <1>1, <1>2, <2>1, <2>2, <2>3, <2>4
  <2>5. CASE a = 2
    BY <1>1, <1>2, <2>1, <2>2, <2>3, <2>5
  <2> QED BY <1>1, <2>4, <2>5
<1> QED BY <1>1, <1>3, <1>4

\* What the pull makes of an entry nothing is left to push of: it is told as the site has it, or it
\* is written and marked as the site has it.
LEMMA CalmApply ==
  ASSUME MalInv, JobInv, calm, NEW x \in TheJob.todo, Apply("job", x)
  PROVE  LET a == x.a
             s == OurScore(told[a], x.e)
         IN /\ x.i \in MalIds /\ site[x.i].in /\ a = Speaker(x.i) /\ x.e = site[x.i] /\ Id(a) = x.i /\ Waits(TheJob, x.i)
            /\ MALScore(s) = x.e.score
            /\ \/ ~Writes("job", x) /\ ~Marks("job", x) /\ told[a].seen /\ Says(told[a], x.e.val, s)
               \/ Writes("job", x) /\ Marks("job", x) /\ Written("job", x).val = x.e.val /\ Written("job", x).score = s
<1> DEFINE a == x.a
           s == OurScore(told[a], x.e)
<1>1. "job" \in MalWorkers /\ TheJob = mal["job"]
  BY DEF TheJob, MalWorkers
<1>2. TheJob.pc = "apply" /\ a = TheJob.at /\ a \in Shows /\ x \in MalListed
  BY <1>1, ApplyIs
<1>3. x = EntryOf(x.i) /\ Id(a) = x.i /\ x.i \in MalIds /\ site[x.i].in
  BY <1>1, <1>2, MalFacts DEF PullHolds, JobInv, CalmList, MalPulls
<1>4. a = Speaker(x.i) /\ x.e = site[x.i]
  BY <1>3 DEF EntryOf
<1>5. Waits(TheJob, x.i)
  BY <1>2, <1>3 DEF JobInv, CalmList, MalPulls, DoneWith
<1>6. MALScore(s) = x.e.score
  <2>1. x.e.score \in 0 .. 10
    BY <1>2 DEF MalListed, MalSite
  <2> QED BY <2>1, ScoreIs DEF OurScore
<1>7. TheJob.read = listed[a] /\ TheJob.last = told[a]
  BY <1>2 DEF JobInv, CalmRead
<1>8. listed[a].in => told[a].seen /\ Says(told[a], listed[a].val, listed[a].score)
  BY <1>4, <1>5 DEF Waits, SaidAs
<1>9. listed[a].changed \in Int /\ listed[a].in \in BOOLEAN
  BY <1>2, MalFacts DEF MalRow
<1>10. Applied("job", x) = PulledEntry(told[a], listed[a], x.e)
  BY <1>1, <1>2, <1>7 DEF Applied
<1> HIDE DEF s
<1>11. CASE told[a].seen /\ Says(told[a], x.e.val, s)
  <2>1. Applied("job", x).do = "none"
    BY <1>10, <1>11 DEF PulledEntry, s
  <2>2. ~Moved(told[a], x)
    BY <1>11 DEF Moved, s
  <2> QED BY <1>1, <1>2, <1>3, <1>4, <1>5, <1>6, <1>7, <1>11, <2>1, <2>2 DEF Writes, Marks, s
<1>12. CASE ~(told[a].seen /\ Says(told[a], x.e.val, s))
  <2>1. Applied("job", x) = [do |-> "write", val |-> x.e.val, score |-> s]
    <3>1. CASE ~listed[a].in
      BY <1>10, <1>12, <3>1 DEF PulledEntry, s
    <3>2. CASE listed[a].in
      BY <1>8, <1>10, <1>12, <3>2 DEF PulledEntry, s
    <3> QED BY <3>1, <3>2
  <2>2. Writes("job", x)
    BY <1>1, <1>2, <1>7, <1>9, <2>1 DEF Writes
  <2>3. Marks("job", x)
    BY <1>1, <1>2, <1>7, <1>12, <2>1, <2>2 DEF Marks, Moved, s
  <2>4. Written("job", x).val = x.e.val /\ Written("job", x).score = s
    BY <2>1 DEF Written
  <2> QED BY <1>3, <1>4, <1>5, <1>6, <2>2, <2>3, <2>4 DEF s
<1> QED BY <1>11, <1>12

LEMMA JobApplyStep ==
  ASSUME MalInv, JobInv, calm, NEW x \in TheJob.todo, Apply("job", x)
  PROVE  JobInv'
<1> DEFINE a == x.a
           i == x.i
           s == OurScore(told[a], x.e)
           w == AppliedRun("job", x)
           m == MarkOf("job", x)
<1>1. oneId' = oneId /\ told' = told /\ site' = site /\ calm' = calm /\ MalIds' = MalIds
  BY DEF Apply, hist, MalIds
<1>2. "job" \in MalWorkers /\ TheJob = mal["job"]
  BY DEF TheJob, MalWorkers
<1>3. /\ a \in Shows /\ TheJob.pc = "apply" /\ a = TheJob.at /\ x \in MalListed
      /\ listed' = IF Writes("job", x) THEN [listed EXCEPT ![a] = Written("job", x)] ELSE listed
      /\ Written("job", x) \in MalRow /\ m \in MalMark
      /\ mal' = [mal EXCEPT !["job"] = w] /\ w.pc = "entries" /\ w.todo = TheJob.todo \ {x}
      /\ w.marks = IF Marks("job", x) THEN TheJob.marks \cup {m} ELSE TheJob.marks
  BY <1>2, ApplyIs
<1>4. /\ i \in MalIds /\ site[i].in /\ a = Speaker(i) /\ x.e = site[i] /\ Id(a) = i /\ Waits(TheJob, i) /\ MALScore(s) = x.e.score
      /\ \/ ~Writes("job", x) /\ ~Marks("job", x) /\ told[a].seen /\ Says(told[a], x.e.val, s)
         \/ Writes("job", x) /\ Marks("job", x) /\ Written("job", x).val = x.e.val /\ Written("job", x).score = s
  BY CalmApply
<1>5. m.a = a /\ m.val = x.e.val /\ m.score = s
  <2>1. TheJob.last = told[a]
    BY <1>3 DEF JobInv, CalmRead
  <2> QED BY <1>2, <1>3, <2>1 DEF MarkOf
<1>6. Written("job", x).in /\ (listed[a].in => Written("job", x).changed >= listed[a].changed)
  <2>1. listed[a].changed \in Int /\ count \in Int
    BY <1>3, MalFacts DEF MalRow
  <2> QED BY <1>2, <1>3, <2>1 DEF Written, Bump
<1>7. x = EntryOf(i) /\ \A y \in TheJob.todo : y = EntryOf(y.i)
  BY <1>3 DEF JobInv, CalmList, MalPulls
<1> HIDE DEF w, m, s
<1>8. TheJob' = w /\ mal'["request"] = mal["request"]
  BY <1>3, JobBecomes
<1>9. \A j \in MalIds : Speaker(j)' = Speaker(j)
  <2>1. CASE Writes("job", x)
    BY <1>1, <1>3, <1>4, <1>6, <2>1, SpeakerStays
  <2>2. CASE ~Writes("job", x)
    BY <1>1, <1>3, <2>2, SameRows
  <2> QED BY <2>1, <2>2
<1>10. ASSUME NEW j \in MalIds, j # i
       PROVE  EntryOf(j)' = EntryOf(j) /\ (Waits(TheJob, j) => Waits(TheJob, j)') /\ (DoneWith(TheJob, j) => DoneWith(TheJob, j)')
  <2>1. Speaker(j) \in Shows /\ Speaker(j) # a
    BY <1>4, <1>10, SpeakerOf DEF MalInv
  <2>2. listed'[Speaker(j)] = listed[Speaker(j)]
    BY <1>3, <2>1, MalFacts
  <2>3. EntryOf(j) # x
    BY <1>10 DEF EntryOf
  <2>4. EntryOf(j) \in TheJob.todo <=> EntryOf(j) \in TheJob'.todo
    BY <1>3, <1>8, <2>3
  <2>5. \A n : n.a = Speaker(j) => (n \in TheJob.marks <=> n \in TheJob'.marks)
    BY <1>3, <1>5, <1>8, <2>1
  <2> QED BY <1>1, <1>9, <2>2, <2>4, <2>5, EntryStays
<1>11. EntryOf(i)' = EntryOf(i) /\ EntryOf(i)' \notin TheJob'.todo /\ Speaker(i)' = a
  <2>1. Speaker(i)' = Speaker(i)
    BY <1>4, <1>9
  <2>2. EntryOf(i)' = EntryOf(i)
    BY <1>1, <2>1 DEF EntryOf
  <2> QED BY <1>3, <1>4, <1>7, <1>8, <2>1, <2>2
<1>12. Unmarked(TheJob, a) /\ (listed[a].in => SaidAs(a))
  BY <1>4 DEF Waits
<1>13. DoneWith(TheJob, i)'
  <2>1. CASE ~Writes("job", x) /\ ~Marks("job", x) /\ told[a].seen /\ Says(told[a], x.e.val, s)
    <3>1. TheJob'.marks = TheJob.marks /\ listed' = listed
      BY <1>3, <1>8, <2>1
    <3>2. Unmarked(TheJob', a)
      BY <1>12, <3>1 DEF Unmarked
    <3>3. listed[a].in => listed[a].val = site[i].val /\ MALScore(listed[a].score) = site[i].score
      BY <1>4, <1>12, <2>1 DEF SaidAs, Says
    <3>4. Agreed(Speaker(i), i)'
      BY <1>1, <1>11, <1>12, <2>1, <3>1, <3>3 DEF Agreed, SaidAs, Says
    <3> QED BY <1>11, <3>2, <3>4 DEF DoneWith, Unmarked
  <2>2. CASE Writes("job", x) /\ Marks("job", x) /\ Written("job", x).val = x.e.val /\ Written("job", x).score = s
    <3>1. TheJob'.marks = TheJob.marks \cup {m} /\ listed'[a] = Written("job", x)
      BY <1>3, <1>8, <2>2, MalFacts
    <3>2. m \in TheJob'.marks /\ \A n \in TheJob'.marks : n.a = a => n = m
      BY <1>12, <3>1 DEF Unmarked
    <3>3. MarkedFor(TheJob, Speaker(i), i)'
      BY <1>1, <1>4, <1>5, <1>6, <1>11, <2>2, <3>1, <3>2 DEF MarkedFor
    <3> QED BY <1>11, <3>3 DEF DoneWith
  <2> QED BY <1>4, <2>1, <2>2
<1>14. CalmList'
  <2>1. \A y \in TheJob'.todo : y = EntryOf(y.i)'
    <3> SUFFICES ASSUME NEW y \in TheJob'.todo PROVE y = EntryOf(y.i)'
      OBVIOUS
    <3>1. y \in TheJob.todo /\ y # x /\ y = EntryOf(y.i) /\ y.i \in MalIds
      BY <1>2, <1>3, <1>7, <1>8, MalFacts DEF PullHolds
    <3>2. y.i # i
      BY <1>7, <3>1
    <3> QED BY <1>10, <3>1, <3>2
  <2>2. \A j \in MalIds : site[j].in => Waits(TheJob, j)' \/ DoneWith(TheJob, j)'
    BY <1>3, <1>10, <1>13 DEF JobInv, CalmList, MalPulls
  <2> QED BY <1>1, <2>1, <2>2 DEF CalmList
<1>15. JobPlaces' /\ CalmPush' /\ CalmPull' /\ CalmRead'
  BY <1>3, <1>8 DEF JobPlaces, CalmPush, CalmPull, CalmRead
<1>16. JobAgrees'
  BY <1>3, <1>8 DEF JobAgrees, TheJob
<1> QED BY <1>8, <1>14, <1>15, <1>16 DEF JobInv

LEMMA JobSeedStep ==
  ASSUME MalInv, JobInv, calm, SeedPushed("job")
  PROVE  JobInv'
<1>1. /\ TheJob.pc = "entries" /\ TheJob.todo = {} /\ oneId' = oneId /\ listed' = listed /\ site' = site /\ calm' = calm
  BY DEF SeedPushed, TheJob, hist
<1>2. told' = [a \in Shows |-> IF \E m \in TheJob.marks : m.a = a
                               THEN LET m == CHOOSE n \in TheJob.marks : n.a = a IN [seen |-> TRUE, val |-> m.val, score |-> m.score]
                               ELSE told[a]]
  BY DEF SeedPushed, TheJob
<1>3. mal' = [mal EXCEPT !["job"] = RunPc("rest")]
  BY DEF SeedPushed, LetGo, Become, RunPc
<1>4. TheJob' = RunPc("rest") /\ mal'["request"] = mal["request"] /\ RunPc("rest").pc = "rest"
  BY <1>3, JobBecomes, IdleIs
<1>5. \A i : Speaker(i)' = Speaker(i)
  BY <1>1, SpeakerIs
<1>6. ASSUME NEW i \in MalIds, site[i].in
      PROVE  LET a == Speaker(i) IN
             IF listed[a].in THEN listed[a].val = site[i].val /\ MALScore(listed[a].score) = site[i].score /\ a \notin Pending'
                             ELSE told'[a].seen
  <2> DEFINE a == Speaker(i)
  <2>1. DoneWith(TheJob, i)
    BY <1>1, <1>6 DEF JobInv, CalmList, MalPulls, Waits
  <2>2. a \in Shows
    BY SpeakerOf DEF MalInv
  <2>3. told'[a].seen /\ Says(told'[a], listed[a].val, listed[a].score) => a \notin Pending'
    BY <1>1, PendingIs DEF PendingOf
  <2> HIDE DEF a
  <2>4. CASE MarkedFor(TheJob, a, i)
    <3>1. PICK m \in TheJob.marks : /\ m.a = a /\ \A n \in TheJob.marks : n.a = a => n = m
                                 /\ listed[a].in /\ m.val = listed[a].val /\ m.score = listed[a].score
                                 /\ m.val = site[i].val /\ MALScore(m.score) = site[i].score
      BY <2>4 DEF MarkedFor
    <3>2. (CHOOSE n \in TheJob.marks : n.a = a) = m
      BY <3>1
    <3>3. told'[a] = [seen |-> TRUE, val |-> m.val, score |-> m.score]
      BY <1>2, <2>2, <3>1, <3>2
    <3>4. told'[a].seen /\ Says(told'[a], listed[a].val, listed[a].score)
      BY <3>1, <3>3 DEF Says
    <3> QED BY <2>3, <3>1, <3>4 DEF a
  <2>5. CASE Unmarked(TheJob, a) /\ Agreed(a, i)
    <3>1. told'[a] = told[a]
      BY <1>2, <2>2, <2>5 DEF Unmarked
    <3> QED BY <2>3, <2>5, <3>1 DEF Agreed, SaidAs, a
  <2> QED BY <2>1, <2>4, <2>5 DEF DoneWith, a
<1>7. {Id(b)' : b \in Shows} = MalIds
  BY <1>1 DEF MalIds, Id, IdOf
<1>8. JobAgrees'
  BY <1>1, <1>5, <1>6, <1>7 DEF JobAgrees
<1>9. JobPlaces' /\ CalmPush' /\ CalmPull' /\ CalmList' /\ CalmRead'
  BY <1>4 DEF JobPlaces, CalmPush, CalmPull, CalmList, CalmRead, MalPulls
<1> QED BY <1>4, <1>8, <1>9 DEF JobInv

\* The job begins or rests: there is nothing to say of it yet, or no more.
LEMMA JobEdgeStep ==
  ASSUME MalInv, JobInv, StartJob \/ (calm /\ JobRests)
  PROVE  JobInv'
<1>1. PICK w \in {RunJob, Idle} : mal' = [mal EXCEPT !["job"] = w]
  BY DEF StartJob, JobRests, Become, RunJob
<1>2. w.pc \in {"run", "idle"}
  BY RunJobIs, IdleIs
<1>3. TheJob' = w /\ mal'["request"] = mal["request"]
  BY <1>1, JobBecomes
<1>4. calm' => mal["request"].pc = "idle"
  BY DEF StartJob, JobRests, JobInv
<1>5. JobPlaces' /\ CalmPush' /\ CalmPull' /\ CalmList' /\ CalmRead'
  BY <1>2, <1>3 DEF JobPlaces, CalmPush, CalmPull, CalmList, CalmRead, MalPulls
<1>6. JobAgrees'
  BY <1>2, <1>3 DEF JobAgrees, TheJob
<1> QED BY <1>3, <1>4, <1>5, <1>6 DEF JobInv

\* The places of the job: it never pushes one show or removes one.
LEMMA PlacesNext ==
  ASSUME MalInv, JobPlaces, [MalNext]_malVars
  PROVE  JobPlaces'
<1> DEFINE Q == {"idle", "run", "push", "mark", "pull", "entries", "row", "apply", "rest"}
<1>1. TheJob.pc \in Q /\ "job" \in MalWorkers /\ "request" \in MalWorkers /\ "job" # "request" /\ mal \in [MalWorkers -> MalRun] /\ TheJob \in MalRun
  BY MalFacts DEF JobPlaces, TheJob, MalWorkers, MalInv, MalShape
<1>2. ASSUME NEW w, mal' = [mal EXCEPT !["request"] = w] PROVE JobPlaces'
  BY <1>1, <1>2 DEF JobPlaces, TheJob
<1>3. ASSUME NEW w, mal' = [mal EXCEPT !["job"] = w], w.pc \in Q PROVE JobPlaces'
  BY <1>1, <1>3 DEF JobPlaces, TheJob
<1>4. CASE mal' = mal
  BY <1>1, <1>4 DEF JobPlaces, TheJob
<1>5. ASSUME NEW a \in InPlay, AniListMerge(a) \/ TakeOff(a) \/ \E s \in MalScores : EditShow(a, s) PROVE JobPlaces'
  BY <1>2, <1>4, <1>5 DEF AniListMerge, TakeOff, EditShow, Become
<1>6. ASSUME NEW s \in {0, 8}, OnSite(1, s) PROVE JobPlaces'
  BY <1>4, <1>6 DEF OnSite
<1>7. CASE SwitchAccount \/ AskSync("run") \/ AskSync("pull") \/ DeleteOnSite \/ RemoveListEntry \/ DeleteFails
  BY <1>2, <1>4, <1>7 DEF SwitchAccount, AskSync, DeleteOnSite, RemoveListEntry, DeleteFails, Become
<1>8. CASE StartJob
  BY <1>3, <1>8, RunJobIs DEF StartJob, Become, RunJob
<1>9. CASE JobRests
  BY <1>3, <1>9, IdleIs DEF JobRests, Become
<1>10. ASSUME NEW g \in MalWorkers, NEW w, mal' = [mal EXCEPT ![g] = w], w.pc \in Q PROVE JobPlaces'
  BY <1>2, <1>3, <1>10 DEF MalWorkers
<1>12. ASSUME NEW g \in MalWorkers, NEW p \in {"idle", "pull", "rest"}, LetGo(g, p) PROVE JobPlaces'
  BY <1>10, <1>12, IdleIs DEF LetGo, Become, RunPc
<1>13. ASSUME NEW g \in MalWorkers, RunEnds(g) \/ SeedPushed(g) \/ PullBreaks(g) \/ ListFails(g) PROVE JobPlaces'
  <2>1. ListFails(g) => JobPlaces'
    BY <1>10, IdleIs DEF ListFails, Become
  <2> QED BY <1>12, <1>13, <2>1 DEF RunEnds, SeedPushed, PullBreaks
<1>14. ASSUME NEW g \in MalWorkers, Run(g) \/ PushOne(g) \/ MarkPushed(g) \/ List(g) PROVE JobPlaces'
  <2>1. mal[g] \in MalRun
    BY MalFacts
  <2>2. CASE Run(g) \/ PushOne(g) \/ List(g)
    <3>1. PICK p \in {"push", "entries"} : \E T : mal' = [mal EXCEPT ![g] = [mal[g] EXCEPT !.pc = p, !.todo = T]]
      BY <2>2 DEF Run, PushOne, List, Become
    <3>3. PICK T : mal' = [mal EXCEPT ![g] = [mal[g] EXCEPT !.pc = p, !.todo = T]]
      BY <3>1
    <3> DEFINE r == [mal[g] EXCEPT !.pc = p, !.todo = T]
    <3>2. r.pc = p
      BY <2>1 DEF MalRun
    <3> HIDE DEF r
    <3> QED BY <1>10, <3>2, <3>3 DEF r
  <2>3. CASE MarkPushed(g)
    <3> DEFINE r == [mal[g] EXCEPT !.pc = "push", !.todo = @ \ {mal[g].read}, !.read = NoListing]
    <3>1. mal' = [mal EXCEPT ![g] = r]
      BY <2>3 DEF MarkPushed, Become
    <3>2. r.pc = "push"
      BY <2>1 DEF MalRun
    <3> HIDE DEF r
    <3> QED BY <1>10, <3>1, <3>2
  <2> QED BY <1>14, <2>2, <2>3
<1>15. ASSUME NEW g \in MalWorkers, NEW e \in mal[g].todo, SetProgress(g, e) \/ SetProgressFails(g, e) \/ Pushed(g, e) \/ ReadRow(g, e) \/ Apply(g, e) PROVE JobPlaces'
  <2>1. mal[g] \in MalRun /\ g \in {"job", "request"}
    BY MalFacts DEF MalWorkers
  <2>2. CASE SetProgress(g, e)
    <3> DEFINE r == [mal[g] EXCEPT !.pc = "mark", !.read = e]
    <3>1. mal' = [mal EXCEPT ![g] = r]
      BY <2>2 DEF SetProgress, Become
    <3>2. r.pc = "mark"
      BY <2>1 DEF MalRun
    <3> HIDE DEF r
    <3> QED BY <1>10, <3>1, <3>2
  <2>3. CASE ReadRow(g, e)
    <3> DEFINE r == [mal[g] EXCEPT !.pc = "apply", !.read = listed[e.a]]
    <3>1. mal' = [mal EXCEPT ![g] = r]
      BY <2>3 DEF ReadRow, Become
    <3>2. r.pc = "apply"
      BY <2>1 DEF MalRun
    <3> HIDE DEF r
    <3> QED BY <1>10, <3>1, <3>2
  <2>6. CASE Pushed(g, e)
    <3> DEFINE r == [mal[g] EXCEPT !.pc = "row", !.at = e.a, !.last = told[e.a]]
    <3>1. mal' = [mal EXCEPT ![g] = r]
      BY <2>6 DEF Pushed, Become
    <3>2. r.pc = "row"
      BY <2>1 DEF MalRun
    <3> HIDE DEF r
    <3> QED BY <1>10, <3>1, <3>2
  <2>4. CASE Apply(g, e)
    BY <1>10, <2>4, ApplyIs
  <2>5. CASE SetProgressFails(g, e)
    <3> DEFINE r == [mal[g] EXCEPT !.todo = @ \ {e}]
    <3>1. mal[g].pc = "push" /\ (mal' = mal \/ mal' = [mal EXCEPT ![g] = r] \/ LetGo(g, "idle"))
      BY <2>5 DEF SetProgressFails, Become
    <3>2. r.pc = mal[g].pc
      BY <2>1 DEF MalRun
    <3> HIDE DEF r
    <3> QED BY <1>4, <1>10, <1>12, <3>1, <3>2
  <2> QED BY <1>15, <2>2, <2>3, <2>4, <2>5, <2>6
<1>16. UNCHANGED malVars => mal' = mal
  BY DEF malVars
<1> QED BY <1>4, <1>5, <1>6, <1>7, <1>8, <1>9, <1>13, <1>14, <1>15, <1>16 DEF MalNext

\* Undisturbed, the job is all that moves.
LEMMA JobNextInv == MalInv /\ JobInv /\ [MalNext]_malVars => JobInv'
<1> SUFFICES ASSUME MalInv, JobInv, [MalNext]_malVars PROVE JobInv'
  OBVIOUS
<1>1. JobPlaces'
  BY PlacesNext DEF JobInv
<1>2. CASE ~calm'
  BY <1>1, <1>2 DEF JobInv
<1>3. CASE UNCHANGED malVars
  <2>1. oneId' = oneId /\ listed' = listed /\ told' = told /\ site' = site /\ mal' = mal /\ calm' = calm
    BY <1>3 DEF malVars
  <2>2. /\ \A i : Speaker(i)' = Speaker(i)
        /\ Pending' = Pending /\ \A a : Snap(a)' = Snap(a)
    BY <2>1, SameRows
  <2>3. \A j : EntryOf(j)' = EntryOf(j) /\ (Waits(TheJob, j) => Waits(TheJob, j)') /\ (DoneWith(TheJob, j) => DoneWith(TheJob, j)')
    BY <2>1, <2>2, EntryStays DEF TheJob
  <2>4. TheJob' = TheJob /\ MalIds' = MalIds /\ {Id(b)' : b \in Shows} = {Id(b) : b \in Shows}
    BY <2>1 DEF TheJob, MalIds, Id
  <2>5. ASSUME calm PROVE CalmPush' /\ CalmPull' /\ CalmRead' /\ CalmList'
    <3>1. CalmPush' /\ CalmPull' /\ CalmRead'
      BY <2>1, <2>2, <2>4, <2>5 DEF JobInv, CalmPush, CalmPull, CalmRead
    <3>2. CalmList'
      BY <2>1, <2>3, <2>4, <2>5 DEF JobInv, CalmList
    <3> QED BY <3>1, <3>2
  <2>6. calm => JobAgrees'
    BY <2>1, <2>2, <2>4 DEF JobInv, JobAgrees
  <2> QED BY <1>1, <2>1, <2>5, <2>6 DEF JobInv
<1>4. CASE StartJob
  BY <1>4, JobEdgeStep
<1>5. CASE calm' /\ ~StartJob /\ MalNext
  <2>1. ASSUME NEW a \in InPlay, AniListMerge(a) \/ TakeOff(a) \/ \E s \in MalScores : EditShow(a, s) PROVE FALSE
    BY <1>5, <2>1 DEF AniListMerge, TakeOff, EditShow
  <2>2. ASSUME NEW s \in {0, 8}, OnSite(1, s) PROVE FALSE
    BY <1>5, <2>2 DEF OnSite
  <2>3. ~SwitchAccount /\ ~AskSync("run") /\ ~AskSync("pull")
    BY <1>5 DEF SwitchAccount, AskSync
  <2>4. ASSUME NEW g \in MalWorkers PROVE ~ListFails(g) /\ ~PullBreaks(g) /\ \A e \in mal[g].todo : ~SetProgressFails(g, e)
    BY <1>5 DEF ListFails, PullBreaks, SetProgressFails
  <2>5. CASE DeleteOnSite \/ RemoveListEntry \/ DeleteFails
    <3>1. calm /\ mal["request"].pc # "idle"
      BY <1>5, <2>5 DEF DeleteOnSite, RemoveListEntry, DeleteFails
    <3> QED BY <3>1 DEF JobInv
  <2>6. CASE JobRests
    <3>1. calm
      BY <1>5, <2>6 DEF JobRests
    <3> QED BY <2>6, <3>1, JobEdgeStep
  <2>7. ASSUME NEW g \in MalWorkers, \/ Run(g) \/ PushOne(g) \/ MarkPushed(g) \/ RunEnds(g) \/ List(g) \/ SeedPushed(g)
                                     \/ \E e \in mal[g].todo : SetProgress(g, e) \/ Pushed(g, e) \/ ReadRow(g, e) \/ Apply(g, e)
        PROVE  JobInv'
    <3>1. calm /\ mal[g].pc # "idle"
      BY <1>5, <2>7 DEF Run, PushOne, MarkPushed, RunEnds, List, SeedPushed, SetProgress, Pushed, ReadRow, Apply
    <3>2. g = "job" /\ mal[g] = TheJob
      BY <3>1 DEF JobInv, MalWorkers, TheJob
    <3>3. ~PushOne(g)
      BY <3>2 DEF PushOne, JobInv, JobPlaces
    <3> QED BY <2>7, <3>1, <3>2, <3>3, JobRunStep, JobMarkStep, JobRunEndsStep, JobListStep, JobSeedStep, JobSetStep, JobPushedStep, JobReadStep, JobApplyStep
  <2> QED BY <1>5, <2>1, <2>2, <2>3, <2>4, <2>5, <2>6, <2>7 DEF MalNext
<1> QED BY <1>2, <1>3, <1>4, <1>5

LEMMA JobInitInv == MalInit => JobInv
BY DEF MalInit, JobInv, JobPlaces, TheJob, MalWorkers, Idle

\* The push lock, what a pull holds and what an undisturbed job has done so far, whatever the
\* number of edits, runs, removals, account changes and faults.
THEOREM MalInvariant == MalSpec => [](MalInv /\ JobInv)
<1>1. MalInit => MalInv /\ JobInv
  BY MalInitInv, JobInitInv
<1>2. MalInv /\ JobInv /\ [MalNext]_malVars => (MalInv /\ JobInv)'
  BY MalNextInv, JobNextInv
<1> QED BY <1>1, <1>2, PTL DEF MalSpec

LEMMA MalAgreeing == MalInv /\ JobInv => MalAgrees
BY DEF MalInv, GoneIsOff, JobInv, MalAgrees, RemovedIsGone, JobAgrees

\* MALSync: a show taken off comes back only by an edit, and a job nothing disturbed leaves the
\* list and the site saying the same, with nothing to push.
THEOREM MalStaysSafe == MalSpec => []MalAgrees
BY MalInvariant, MalAgreeing, PTL

-----------------------------------------------------------------------------
(* MyAnimeList: what a pull may overwrite and what a push may send.         *)

\* Every edit is one of those counted; a show that is off has no score.
NumRun(w) ==
  /\ w.pc \in {"push", "mark"} => \A e \in w.todo : e.val \in 0 .. count
  /\ w.pc \in MalPulls => \A x \in w.todo : x.e.val \in 0 .. count
  /\ w.pc = "apply" => w.read.val \in 0 .. count
MalNumbered ==
  /\ count \in Nat /\ here \subseteq 0 .. count /\ held \in [Shows -> SUBSET (0 .. count)] /\ rated \subseteq Shows
  /\ \A a \in Shows : listed[a].val \in 0 .. count /\ site[a].val \in 0 .. count /\ (~listed[a].in => listed[a].score = 0)
  /\ \A g \in MalWorkers : NumRun(mal[g])
\* What the site was told, has, is sent or was listed as is something it has held.
HeldRun(w) ==
  /\ w.pc = "mark" => w.read.val \in held[Id(w.read.a)]
  /\ w.pc \in MalPulls => (\A x \in w.todo : x.e.val \in held[x.i]) /\ \A m \in w.marks : m.val \in held[Id(m.a)]
HeldRows ==
  /\ \A a \in Shows : told[a].seen => told[a].val \in held[Id(a)]
  /\ \A i \in Shows : IF site[i].in THEN site[i].val \in held[i] ELSE site[i].val = 0
Heard == HeldRows /\ \A g \in MalWorkers : HeldRun(mal[g])
\* What a pull has read is still so, unless the show was taken off or edited since.
ReadRun(w) ==
  LET a == w.at IN
  /\ w.pc \in {"row", "apply"} /\ told[a].seen => told[a] = w.last
  /\ w.pc = "apply" /\ told[a].seen =>
       \/ listed[a].changed > w.read.changed
       \/ /\ listed[a].changed = w.read.changed /\ listed[a].in = w.read.in /\ listed[a].score = w.read.score
          /\ listed[a].val = w.read.val \/ listed[a].val \notin here
ReadStill == \A g \in MalWorkers : ReadRun(mal[g])
MalBase == MalNumbered /\ Heard /\ ReadStill

LEMMA BaseFacts ==
  ASSUME MalInv, MalBase
  PROVE  /\ count \in Nat /\ here \subseteq 0 .. count /\ held \in [Shows -> SUBSET (0 .. count)] /\ rated \subseteq Shows
         /\ \A a \in Shows : listed[a].val \in 0 .. count /\ site[a].val \in 0 .. count /\ (~listed[a].in => listed[a].score = 0)
         /\ HeldRows /\ \A g \in MalWorkers : NumRun(mal[g]) /\ HeldRun(mal[g]) /\ ReadRun(mal[g])
BY DEF MalBase, MalNumbered, Heard, ReadStill

\* A step that is not of the run w: what w holds stays true.
Aside ==
  /\ oneId' = oneId /\ count' \in Nat /\ count' >= count
  /\ (\A v \in here' : v \in here \/ v > count) /\ (\A i \in Shows : held[i] \subseteq held'[i])
  /\ \A a \in Shows : told'[a].seen =>
       /\ told'[a] = told[a]
       /\ \/ listed'[a].changed > listed[a].changed
          \/ /\ listed'[a].changed = listed[a].changed /\ listed'[a].in = listed[a].in /\ listed'[a].score = listed[a].score
             /\ listed'[a].val = listed[a].val \/ listed'[a].val \notin here'
LEMMA AsideRun ==
  ASSUME MalInv, MalInv', MalBase, Aside, NEW w \in MalRun, RunAt(w), NumRun(w), HeldRun(w), ReadRun(w),
         w.pc \in MalPulls => \A x \in w.todo : x.i \in Shows
  PROVE  NumRun(w)' /\ HeldRun(w)' /\ ReadRun(w)'
<1>1. count \in Nat /\ count' \in Nat /\ count' >= count /\ oneId' = oneId /\ oneId \in BOOLEAN
  BY BaseFacts, MalFacts DEF Aside
<1>2. NumRun(w)'
  BY <1>1 DEF NumRun
<1>3. \A a \in Shows : Id(a)' = Id(a) /\ Id(a) \in Shows
  BY <1>1 DEF Id, Shows
<1>4. HeldRun(w)'
  <2>1. CASE w.pc = "mark"
    <3>1. w.read.a \in Shows /\ w.read.val \in held[Id(w.read.a)]
      BY <2>1 DEF RunAt, MalSnap, HeldRun
    <3> QED BY <1>3, <2>1, <3>1 DEF HeldRun, Aside, MalPulls
  <2>2. CASE w.pc \in MalPulls
    <3>1. \A m \in w.marks : m.a \in Shows /\ m.val \in held[Id(m.a)]
      BY <2>2 DEF HeldRun, MalRun, MalMark
    <3>2. \A x \in w.todo : x.i \in Shows /\ x.e.val \in held[x.i]
      BY <2>2 DEF HeldRun
    <3> QED BY <1>3, <2>2, <3>1, <3>2 DEF HeldRun, Aside, MalPulls
  <2> QED BY <2>1, <2>2 DEF HeldRun
<1>5. ReadRun(w)'
  <2>1. CASE w.pc \in {"row", "apply"} /\ told'[w.at].seen
    <3>1. w.at \in Shows /\ told'[w.at] = told[w.at] /\ told[w.at].seen /\ told[w.at] = w.last
      BY <2>1 DEF RunAt, Aside, ReadRun
    <3>2. listed[w.at].changed \in Int /\ listed'[w.at].changed \in Int /\ listed[w.at].val <= count /\ listed[w.at].val \in Int
      BY <1>1, <3>1, MalFacts, BaseFacts DEF MalRow, MalInv, MalShape
    <3>3. ASSUME w.pc = "apply"
          PROVE  \/ listed'[w.at].changed > w.read.changed
                 \/ /\ listed'[w.at].changed = w.read.changed /\ listed'[w.at].in = w.read.in /\ listed'[w.at].score = w.read.score
                    /\ listed'[w.at].val = w.read.val \/ listed'[w.at].val \notin here'
      <4>1. w.read.changed \in Int
        BY <3>3 DEF RunAt, MalRow
      <4>2. CASE listed[w.at].changed > w.read.changed
        BY <2>1, <3>1, <3>2, <4>1, <4>2 DEF Aside
      <4>3. CASE /\ listed[w.at].changed = w.read.changed /\ listed[w.at].in = w.read.in /\ listed[w.at].score = w.read.score
                 /\ listed[w.at].val = w.read.val \/ listed[w.at].val \notin here
        <5>1. listed[w.at].val \notin here => listed[w.at].val \notin here'
          BY <1>1, <3>2 DEF Aside
        <5>2. CASE listed'[w.at].changed > listed[w.at].changed
          BY <3>2, <4>1, <4>3, <5>2
        <5> QED BY <2>1, <3>1, <4>3, <5>1, <5>2 DEF Aside
      <4> QED BY <3>1, <3>3, <4>2, <4>3 DEF ReadRun
    <3> QED BY <3>1, <3>3 DEF ReadRun
  <2> QED BY <2>1 DEF ReadRun
<1> QED BY <1>2, <1>4, <1>5

\* A run that holds nothing says nothing.
LEMMA NoMalRun ==
  ASSUME NEW w, w.pc \notin MalHolds
  PROVE  NumRun(w) /\ HeldRun(w) /\ ReadRun(w) /\ NumRun(w)' /\ HeldRun(w)' /\ ReadRun(w)'
BY DEF MalHolds, MalPulls, NumRun, HeldRun, ReadRun

\* What is written to the rows, in numbers.
RowsKeep ==
  /\ here' \subseteq 0 .. count' /\ held' \in [Shows -> SUBSET (0 .. count')] /\ rated' \subseteq Shows
  /\ \A a \in Shows : listed'[a].val \in 0 .. count' /\ site'[a].val \in 0 .. count' /\ (~listed'[a].in => listed'[a].score = 0)
  /\ HeldRows'

\* One more edit than before.
LEMMA OneMore ==
  ASSUME NEW n \in Nat, NEW H \in [Shows -> SUBSET (0 .. n)]
  PROVE  0 .. n \subseteq 0 .. n + 1 /\ H \in [Shows -> SUBSET (0 .. n + 1)]
<1>1. 0 .. n \subseteq 0 .. n + 1
  OBVIOUS
<1>2. \A i \in Shows : H[i] \subseteq 0 .. n + 1
  BY <1>1
<1> QED BY <1>1, <1>2

\* A step beside the runs: one that holds nothing before and after it, or is not touched.
LEMMA AsideKeeps ==
  ASSUME MalInv, MalInv', MalBase, Aside, RowsKeep, NEW g \in MalWorkers, NEW w, mal' = [mal EXCEPT ![g] = w],
         w = mal[g] \/ w.pc \notin MalHolds
  PROVE  MalBase'
<1>1. mal'[g] = w /\ \A h \in MalWorkers \ {g} : mal'[h] = mal[h]
  BY DEF MalInv, MalShape
<1>2. ASSUME NEW h \in MalWorkers PROVE NumRun(mal[h])' /\ HeldRun(mal[h])' /\ ReadRun(mal[h])'
  <2>1. CASE mal'[h] = mal[h]
    <3> DEFINE r == mal[h]
    <3>1. r \in MalRun /\ RunAt(r) /\ NumRun(r) /\ HeldRun(r) /\ ReadRun(r)
      BY MalFacts, BaseFacts
    <3>2. r.pc \in MalPulls => \A x \in r.todo : x.i \in Shows
      BY <3>1 DEF RunAt, MalPulls, MalListed
    <3>3. mal'[h] = r
      BY <2>1
    <3> HIDE DEF r
    <3>4. \A q : q = r => (NumRun(q)' /\ HeldRun(q)' /\ ReadRun(q)')
      BY <3>1, <3>2, AsideRun
    <3> QED BY <3>3, <3>4 DEF NumRun, HeldRun, ReadRun
  <2>2. CASE mal'[h].pc \notin MalHolds
    BY <2>2 DEF MalHolds, MalPulls, NumRun, HeldRun, ReadRun
  <2> QED BY <1>1, <2>1, <2>2
<1>3. MalNumbered' /\ Heard' /\ ReadStill'
  BY <1>2 DEF Aside, RowsKeep, MalNumbered, Heard, ReadStill
<1> QED BY <1>3 DEF MalBase

\* A step of the run that holds the lock, takes it or gives it back: the other holds nothing.
LEMMA SoleKeeps ==
  ASSUME MalInv, MalInv', MalBase, RowsKeep, count' \in Nat, NEW g \in MalWorkers, NEW w, mal' = [mal EXCEPT ![g] = w],
         malMu \in {g, "free"}, NumRun(w)', HeldRun(w)', ReadRun(w)'
  PROVE  MalBase'
<1>1. mal'[g] = w /\ \A h \in MalWorkers \ {g} : mal'[h] = mal[h]
  BY DEF MalInv, MalShape
<1>2. \A h \in MalWorkers \ {g} : mal[h].pc \notin MalHolds
  BY MalFacts DEF MalWorkers
<1>3. ASSUME NEW h \in MalWorkers PROVE NumRun(mal[h])' /\ HeldRun(mal[h])' /\ ReadRun(mal[h])'
  <2>1. CASE h = g
    BY <1>1, <2>1 DEF NumRun, HeldRun, ReadRun
  <2>2. CASE h # g
    BY <1>1, <1>2, <2>2 DEF MalHolds, MalPulls, NumRun, HeldRun, ReadRun
  <2> QED BY <2>1, <2>2
<1>4. MalNumbered' /\ Heard' /\ ReadStill'
  BY <1>3 DEF RowsKeep, MalNumbered, Heard, ReadStill
<1> QED BY <1>4 DEF MalBase

LEMMA EditBase ==
  ASSUME MalInv, MalInv', MalBase, NEW a \in Shows, NEW s \in MalScores, EditShow(a, s)
  PROVE  MalBase'
<1> DEFINE row == [in |-> TRUE, score |-> s, changed |-> Bump(a, count + 1),
                   val |-> IF s = listed[a].score THEN count + 1 ELSE listed[a].val]
<1>1. /\ count' = count + 1 /\ listed' = [listed EXCEPT ![a] = row] /\ mal' = [mal EXCEPT !["request"] = RunOn("one", a)]
      /\ oneId' = oneId /\ told' = told /\ site' = site /\ held' = held
      /\ here' \subseteq here \cup {count + 1} /\ rated' \subseteq rated \cup {a}
  BY DEF EditShow, Become, Counted, RunOn
<1>2. /\ count \in Nat /\ listed \in [Shows -> MalRow] /\ oneId \in BOOLEAN
      /\ here \subseteq 0 .. count /\ held \in [Shows -> SUBSET (0 .. count)] /\ rated \subseteq Shows
      /\ \A b \in Shows : listed[b].val \in 0 .. count /\ site[b].val \in 0 .. count /\ (~listed[b].in => listed[b].score = 0)
  BY MalFacts, BaseFacts
<1>3. listed[a].changed \in Int /\ row.changed > listed[a].changed /\ row.val \in 0 .. count + 1 /\ row.in
  BY <1>2 DEF Bump, MalRow
<1> HIDE DEF row
<1>4. listed'[a] = row /\ \A b \in Shows \ {a} : listed'[b] = listed[b]
  BY <1>1, <1>2
<1>5. Aside
  BY <1>1, <1>2, <1>3, <1>4 DEF Aside
<1>6. HeldRows'
  BY <1>1, BaseFacts DEF HeldRows, Id
<1>7. RowsKeep
  <2>1. here' \subseteq 0 .. count' /\ held' \in [Shows -> SUBSET (0 .. count')] /\ rated' \subseteq Shows
    BY <1>1, <1>2, OneMore
  <2>2. \A b \in Shows : listed'[b].val \in 0 .. count' /\ site'[b].val \in 0 .. count' /\ (~listed'[b].in => listed'[b].score = 0)
    BY <1>1, <1>2, <1>3, <1>4
  <2> QED BY <1>6, <2>1, <2>2 DEF RowsKeep
<1>8. "request" \in MalWorkers /\ RunOn("one", a).pc \notin MalHolds
  BY IdleIs DEF MalWorkers, MalHolds
<1> QED BY <1>1, <1>5, <1>7, <1>8, AsideKeeps

LEMMA MergeBase ==
  ASSUME MalInv, MalInv', MalBase, NEW a \in Shows, AniListMerge(a)
  PROVE  MalBase'
<1>1. /\ listed[a].in /\ count' = count + 1 /\ listed' = [listed EXCEPT ![a].val = count + 1]
      /\ oneId' = oneId /\ told' = told /\ site' = site /\ mal' = mal /\ held' = held /\ here' = here /\ rated' = rated
  BY DEF AniListMerge, Counted, hist
<1>2. /\ count \in Nat /\ listed \in [Shows -> MalRow]
      /\ here \subseteq 0 .. count /\ held \in [Shows -> SUBSET (0 .. count)] /\ rated \subseteq Shows
      /\ \A b \in Shows : listed[b].val \in 0 .. count /\ site[b].val \in 0 .. count /\ (~listed[b].in => listed[b].score = 0)
  BY MalFacts, BaseFacts
<1>3. /\ listed'[a].val = count + 1 /\ \A b \in Shows \ {a} : listed'[b] = listed[b]
      /\ \A b \in Shows : listed'[b].changed = listed[b].changed /\ listed'[b].in = listed[b].in /\ listed'[b].score = listed[b].score
  BY <1>1, <1>2 DEF MalRow
<1>4. Aside
  BY <1>1, <1>2, <1>3 DEF Aside
<1>5. HeldRows'
  BY <1>1, BaseFacts DEF HeldRows, Id
<1>6. RowsKeep
  <2>1. here' \subseteq 0 .. count' /\ held' \in [Shows -> SUBSET (0 .. count')] /\ rated' \subseteq Shows
    BY <1>1, <1>2, OneMore
  <2>2. \A b \in Shows : listed'[b].val \in 0 .. count' /\ site'[b].val \in 0 .. count' /\ (~listed'[b].in => listed'[b].score = 0)
    BY <1>1, <1>2, <1>3
  <2> QED BY <1>5, <2>1, <2>2 DEF RowsKeep
<1>7. "job" \in MalWorkers /\ mal' = [mal EXCEPT !["job"] = mal["job"]]
  BY <1>1 DEF MalInv, MalShape, MalWorkers
<1> QED BY <1>4, <1>6, <1>7, AsideKeeps

LEMMA OnSiteBase ==
  ASSUME MalInv, MalInv', MalBase, NEW s \in {0, 8}, OnSite(1, s)
  PROVE  MalBase'
<1> DEFINE v == IF s = site[1].score THEN count + 1 ELSE site[1].val
           row == [in |-> TRUE, val |-> v, score |-> s, at |-> count + 1]
<1>1. /\ count' = count + 1 /\ site' = [site EXCEPT ![1] = row] /\ held' = [held EXCEPT ![1] = @ \cup {v}]
      /\ oneId' = oneId /\ told' = told /\ listed' = listed /\ mal' = mal /\ here' = here /\ rated' = rated
  BY DEF OnSite, Counted
<1>2. /\ count \in Nat /\ site \in [Shows -> MalSite] /\ 1 \in Shows /\ oneId \in BOOLEAN
      /\ here \subseteq 0 .. count /\ held \in [Shows -> SUBSET (0 .. count)] /\ rated \subseteq Shows
      /\ \A b \in Shows : listed[b].val \in 0 .. count /\ site[b].val \in 0 .. count /\ (~listed[b].in => listed[b].score = 0)
  BY MalFacts, BaseFacts DEF Shows
<1>3. v \in 0 .. count + 1
  BY <1>2
<1>4. row.in /\ row.val = v
  OBVIOUS
<1> HIDE DEF v, row
<1>5. /\ site'[1] = row /\ (\A i \in Shows \ {1} : site'[i] = site[i])
      /\ held'[1] = held[1] \cup {v} /\ (\A i \in Shows \ {1} : held'[i] = held[i])
      /\ held' \in [Shows -> SUBSET (0 .. count + 1)]
  BY <1>1, <1>2, <1>3
<1>6. Aside
  BY <1>1, <1>2, <1>5 DEF Aside
<1>7. HeldRows'
  <2>1. \A b \in Shows : Id(b) \in Shows /\ Id(b)' = Id(b)
    BY <1>1, <1>2 DEF Id, Shows
  <2> QED BY <1>1, <1>4, <1>5, <2>1, BaseFacts DEF HeldRows
<1>8. RowsKeep
  <2>1. here' \subseteq 0 .. count' /\ rated' \subseteq Shows
    BY <1>1, <1>2, OneMore
  <2>2. \A b \in Shows : listed'[b].val \in 0 .. count' /\ site'[b].val \in 0 .. count' /\ (~listed'[b].in => listed'[b].score = 0)
    BY <1>1, <1>2, <1>3, <1>4, <1>5
  <2> QED BY <1>1, <1>5, <1>7, <2>1, <2>2 DEF RowsKeep
<1>9. "job" \in MalWorkers /\ mal' = [mal EXCEPT !["job"] = mal["job"]]
  BY <1>1 DEF MalInv, MalShape, MalWorkers
<1> QED BY <1>6, <1>8, <1>9, AsideKeeps

LEMMA SwitchBase ==
  ASSUME MalInv, MalInv', MalBase, SwitchAccount
  PROVE  MalBase'
<1>1. /\ malMu = "free" /\ told' = [a \in Shows |-> NotTold] /\ site' = [i \in Shows |-> NoSite] /\ held' = [i \in Shows |-> {}]
      /\ oneId' = oneId /\ listed' = listed /\ mal' = mal /\ count' = count /\ here' = here /\ rated' = rated
  BY DEF SwitchAccount
<1>2. "job" \in MalWorkers /\ mal' = [mal EXCEPT !["job"] = mal["job"]] /\ mal["job"].pc \notin MalHolds
  BY <1>1, MalFacts DEF MalInv, MalShape, MalWorkers
<1>3. HeldRows'
  BY <1>1 DEF HeldRows, NotTold, NoSite
<1>4. RowsKeep
  BY <1>1, <1>3, BaseFacts DEF RowsKeep, NoSite
<1>5. NumRun(mal["job"])' /\ HeldRun(mal["job"])' /\ ReadRun(mal["job"])' /\ count' \in Nat
  BY <1>1, <1>2, BaseFacts DEF NumRun, HeldRun, ReadRun, MalHolds, MalPulls
<1>6. \A w : w = mal["job"] => (NumRun(w)' /\ HeldRun(w)' /\ ReadRun(w)')
  BY <1>2, NoMalRun
<1> QED BY <1>1, <1>2, <1>4, <1>5, <1>6, SoleKeeps

\* Nothing is written but a run.
SameAll == UNCHANGED <<oneId, listed, told, site, count, here, held, rated>>
LEMMA SameKeep ==
  ASSUME MalInv, MalBase, SameAll
  PROVE  RowsKeep /\ Aside /\ count' \in Nat /\ \A w : (NumRun(w) => NumRun(w)') /\ (HeldRun(w) => HeldRun(w)') /\ (ReadRun(w) => ReadRun(w)')
<1>1. /\ oneId' = oneId /\ listed' = listed /\ told' = told /\ site' = site /\ count' = count /\ here' = here /\ held' = held /\ rated' = rated
  BY DEF SameAll
<1>2. HeldRows'
  BY <1>1, BaseFacts DEF HeldRows, Id
<1>3. RowsKeep /\ Aside /\ count' \in Nat
  BY <1>1, <1>2, BaseFacts DEF RowsKeep, Aside
<1>4. \A w : (NumRun(w) => NumRun(w)') /\ (HeldRun(w) => HeldRun(w)') /\ (ReadRun(w) => ReadRun(w)')
  BY <1>1 DEF NumRun, HeldRun, ReadRun, Id
<1> QED BY <1>3, <1>4

LEMMA QuietBase ==
  ASSUME MalInv, MalInv', MalBase, SameAll, NEW g \in MalWorkers, NEW w, mal' = [mal EXCEPT ![g] = w], w.pc \notin MalHolds
  PROVE  MalBase'
BY SameKeep, AsideKeeps

LEMMA HolderBase ==
  ASSUME MalInv, MalInv', MalBase, SameAll, NEW g \in MalWorkers, NEW w, mal' = [mal EXCEPT ![g] = w], malMu \in {g, "free"},
         NumRun(w), HeldRun(w), ReadRun(w)
  PROVE  MalBase'
BY SameKeep, SoleKeeps

\* The steps that begin a run or end one.
EndSteps(g) == RunEnds(g) \/ ListFails(g) \/ PullBreaks(g)
BeginSteps == StartJob \/ AskSync("run") \/ AskSync("pull") \/ (\E a \in Shows : TakeOff(a)) \/ JobRests \/ DeleteFails
LEMMA PlaceIs ==
  ASSUME MalInv, NEW g \in MalWorkers, BeginSteps \/ EndSteps(g)
  PROVE  SameAll /\ \E h \in MalWorkers, w \in MalRun : mal' = [mal EXCEPT ![h] = w] /\ w.pc \notin MalHolds
<1>1. SameAll
  BY DEF BeginSteps, EndSteps, RunEnds, ListFails, PullBreaks, StartJob, AskSync, TakeOff, JobRests, DeleteFails, SameAll, hist
<1>2. "job" \in MalWorkers /\ "request" \in MalWorkers
  BY DEF MalWorkers
<1>3. \A p \in {"idle", "one", "run", "pull", "rest"} : RunPc(p) \in MalRun /\ RunPc(p).pc \notin MalHolds
  BY IdleIs DEF MalHolds
<1>4. Idle \in MalRun /\ Idle.pc \notin MalHolds /\ RunJob \in MalRun /\ RunJob.pc \notin MalHolds
  BY IdleIs, RunJobIs DEF MalHolds
<1>5. \A a \in Shows : RunOn("remove", a) \in MalRun /\ RunOn("remove", a).pc \notin MalHolds
  BY IdleIs DEF MalHolds
<1>6. ASSUME NEW h \in MalWorkers, NEW w \in MalRun, w.pc \notin MalHolds, Become(h, w)
      PROVE  \E k \in MalWorkers, r \in MalRun : mal' = [mal EXCEPT ![k] = r] /\ r.pc \notin MalHolds
  BY <1>6 DEF Become
<1>7. CASE StartJob
  BY <1>1, <1>2, <1>4, <1>6, <1>7 DEF StartJob, RunJob
<1>8. CASE AskSync("run") \/ AskSync("pull")
  BY <1>1, <1>2, <1>3, <1>6, <1>8 DEF AskSync, RunPc
<1>9. CASE \E a \in Shows : TakeOff(a)
  BY <1>1, <1>2, <1>5, <1>6, <1>9 DEF TakeOff, RunOn
<1>10. CASE JobRests \/ DeleteFails \/ ListFails(g)
  BY <1>1, <1>2, <1>4, <1>6, <1>10 DEF JobRests, DeleteFails, ListFails
<1>11. CASE RunEnds(g) \/ PullBreaks(g)
  BY <1>1, <1>3, <1>6, <1>11 DEF RunEnds, PullBreaks, LetGo, RunPc
<1> QED BY <1>7, <1>8, <1>9, <1>10, <1>11 DEF BeginSteps, EndSteps

LEMMA PlaceBase ==
  ASSUME MalInv, MalInv', MalBase, NEW g \in MalWorkers, BeginSteps \/ EndSteps(g)
  PROVE  MalBase'
BY PlaceIs, QuietBase

LEMMA DeleteBase ==
  ASSUME MalInv, MalInv', MalBase, DeleteOnSite
  PROVE  MalBase'
<1> DEFINE i == Id(mal["request"].at)
           w == [mal["request"] EXCEPT !.pc = "drop"]
<1>1. /\ mal["request"].pc = "remove" /\ site' = [site EXCEPT ![i] = NoSite] /\ mal' = [mal EXCEPT !["request"] = w]
      /\ oneId' = oneId /\ listed' = listed /\ told' = told /\ count' = count /\ here' = here /\ held' = held /\ rated' = rated
  BY DEF DeleteOnSite, Become, hist
<1>2. "request" \in MalWorkers /\ mal["request"] \in MalRun /\ site \in [Shows -> MalSite] /\ count \in Nat /\ HeldRows
  BY MalFacts, BaseFacts DEF MalWorkers
<1>3. w.pc = "drop"
  BY <1>2 DEF MalRun
<1> HIDE DEF w, i
<1>4. w.pc \notin MalHolds
  BY <1>3 DEF MalHolds
<1>5. \A j \in Shows : site'[j] = site[j] \/ (~site'[j].in /\ site'[j].val = 0)
  BY <1>1, <1>2 DEF NoSite
<1>6. HeldRows'
  <2>1. \A b \in Shows : Id(b)' = Id(b)
    BY <1>1 DEF Id
  <2> QED BY <1>1, <1>2, <1>5, <2>1 DEF HeldRows
<1>7. RowsKeep
  <2>1. \A j \in Shows : site'[j].val \in 0 .. count
    BY <1>2, <1>5, BaseFacts
  <2> QED BY <1>1, <1>6, <2>1, BaseFacts DEF RowsKeep
<1>8. Aside
  BY <1>1, <1>2 DEF Aside
<1> QED BY <1>1, <1>2, <1>4, <1>7, <1>8, AsideKeeps

LEMMA RemoveBase ==
  ASSUME MalInv, MalInv', MalBase, RemoveListEntry
  PROVE  MalBase'
<1> DEFINE a == mal["request"].at
<1>1. /\ mal["request"].pc = "drop" /\ listed' = [listed EXCEPT ![a] = NoListing] /\ told' = [told EXCEPT ![a] = NotTold]
      /\ mal' = [mal EXCEPT !["request"] = Idle]
      /\ oneId' = oneId /\ site' = site /\ count' = count /\ here' = here /\ held' = held /\ rated' = rated
  BY DEF RemoveListEntry, Become
<1>2. "request" \in MalWorkers /\ a \in Shows /\ Idle.pc \notin MalHolds
  BY <1>1, MalFacts, IdleIs DEF RunAt, MalWorkers, MalHolds
<1> HIDE DEF a
<1>3. /\ listed'[a] = NoListing /\ told'[a] = NotTold /\ \A b \in Shows \ {a} : listed'[b] = listed[b] /\ told'[b] = told[b]
  BY <1>1, <1>2, MalFacts
<1>4. ~told'[a].seen /\ ~listed'[a].in /\ listed'[a].val = 0 /\ listed'[a].score = 0 /\ count \in Nat
  BY <1>3, BaseFacts DEF NoListing, NotTold
<1>5. Aside
  BY <1>1, <1>3, <1>4 DEF Aside
<1>6. HeldRows'
  <2>1. \A b \in Shows : Id(b)' = Id(b)
    BY <1>1 DEF Id
  <2> QED BY <1>1, <1>3, <1>4, <2>1, BaseFacts DEF HeldRows
<1>7. RowsKeep
  <2>1. \A b \in Shows : listed'[b].val \in 0 .. count /\ (~listed'[b].in => listed'[b].score = 0)
    BY <1>3, <1>4, BaseFacts
  <2> QED BY <1>1, <1>6, <2>1, BaseFacts DEF RowsKeep
<1> QED BY <1>1, <1>2, <1>5, <1>7, AsideKeeps

LEMMA RunIs ==
  ASSUME MalInv, NEW g \in MalWorkers, Run(g) \/ PushOne(g)
  PROVE  /\ SameAll /\ malMu = "free" /\ lost' = lost
         /\ \E w \in MalRun : /\ mal' = [mal EXCEPT ![g] = w] /\ w.pc = "push"
                              /\ \E S \in SUBSET Pending : w.todo = {Snap(a) : a \in S}
<1>1. PICK S \in SUBSET Pending : mal' = [mal EXCEPT ![g] = [mal[g] EXCEPT !.pc = "push", !.todo = {Snap(a) : a \in S}]]
  BY DEF Run, PushOne, Become
<1>2. SameAll /\ malMu = "free" /\ lost' = lost
  BY DEF Run, PushOne, hist, SameAll
<1> DEFINE T == {Snap(a) : a \in S}
           w == [mal[g] EXCEPT !.pc = "push", !.todo = T]
<1>3. T \subseteq MalSnap
  BY SnapIs DEF Pending
<1> HIDE DEF T
<1>4. w \in MalRun /\ w.pc = "push" /\ w.todo = T
  BY <1>3, MalFacts DEF MalRun, MalHolds
<1>5. mal' = [mal EXCEPT ![g] = w]
  BY <1>1 DEF T
<1> HIDE DEF w
<1> QED BY <1>2, <1>4, <1>5 DEF T

LEMMA RunBase ==
  ASSUME MalInv, MalInv', MalBase, NEW g \in MalWorkers, Run(g) \/ PushOne(g)
  PROVE  MalBase'
<1>1. PICK w \in MalRun : /\ mal' = [mal EXCEPT ![g] = w] /\ w.pc = "push"
                          /\ \E S \in SUBSET Pending : w.todo = {Snap(a) : a \in S}
  BY RunIs
<1>2. \A e \in w.todo : e.val \in 0 .. count
  <2>1. \A a \in Pending : Snap(a).val \in 0 .. count
    BY BaseFacts DEF Snap, Pending
  <2> QED BY <1>1, <2>1
<1>3. NumRun(w) /\ HeldRun(w) /\ ReadRun(w)
  BY <1>1, <1>2 DEF NumRun, HeldRun, ReadRun, MalPulls
<1> QED BY <1>1, <1>3, RunIs, HolderBase

\* What the site takes is held from then on.
LEMMA ReceivedKeeps ==
  ASSUME MalInv, MalBase, NEW e \in MalSnap, e.val \in 0 .. count, Received(e), UNCHANGED <<oneId, listed, told, count, here, rated>>
  PROVE  /\ RowsKeep /\ count' \in Nat /\ e.val \in held'[Id(e.a)]
         /\ held'[Id(e.a)] = held[Id(e.a)] \cup {e.val} /\ \A i \in Shows \ {Id(e.a)} : held'[i] = held[i]
<1>1. held' = [held EXCEPT ![Id(e.a)] = @ \cup {e.val}] /\ oneId' = oneId /\ listed' = listed /\ told' = told /\ count' = count /\ here' = here /\ rated' = rated
  BY DEF Received
<1>2. /\ Id(e.a) \in Shows /\ site'[Id(e.a)] = Taken(e) /\ site'[Id(e.a)].in /\ \A i \in Shows \ {Id(e.a)} : site'[i] = site[i]
  BY ReceivedIs
<1>3. Taken(e).val = e.val
  BY DEF Taken
<1>4. /\ held \in [Shows -> SUBSET (0 .. count)] /\ HeldRows /\ count \in Nat
      /\ \A a \in Shows : site[a].val \in 0 .. count
  BY BaseFacts
<1>5. /\ held' \in [Shows -> SUBSET (0 .. count)] /\ held'[Id(e.a)] = held[Id(e.a)] \cup {e.val}
      /\ \A i \in Shows \ {Id(e.a)} : held'[i] = held[i]
  BY <1>1, <1>2, <1>4
<1>6. HeldRows'
  <2>1. \A a \in Shows : Id(a)' = Id(a) /\ Id(a) \in Shows
    BY <1>1, MalFacts DEF Id
  <2>2. \A i \in Shows : held[i] \subseteq held'[i]
    BY <1>5
  <2>3. \A a \in Shows : told'[a].seen => told'[a].val \in held'[Id(a)']
    BY <1>1, <1>4, <2>1, <2>2 DEF HeldRows
  <2>4. \A i \in Shows : IF site'[i].in THEN site'[i].val \in held'[i] ELSE site'[i].val = 0
    BY <1>2, <1>3, <1>4, <1>5, <2>2 DEF HeldRows
  <2> QED BY <2>3, <2>4 DEF HeldRows
<1>7. \A a \in Shows : site'[a].val \in 0 .. count
  BY <1>2, <1>3, <1>4
<1>8. RowsKeep
  BY <1>1, <1>5, <1>6, <1>7, BaseFacts DEF RowsKeep
<1> QED BY <1>1, <1>4, <1>5, <1>8

LEMMA SetIs ==
  ASSUME MalInv, NEW g \in MalWorkers, NEW e \in mal[g].todo, SetProgress(g, e)
  PROVE  /\ mal[g].pc = "push" /\ malMu = g /\ Received(e) /\ UNCHANGED <<oneId, listed, told, count, here, rated, lost>>
         /\ e \in MalSnap /\ mal[g].todo \subseteq MalSnap
         /\ \E w \in MalRun : mal' = [mal EXCEPT ![g] = w] /\ w.pc = "mark" /\ w.read = e /\ w.todo = mal[g].todo
<1> DEFINE w == [mal[g] EXCEPT !.pc = "mark", !.read = e]
<1>1. mal[g].pc = "push" /\ Received(e) /\ mal' = [mal EXCEPT ![g] = w] /\ UNCHANGED <<oneId, listed, told, count, here, rated, lost>>
  BY DEF SetProgress, Become
<1>2. e \in MalSnap /\ mal[g] \in MalRun /\ mal[g].todo \subseteq MalSnap /\ malMu = g
  BY <1>1, MalFacts DEF RunAt, MalHolds
<1>3. w \in MalRun /\ w.pc = "mark" /\ w.read = e /\ w.todo = mal[g].todo
  BY <1>2 DEF MalRun, MalHolds
<1> HIDE DEF w
<1> QED BY <1>1, <1>2, <1>3

LEMMA SetBase ==
  ASSUME MalInv, MalInv', MalBase, NEW g \in MalWorkers, NEW e \in mal[g].todo, SetProgress(g, e)
  PROVE  MalBase'
<1>1. PICK w \in MalRun : mal' = [mal EXCEPT ![g] = w] /\ w.pc = "mark" /\ w.read = e /\ w.todo = mal[g].todo
  BY SetIs
<1>2. mal[g].pc = "push" /\ malMu = g /\ Received(e) /\ e \in MalSnap /\ UNCHANGED <<oneId, listed, told, count, here, rated>>
  BY SetIs
<1>3. \A d \in mal[g].todo : d.val \in 0 .. count
  BY <1>2, BaseFacts DEF NumRun
<1>4. RowsKeep /\ count' \in Nat /\ e.val \in held'[Id(e.a)]
  BY <1>2, <1>3, ReceivedKeeps
<1>5. NumRun(w)' /\ HeldRun(w)' /\ ReadRun(w)'
  BY <1>1, <1>2, <1>3, <1>4 DEF NumRun, HeldRun, ReadRun, MalPulls, Id
<1> QED BY <1>1, <1>2, <1>4, <1>5, SoleKeeps

LEMMA SetFailsIs ==
  ASSUME MalInv, NEW g \in MalWorkers, NEW e \in mal[g].todo, SetProgressFails(g, e)
  PROVE  /\ mal[g].pc = "push" /\ malMu = g /\ e \in MalSnap /\ mal[g].todo \subseteq MalSnap
         /\ UNCHANGED <<oneId, listed, told, count, here, rated>>
         /\ (Received(e) /\ lost') \/ UNCHANGED <<site, held, lost>>
         /\ \E w \in MalRun : mal' = [mal EXCEPT ![g] = w] /\ ((w.pc = "push" /\ w.todo \subseteq mal[g].todo) \/ w.pc = "idle")
<1>1. /\ mal[g].pc = "push" /\ UNCHANGED <<oneId, listed, told, count, here, rated>>
      /\ (Received(e) /\ lost') \/ UNCHANGED <<site, held, lost>>
  BY DEF SetProgressFails
<1>2. e \in MalSnap /\ mal[g] \in MalRun /\ mal[g].todo \subseteq MalSnap /\ malMu = g
  BY <1>1, MalFacts DEF RunAt, MalHolds
<1>3. CASE UNCHANGED mal
  <2>1. mal' = [mal EXCEPT ![g] = mal[g]]
    BY <1>3 DEF MalInv, MalShape
  <2> QED BY <1>1, <1>2, <2>1
<1>4. CASE Become(g, [mal[g] EXCEPT !.todo = @ \ {e}])
  <2> DEFINE T == mal[g].todo \ {e}
             w == [mal[g] EXCEPT !.todo = T]
  <2>1. T \subseteq MalSnap /\ T \subseteq mal[g].todo
    BY <1>2
  <2> HIDE DEF T
  <2>2. w \in MalRun /\ w.pc = "push" /\ w.todo = T
    BY <1>1, <1>2, <2>1 DEF MalRun
  <2>3. mal' = [mal EXCEPT ![g] = w]
    BY <1>4 DEF Become, T
  <2> HIDE DEF w
  <2> QED BY <1>1, <1>2, <2>1, <2>2, <2>3
<1>5. CASE LetGo(g, "idle")
  <2>1. mal' = [mal EXCEPT ![g] = RunPc("idle")] /\ RunPc("idle") \in MalRun /\ RunPc("idle").pc = "idle"
    BY <1>5, IdleIs DEF LetGo, Become, RunPc
  <2> QED BY <1>1, <1>2, <2>1
<1> QED BY <1>3, <1>4, <1>5 DEF SetProgressFails

LEMMA SetFailsBase ==
  ASSUME MalInv, MalInv', MalBase, NEW g \in MalWorkers, NEW e \in mal[g].todo, SetProgressFails(g, e)
  PROVE  MalBase'
<1>1. PICK w \in MalRun : mal' = [mal EXCEPT ![g] = w] /\ ((w.pc = "push" /\ w.todo \subseteq mal[g].todo) \/ w.pc = "idle")
  BY SetFailsIs
<1>2. /\ mal[g].pc = "push" /\ malMu = g /\ e \in MalSnap /\ UNCHANGED <<oneId, listed, told, count, here, rated>>
      /\ Received(e) \/ UNCHANGED <<site, held>>
  BY SetFailsIs
<1>3. \A d \in mal[g].todo : d.val \in 0 .. count
  BY <1>2, BaseFacts DEF NumRun
<1>4. RowsKeep /\ count' \in Nat
  <2>1. CASE Received(e)
    BY <1>2, <1>3, <2>1, ReceivedKeeps
  <2>2. CASE UNCHANGED <<site, held>>
    BY <1>2, <2>2, SameKeep DEF SameAll
  <2> QED BY <1>2, <2>1, <2>2
<1>5. NumRun(w)' /\ HeldRun(w)' /\ ReadRun(w)'
  BY <1>1, <1>2, <1>3 DEF NumRun, HeldRun, ReadRun, MalPulls
<1> QED BY <1>1, <1>2, <1>4, <1>5, SoleKeeps

LEMMA MarkIs ==
  ASSUME MalInv, NEW g \in MalWorkers, MarkPushed(g)
  PROVE  LET e == mal[g].read IN
         /\ mal[g].pc = "mark" /\ malMu = g /\ e \in mal[g].todo /\ e \in MalSnap /\ mal[g].todo \subseteq MalSnap
         /\ told'[e.a] = [seen |-> TRUE, val |-> e.val, score |-> e.score] /\ \A a \in Shows \ {e.a} : told'[a] = told[a]
         /\ rated' = (IF Says(listed[e.a], e.val, e.score) THEN rated \ {e.a} ELSE rated)
         /\ UNCHANGED <<oneId, listed, site, count, here, held, lost>>
         /\ \E w \in MalRun : mal' = [mal EXCEPT ![g] = w] /\ w.pc = "push" /\ w.todo = mal[g].todo \ {e}
<1> DEFINE e == mal[g].read
           T == mal[g].todo \ {e}
           w == [mal[g] EXCEPT !.pc = "push", !.todo = T, !.read = NoListing]
<1>1. /\ mal[g].pc = "mark" /\ told' = [told EXCEPT ![e.a] = [seen |-> TRUE, val |-> e.val, score |-> e.score]]
      /\ rated' = (IF Says(listed[e.a], e.val, e.score) THEN rated \ {e.a} ELSE rated)
      /\ mal' = [mal EXCEPT ![g] = w] /\ UNCHANGED <<oneId, listed, site, count, here, held, lost>>
  BY DEF MarkPushed, Become
<1>2. e \in mal[g].todo /\ e \in MalSnap /\ mal[g] \in MalRun /\ mal[g].todo \subseteq MalSnap /\ malMu = g
  BY <1>1, MalFacts DEF RunAt, MalHolds
<1>3. T \subseteq MalSnap /\ NoListing \in MalRow /\ e.a \in Shows
  BY <1>2 DEF NoListing, MalRow, MalSnap
<1> HIDE DEF T, e
<1>4. w \in MalRun /\ w.pc = "push" /\ w.todo = T
  BY <1>2, <1>3 DEF MalRun, MalHolds
<1> HIDE DEF w
<1>5. told'[e.a] = [seen |-> TRUE, val |-> e.val, score |-> e.score] /\ \A a \in Shows \ {e.a} : told'[a] = told[a]
  BY <1>1, <1>3, MalFacts
<1> QED BY <1>1, <1>2, <1>4, <1>5 DEF T, e

LEMMA MarkBase ==
  ASSUME MalInv, MalInv', MalBase, NEW g \in MalWorkers, MarkPushed(g)
  PROVE  MalBase'
<1> DEFINE e == mal[g].read
<1>1. PICK w \in MalRun : mal' = [mal EXCEPT ![g] = w] /\ w.pc = "push" /\ w.todo = mal[g].todo \ {e}
  BY MarkIs
<1>2. /\ mal[g].pc = "mark" /\ malMu = g /\ e \in MalSnap
      /\ told'[e.a] = [seen |-> TRUE, val |-> e.val, score |-> e.score] /\ (\A a \in Shows \ {e.a} : told'[a] = told[a])
      /\ rated' \subseteq rated
      /\ oneId' = oneId /\ listed' = listed /\ site' = site /\ count' = count /\ here' = here /\ held' = held
  BY MarkIs
<1>3. (\A d \in mal[g].todo : d.val \in 0 .. count) /\ e.val \in held[Id(e.a)] /\ e.a \in Shows
  BY <1>2, BaseFacts DEF NumRun, HeldRun, MalSnap
<1> HIDE DEF e
<1>4. HeldRows'
  <2>1. \A a \in Shows : Id(a)' = Id(a)
    BY <1>2 DEF Id
  <2>2. \A a \in Shows : told'[a].seen => told'[a].val \in held[Id(a)]
    BY <1>2, <1>3, BaseFacts DEF HeldRows
  <2> QED BY <1>2, <2>1, <2>2, BaseFacts DEF HeldRows
<1>5. RowsKeep /\ count' \in Nat
  BY <1>2, <1>4, BaseFacts DEF RowsKeep
<1>6. NumRun(w)' /\ HeldRun(w)' /\ ReadRun(w)'
  BY <1>1, <1>2, <1>3 DEF NumRun, HeldRun, ReadRun, MalPulls
<1> QED BY <1>1, <1>2, <1>5, <1>6, SoleKeeps

ListedOf(i) == [i |-> i, a |-> Speaker(i), e |-> site[i]]
LEMMA ListIs ==
  ASSUME MalInv, NEW g \in MalWorkers, List(g)
  PROVE  /\ SameAll /\ lost' = lost /\ malMu = "free"
         /\ \E w \in MalRun : /\ mal' = [mal EXCEPT ![g] = w] /\ w.pc = "entries" /\ w.marks = {}
                              /\ w.todo = {ListedOf(i) : i \in {j \in Shows : site[j].in}}
<1> DEFINE T == {ListedOf(i) : i \in {j \in Shows : site[j].in}}
           w == [mal[g] EXCEPT !.pc = "entries", !.todo = T]
<1>1. mal[g].pc = "pull" /\ malMu = "free" /\ mal' = [mal EXCEPT ![g] = w] /\ SameAll /\ lost' = lost
  BY DEF List, Become, hist, ListedOf, SameAll
<1>2. mal[g] \in MalRun /\ mal[g].marks = {}
  BY <1>1, MalFacts DEF RunAt
<1>3. T \subseteq MalListed
  <2>1. ASSUME NEW i \in Shows, site[i].in PROVE ListedOf(i) \in MalListed
    <3>1. i \in MalIds /\ Speaker(i) \in Shows
      BY <2>1, SpeakerOf DEF MalInv, SiteKnown
    <3> QED BY <3>1, MalFacts DEF MalListed, ListedOf
  <2> QED BY <2>1
<1> HIDE DEF T
<1>4. w \in MalRun /\ w.pc = "entries" /\ w.todo = T /\ w.marks = {}
  BY <1>2, <1>3 DEF MalRun, MalHolds
<1> HIDE DEF w
<1> QED BY <1>1, <1>4 DEF T

LEMMA ListBase ==
  ASSUME MalInv, MalInv', MalBase, NEW g \in MalWorkers, List(g)
  PROVE  MalBase'
<1>1. PICK w \in MalRun : /\ mal' = [mal EXCEPT ![g] = w] /\ w.pc = "entries" /\ w.marks = {}
                          /\ w.todo = {ListedOf(i) : i \in {j \in Shows : site[j].in}}
  BY ListIs
<1>2. \A x \in w.todo : x.e.val \in 0 .. count /\ x.e.val \in held[x.i]
  BY <1>1, BaseFacts DEF ListedOf, HeldRows
<1>3. NumRun(w) /\ HeldRun(w) /\ ReadRun(w)
  BY <1>1, <1>2 DEF NumRun, HeldRun, ReadRun, MalPulls
<1> QED BY <1>1, <1>3, ListIs, HolderBase

LEMMA PushedIs ==
  ASSUME MalInv, NEW g \in MalWorkers, NEW x \in mal[g].todo, Pushed(g, x)
  PROVE  /\ SameAll /\ lost' = lost /\ mal[g].pc = "entries" /\ malMu = g /\ x \in MalListed /\ x.a \in Shows
         /\ \E w \in MalRun : /\ mal' = [mal EXCEPT ![g] = w] /\ w.pc = "row" /\ w.todo = mal[g].todo /\ w.marks = mal[g].marks
                              /\ w.at = x.a /\ w.last = told[x.a]
<1> DEFINE w == [mal[g] EXCEPT !.pc = "row", !.at = x.a, !.last = told[x.a]]
<1>1. mal[g].pc = "entries" /\ mal' = [mal EXCEPT ![g] = w] /\ SameAll /\ lost' = lost
  BY DEF Pushed, Become, hist, SameAll
<1>2. mal[g] \in MalRun /\ x \in MalListed /\ x.a \in Shows /\ told[x.a] \in MalTold /\ malMu = g
  BY <1>1, MalFacts DEF RunAt, MalListed, MalHolds
<1>3. /\ w \in MalRun /\ w.pc = "row" /\ w.todo = mal[g].todo /\ w.marks = mal[g].marks /\ w.at = x.a /\ w.last = told[x.a]
  BY <1>2 DEF MalRun, MalHolds
<1> HIDE DEF w
<1> QED BY <1>1, <1>2, <1>3

LEMMA ReadRowIs ==
  ASSUME MalInv, NEW g \in MalWorkers, NEW x \in mal[g].todo, ReadRow(g, x)
  PROVE  /\ SameAll /\ lost' = lost /\ mal[g].pc = "row" /\ malMu = g /\ x \in MalListed /\ x.a \in Shows /\ x.a = mal[g].at
         /\ \E w \in MalRun : /\ mal' = [mal EXCEPT ![g] = w] /\ w.pc = "apply" /\ w.todo = mal[g].todo /\ w.marks = mal[g].marks
                              /\ w.at = x.a /\ w.last = mal[g].last /\ w.read = listed[x.a]
<1> DEFINE w == [mal[g] EXCEPT !.pc = "apply", !.read = listed[x.a]]
<1>1. mal[g].pc = "row" /\ x.a = mal[g].at /\ mal' = [mal EXCEPT ![g] = w] /\ SameAll /\ lost' = lost
  BY DEF ReadRow, Become, hist, SameAll
<1>2. mal[g] \in MalRun /\ x \in MalListed /\ x.a \in Shows /\ listed[x.a] \in MalRow /\ malMu = g
  BY <1>1, MalFacts DEF RunAt, MalListed, MalHolds
<1>3. /\ w \in MalRun /\ w.pc = "apply" /\ w.todo = mal[g].todo /\ w.marks = mal[g].marks /\ w.at = x.a /\ w.last = mal[g].last
      /\ w.read = listed[x.a]
  BY <1>1, <1>2 DEF MalRun, MalHolds
<1> HIDE DEF w
<1> QED BY <1>1, <1>2, <1>3

LEMMA LookBase ==
  ASSUME MalInv, MalInv', MalBase, NEW g \in MalWorkers, NEW x \in mal[g].todo, Pushed(g, x) \/ ReadRow(g, x)
  PROVE  MalBase'
<1>1. CASE Pushed(g, x)
  <2>1. PICK w \in MalRun : /\ mal' = [mal EXCEPT ![g] = w] /\ w.pc = "row" /\ w.todo = mal[g].todo /\ w.marks = mal[g].marks
                            /\ w.at = x.a /\ w.last = told[x.a]
    BY <1>1, PushedIs
  <2>2. mal[g].pc = "entries" /\ NumRun(mal[g]) /\ HeldRun(mal[g])
    BY <1>1, PushedIs, BaseFacts
  <2>3. NumRun(w) /\ HeldRun(w) /\ ReadRun(w)
    BY <2>1, <2>2 DEF NumRun, HeldRun, ReadRun, MalPulls
  <2> QED BY <1>1, <2>1, <2>3, PushedIs, HolderBase
<1>2. CASE ReadRow(g, x)
  <2>1. PICK w \in MalRun : /\ mal' = [mal EXCEPT ![g] = w] /\ w.pc = "apply" /\ w.todo = mal[g].todo /\ w.marks = mal[g].marks
                            /\ w.at = x.a /\ w.last = mal[g].last /\ w.read = listed[x.a]
    BY <1>2, ReadRowIs
  <2>2. mal[g].pc = "row" /\ x.a = mal[g].at /\ x.a \in Shows /\ NumRun(mal[g]) /\ HeldRun(mal[g]) /\ ReadRun(mal[g]) /\ listed[x.a].val \in 0 .. count
    BY <1>2, ReadRowIs, BaseFacts
  <2>3. NumRun(w) /\ HeldRun(w) /\ ReadRun(w)
    BY <2>1, <2>2 DEF NumRun, HeldRun, ReadRun, MalPulls
  <2> QED BY <1>2, <2>1, <2>3, ReadRowIs, HolderBase
<1> QED BY <1>1, <1>2

LEMMA ApplyBase ==
  ASSUME MalInv, MalInv', MalBase, NEW g \in MalWorkers, NEW x \in mal[g].todo, Apply(g, x)
  PROVE  MalBase'
<1> DEFINE m == MarkOf(g, x)
           row == Written(g, x)
<1>0. PICK w : w = AppliedRun(g, x)
  OBVIOUS
<1>1. /\ mal[g].pc = "apply" /\ x.a = mal[g].at /\ x.a \in Shows /\ x \in MalListed /\ mal[g].read \in MalRow
      /\ listed' = IF Writes(g, x) THEN [listed EXCEPT ![x.a] = row] ELSE listed
      /\ mal' = [mal EXCEPT ![g] = w]
      /\ w.pc = "entries" /\ w.todo = mal[g].todo \ {x} /\ w.marks = IF Marks(g, x) THEN mal[g].marks \cup {m} ELSE mal[g].marks
  BY <1>0, ApplyIs
<1>2. /\ oneId' = oneId /\ told' = told /\ site' = site /\ count' = count /\ here' = here /\ held' = held /\ rated' = rated
  BY DEF Apply, hist
<1>3. malMu = g /\ PullHolds(mal[g])
  BY <1>1, MalFacts DEF MalHolds
<1>4. /\ \A y \in mal[g].todo : y.e.val \in 0 .. count /\ y.e.val \in held[y.i] /\ Id(y.a) = y.i
      /\ \A n \in mal[g].marks : n.val \in held[Id(n.a)]
      /\ mal[g].read.val \in 0 .. count
  BY <1>1, <1>3, BaseFacts DEF NumRun, HeldRun, PullHolds, MalPulls
<1>5. m.val = x.e.val /\ m.a = x.a
  BY <1>1 DEF MarkOf
<1>6. Writes(g, x) => row.val \in 0 .. count /\ row.in
  <2>1. Applied(g, x).do = "write" => Applied(g, x).val \in {x.e.val, mal[g].read.val}
    BY DEF Applied, PulledEntry, Merge
  <2>2. row.val = Applied(g, x).val /\ row.in
    BY DEF Written
  <2> QED BY <1>4, <2>1, <2>2 DEF Writes
<1> HIDE DEF m, row
<1>7. \A b \in Shows : listed'[b].val \in 0 .. count /\ (~listed'[b].in => listed'[b].score = 0)
  BY <1>1, <1>6, MalFacts, BaseFacts
<1>8. HeldRows'
  BY <1>2, BaseFacts DEF HeldRows, Id
<1>9. RowsKeep /\ count' \in Nat
  BY <1>2, <1>7, <1>8, BaseFacts DEF RowsKeep
<1>10. NumRun(w)' /\ HeldRun(w)' /\ ReadRun(w)'
  <2>1. NumRun(w)' /\ ReadRun(w)'
    BY <1>1, <1>2, <1>4 DEF NumRun, ReadRun, MalPulls
  <2>2. \A n \in w.marks : n.val \in held[Id(n.a)]
    BY <1>1, <1>4, <1>5
  <2>3. HeldRun(w)'
    BY <1>1, <1>2, <1>4, <2>2 DEF HeldRun, MalPulls, Id
  <2> QED BY <2>1, <2>3
<1> QED BY <1>1, <1>3, <1>9, <1>10, SoleKeeps

LEMMA SeedIs ==
  ASSUME MalInv, NEW g \in MalWorkers, SeedPushed(g)
  PROVE  /\ mal[g].pc = "entries" /\ mal[g].todo = {} /\ malMu = g /\ UNCHANGED <<oneId, listed, site, count, here, held, rated, lost>>
         /\ \A a \in Shows : (\A m \in mal[g].marks : m.a # a) => told'[a] = told[a]
         /\ \A a \in Shows : (\E m \in mal[g].marks : m.a = a) =>
              \E m \in mal[g].marks : m.a = a /\ told'[a] = [seen |-> TRUE, val |-> m.val, score |-> m.score]
         /\ \E w \in MalRun : mal' = [mal EXCEPT ![g] = w] /\ w.pc \in {"idle", "rest"}
<1>1. mal[g].pc = "entries" /\ mal[g].todo = {} /\ UNCHANGED <<oneId, listed, site, count, here, held, rated, lost>>
  BY DEF SeedPushed, hist
<1>2. told' = [a \in Shows |-> IF \E m \in mal[g].marks : m.a = a
                               THEN LET m == CHOOSE n \in mal[g].marks : n.a = a IN [seen |-> TRUE, val |-> m.val, score |-> m.score]
                               ELSE told[a]]
  BY DEF SeedPushed
<1>3. malMu = g
  BY <1>1, MalFacts DEF MalHolds
<1>4. ASSUME NEW a \in Shows, \E m \in mal[g].marks : m.a = a
      PROVE  \E m \in mal[g].marks : m.a = a /\ told'[a] = [seen |-> TRUE, val |-> m.val, score |-> m.score]
  BY <1>2, <1>4
<1>5. \A a \in Shows : (\A m \in mal[g].marks : m.a # a) => told'[a] = told[a]
  BY <1>2
<1>6. PICK p \in {"idle", "rest"} : mal' = [mal EXCEPT ![g] = RunPc(p)]
  BY DEF SeedPushed, LetGo, Become, RunPc
<1>7. RunPc(p) \in MalRun /\ RunPc(p).pc = p
  BY IdleIs
<1> QED BY <1>1, <1>3, <1>4, <1>5, <1>6, <1>7

LEMMA SeedBase ==
  ASSUME MalInv, MalInv', MalBase, NEW g \in MalWorkers, SeedPushed(g)
  PROVE  MalBase'
<1>1. PICK w \in MalRun : mal' = [mal EXCEPT ![g] = w] /\ w.pc \in {"idle", "rest"}
  BY SeedIs
<1>2. /\ mal[g].pc = "entries" /\ malMu = g
      /\ oneId' = oneId /\ listed' = listed /\ site' = site /\ count' = count /\ here' = here /\ held' = held /\ rated' = rated
  BY SeedIs
<1>3. ASSUME NEW a \in Shows
      PROVE  told'[a] = told[a] \/ \E m \in mal[g].marks : m.a = a /\ told'[a] = [seen |-> TRUE, val |-> m.val, score |-> m.score]
  <2>1. CASE \E m \in mal[g].marks : m.a = a
    BY <2>1, SeedIs
  <2>2. CASE \A m \in mal[g].marks : m.a # a
    BY <2>2, SeedIs
  <2> QED BY <2>1, <2>2
<1>4. \A m \in mal[g].marks : m.val \in held[Id(m.a)]
  BY <1>2, BaseFacts DEF HeldRun, MalPulls
<1>5. HeldRows'
  <2>1. \A a \in Shows : Id(a)' = Id(a)
    BY <1>2 DEF Id
  <2>2. ASSUME NEW a \in Shows, told'[a].seen PROVE told'[a].val \in held[Id(a)]
    <3>1. CASE told'[a] = told[a]
      BY <2>2, <3>1, BaseFacts DEF HeldRows
    <3>2. CASE \E m \in mal[g].marks : m.a = a /\ told'[a] = [seen |-> TRUE, val |-> m.val, score |-> m.score]
      BY <1>4, <3>2
    <3> QED BY <1>3, <3>1, <3>2
  <2> QED BY <1>2, <2>1, <2>2, BaseFacts DEF HeldRows
<1>6. RowsKeep /\ count' \in Nat
  BY <1>2, <1>5, BaseFacts DEF RowsKeep
<1>7. NumRun(w)' /\ HeldRun(w)' /\ ReadRun(w)'
  BY <1>1 DEF NumRun, HeldRun, ReadRun, MalPulls
<1> QED BY <1>1, <1>2, <1>6, <1>7, SoleKeeps

LEMMA BaseInit == MalInit => MalBase
<1> SUFFICES ASSUME MalInit PROVE MalBase
  OBVIOUS
<1>1. \A g \in MalWorkers : mal[g].pc \notin MalHolds
  BY IdleIs DEF MalInit, MalHolds
<1>2. \A g \in MalWorkers : NumRun(mal[g]) /\ HeldRun(mal[g]) /\ ReadRun(mal[g])
  BY <1>1 DEF NumRun, HeldRun, ReadRun, MalHolds, MalPulls
<1>3. HeldRows
  BY DEF MalInit, HeldRows, NotTold, NoSite
<1>4. MalNumbered
  BY <1>2 DEF MalInit, MalNumbered, NoListing, NoSite
<1> QED BY <1>2, <1>3, <1>4 DEF MalBase, Heard, ReadStill

\* The steps of MalNext, by what they write.
LEMMA MalCases ==
  ASSUME MalNext
  PROVE  \/ \E a \in InPlay : AniListMerge(a) \/ \E s \in MalScores : EditShow(a, s)
         \/ \E s \in {0, 8} : OnSite(1, s)
         \/ SwitchAccount \/ BeginSteps \/ DeleteOnSite \/ RemoveListEntry
         \/ \E g \in MalWorkers : \/ EndSteps(g) \/ Run(g) \/ PushOne(g) \/ MarkPushed(g) \/ List(g) \/ SeedPushed(g)
                                  \/ \E e \in mal[g].todo : \/ SetProgress(g, e) \/ SetProgressFails(g, e)
                                                            \/ Pushed(g, e) \/ ReadRow(g, e) \/ Apply(g, e)
<1>1. InPlay \subseteq Shows
  BY DEF InPlay, Shows
<1> QED BY <1>1 DEF MalNext, BeginSteps, EndSteps

LEMMA BaseNext == MalInv /\ MalInv' /\ MalBase /\ [MalNext]_malVars => MalBase'
<1> SUFFICES ASSUME MalInv, MalInv', MalBase, [MalNext]_malVars PROVE MalBase'
  OBVIOUS
<1>1. CASE UNCHANGED malVars
  <2>1. SameAll /\ mal' = mal
    BY <1>1 DEF malVars, SameAll, hist
  <2>2. "job" \in MalWorkers /\ mal' = [mal EXCEPT !["job"] = mal["job"]]
    BY <2>1 DEF MalInv, MalShape, MalWorkers
  <2> QED BY <2>1, <2>2, SameKeep, AsideKeeps
<1>2. CASE MalNext
  <2>1. ASSUME NEW a \in InPlay, AniListMerge(a) \/ \E s \in MalScores : EditShow(a, s) PROVE MalBase'
    <3>1. a \in Shows
      BY DEF InPlay, Shows
    <3> QED BY <2>1, <3>1, MergeBase, EditBase
  <2>2. ASSUME NEW s \in {0, 8}, OnSite(1, s) PROVE MalBase'
    BY <2>2, OnSiteBase
  <2>3. "job" \in MalWorkers
    BY DEF MalWorkers
  <2>4. CASE SwitchAccount \/ BeginSteps \/ DeleteOnSite \/ RemoveListEntry
    BY <2>3, <2>4, SwitchBase, PlaceBase, DeleteBase, RemoveBase
  <2>5. ASSUME NEW g \in MalWorkers, EndSteps(g) \/ Run(g) \/ PushOne(g) \/ MarkPushed(g) \/ List(g) \/ SeedPushed(g) PROVE MalBase'
    BY <2>5, PlaceBase, RunBase, MarkBase, ListBase, SeedBase
  <2>6. ASSUME NEW g \in MalWorkers, NEW e \in mal[g].todo,
               SetProgress(g, e) \/ SetProgressFails(g, e) \/ Pushed(g, e) \/ ReadRow(g, e) \/ Apply(g, e) PROVE MalBase'
    BY <2>6, SetBase, SetFailsBase, LookBase, ApplyBase
  <2> QED BY <1>2, <2>1, <2>2, <2>4, <2>5, <2>6, MalCases
<1> QED BY <1>1, <1>2

\* Only Apply takes a pull from an entry to the next.
LEMMA OnlyApply ==
  ASSUME MalInv, [MalNext]_malVars, NEW g \in MalWorkers, mal[g].pc = "apply", mal'[g].pc = "entries"
  PROVE  \E x \in mal[g].todo : Apply(g, x)
<1>1. ASSUME NEW h \in MalWorkers, NEW w, mal' = [mal EXCEPT ![h] = w] PROVE h = g /\ w.pc = "entries"
  BY <1>1 DEF MalInv, MalShape
<1>2. mal' # mal /\ MalNext
  BY DEF malVars
<1>3. "job" \in MalWorkers /\ "request" \in MalWorkers /\ malMu = g
  BY MalFacts DEF MalWorkers, MalHolds
<1>4. ASSUME NEW a \in InPlay, AniListMerge(a) \/ \E s \in MalScores : EditShow(a, s) PROVE FALSE
  BY <1>1, <1>2, <1>3, <1>4, IdleIs DEF AniListMerge, EditShow, Become
<1>5. ASSUME NEW s \in {0, 8}, OnSite(1, s) PROVE FALSE
  BY <1>2, <1>5 DEF OnSite
<1>6. CASE SwitchAccount \/ RemoveListEntry
  BY <1>1, <1>2, <1>3, <1>6, IdleIs DEF SwitchAccount, RemoveListEntry, Become
<1>7. CASE DeleteOnSite
  BY <1>1, <1>3, <1>7 DEF DeleteOnSite, Become
<1>8. CASE BeginSteps \/ \E h \in MalWorkers : EndSteps(h)
  BY <1>1, <1>3, <1>8, PlaceIs DEF MalHolds
<1>9. ASSUME NEW h \in MalWorkers, Run(h) \/ PushOne(h) \/ MarkPushed(h) \/ List(h) \/ SeedPushed(h) PROVE FALSE
  BY <1>1, <1>3, <1>9, RunIs, MarkIs, ListIs, SeedIs DEF MalWorkers
<1>10. ASSUME NEW h \in MalWorkers, NEW e \in mal[h].todo, SetProgress(h, e) \/ SetProgressFails(h, e) \/ Pushed(h, e) \/ ReadRow(h, e) PROVE FALSE
  BY <1>1, <1>3, <1>10, SetIs, SetFailsIs, PushedIs, ReadRowIs
<1>11. ASSUME NEW h \in MalWorkers, NEW e \in mal[h].todo, Apply(h, e) PROVE \E x \in mal[g].todo : Apply(g, x)
  <2>1. h = g
    BY <1>1, <1>11, ApplyIs
  <2> QED BY <1>11, <2>1
<1> QED BY <1>2, <1>4, <1>5, <1>6, <1>7, <1>8, <1>9, <1>10, <1>11, MalCases

\* A pull writes over a row only when the site was told it, and a score only for one the site tells from it.
LEMMA PullSpares ==
  ASSUME MalInv, MalBase, [MalNext]_malVars, NEW g \in MalWorkers, mal[g].pc = "apply", mal'[g].pc = "entries",
         NEW a \in Shows, listed[a].in, told[a].seen
  PROVE  /\ listed'[a].val # listed[a].val /\ listed[a].val \in here => listed[a].val \in held[Id(a)]
         /\ listed'[a].score # listed[a].score => MALScore(listed'[a].score) # MALScore(listed[a].score)
<1>1. PICK x \in mal[g].todo : Apply(g, x)
  BY OnlyApply
<1>2. /\ x.a = mal[g].at /\ x.a \in Shows /\ x \in MalListed /\ mal[g].read \in MalRow /\ mal[g].last \in MalTold
      /\ listed' = IF Writes(g, x) THEN [listed EXCEPT ![x.a] = Written(g, x)] ELSE listed
  BY <1>1, ApplyIs
<1>3. CASE Writes(g, x) /\ a = x.a
  <2> DEFINE was == mal[g].last
             read == mal[g].read
             row == Written(g, x)
  <2>1. listed'[a] = row /\ row.val = Applied(g, x).val /\ row.score = Applied(g, x).score
    BY <1>2, <1>3, MalFacts DEF Written
  <2>2. /\ told[a] = was /\ listed[a].in = read.in /\ listed[a].score = read.score /\ (listed[a].val = read.val \/ listed[a].val \notin here)
    <3>1. listed[a].changed <= read.changed /\ listed[a].changed \in Int /\ read.changed \in Int
      BY <1>2, <1>3, MalFacts DEF Writes, MalRow
    <3>2. ReadRun(mal[g]) /\ a = mal[g].at
      BY <1>2, <1>3, BaseFacts
    <3>3. ~(listed[a].changed > read.changed)
      BY <3>1
    <3>4. mal[g].pc = "apply" /\ mal[g].pc \in {"row", "apply"}
      OBVIOUS
    <3> QED BY <3>2, <3>3, <3>4 DEF ReadRun
  <2>3. was.seen /\ read.in /\ Says(was, read.val, read.score) /\ row.val = x.e.val /\ row.score = OurScore(was, x.e)
    <3>1. Applied(g, x).do = "write" /\ was.seen /\ read.in
      BY <1>3, <2>2 DEF Writes
    <3> QED BY <2>1, <3>1 DEF Applied, PulledEntry
  <2>4. told[a].val \in held[Id(a)] /\ x.e.score \in 0 .. 10 /\ listed[a].score \in Int
    BY <1>2, BaseFacts, MalFacts DEF HeldRows, MalListed, MalSite, MalRow
  <2>5. listed[a].val \in here => listed[a].val = told[a].val
    BY <2>2, <2>3 DEF Says
  <2>6. listed[a].score = was.score
    BY <2>2, <2>3 DEF Says
  <2>7. row.score # was.score => row.score = x.e.score * 10 /\ MALScore(was.score) # x.e.score
    BY <2>3 DEF OurScore
  <2> HIDE DEF row, was, read
  <2>8. row.score # was.score => MALScore(row.score) # MALScore(was.score)
    BY <2>4, <2>7, ScoreIs
  <2> QED BY <2>1, <2>4, <2>5, <2>6, <2>8
<1>4. CASE ~(Writes(g, x) /\ a = x.a)
  BY <1>2, <1>4, MalFacts
<1> QED BY <1>3, <1>4

-----------------------------------------------------------------------------
(* MyAnimeList: what a push sends is new to the site.                       *)

\* An edit the site has not held; a row it was told, was sent, or is marked for when the pull ends.
FreshEdit(a, v) == v \in 1 .. count /\ v \notin held[a]
ToldRow(a) == told[a].seen /\ Says(told[a], listed[a].val, listed[a].score)
MarksShow(w, a) == w.pc \in MalPulls /\ \E m \in w.marks : m.a = a
MarksRow(w, a) == w.pc \in MalPulls /\ \E m \in w.marks : m.a = a /\ Says(m, listed[a].val, listed[a].score)
SentRow(w, a) == w.pc = "mark" /\ w.read.a = a /\ Says(w.read, listed[a].val, listed[a].score)
\* With w the run that has the lock: a row on the list is new to the site or the site's own.
RowBacked(w, a) ==
  listed[a].in =>
    \/ a \in rated \/ FreshEdit(a, listed[a].val) \/ MarksRow(w, a)
    \/ ~MarksShow(w, a) /\ (ToldRow(a) \/ SentRow(w, a))
\* A show the site knows nothing of has no score, unless that is what was edited.
ScoreBacked(w, a) == listed[a].in /\ ~told[a].seen /\ ~MarksShow(w, a) => a \in rated \/ listed[a].score = 0
\* What a push has yet to send is new; what it read is still so, or was edited.
PushFresh(w) ==
  w.pc \in {"push", "mark"} =>
    /\ \A d, e \in w.todo : d.a = e.a => d = e
    /\ \A e \in w.todo : (w.pc = "mark" /\ e = w.read) \/ e.a \in rated \/ FreshEdit(e.a, e.val)
    /\ \A e \in w.todo : listed[e.a].in => \/ e.a \in rated \/ Says(e, listed[e.a].val, listed[e.a].score)
                                           \/ FreshEdit(e.a, listed[e.a].val) /\ listed[e.a].val # e.val
\* A pull marks a show once, after it; a row it read of a show not told is new to the site.
PullFresh(w) ==
  w.pc \in MalPulls =>
    /\ \A x, y \in w.todo : x.a = y.a => x = y
    /\ \A x \in w.todo : \A m \in w.marks : m.a # x.a
    /\ \A m, n \in w.marks : m.a = n.a => m = n
    /\ w.pc \in {"row", "apply"} /\ ~w.last.seen => ~told[w.at].seen
    /\ w.pc = "apply" /\ ~w.last.seen /\ w.read.in => w.at \in rated \/ (w.read.score = 0 /\ FreshEdit(w.at, w.read.val))
BackedBy(w) == (\A a \in Shows : RowBacked(w, a) /\ ScoreBacked(w, a)) /\ PushFresh(w) /\ PullFresh(w)
InHand(w) == w = IF malMu = "free" THEN Idle ELSE mal[malMu]
Backed == ~lost /\ ~oneId => \A w \in MalRun : InHand(w) => BackedBy(w)

\* A step beside the run w that has the lock: rows change only by edits, which are new.
BesideRun ==
  /\ count \in Nat /\ count' \in Nat /\ count' >= count /\ rated \subseteq rated'
  /\ \A a \in Shows : \A v \in 1 .. count : v \notin held[a] => v \notin held'[a]
  /\ \A a \in Shows : told'[a] = told[a] \/ (~told'[a].seen /\ ~listed'[a].in)
  /\ \A a \in Shows : listed'[a].in =>
       \/ a \in rated'
       \/ listed[a].in /\ listed'[a].val = listed[a].val /\ listed'[a].score = listed[a].score
       \/ /\ listed'[a].val > count /\ FreshEdit(a, listed[a].val)' /\ listed'[a].score = listed[a].score
          /\ listed[a].in \/ listed[a].score = 0
LEMMA BesideBacked ==
  ASSUME BesideRun, NEW w \in MalRun, RunAt(w), NumRun(w), BackedBy(w)
  PROVE  BackedBy(w)'
<1>1. ASSUME NEW a \in Shows, NEW v, FreshEdit(a, v) PROVE FreshEdit(a, v)'
  BY <1>1 DEF FreshEdit, BesideRun
<1>2. ASSUME NEW a \in Shows PROVE RowBacked(w, a)'
  <2> SUFFICES ASSUME listed'[a].in PROVE RowBacked(w, a)'
    BY DEF RowBacked
  <2>1. CASE a \in rated' \/ FreshEdit(a, listed[a].val)'
    BY <2>1 DEF RowBacked
  <2>2. CASE listed[a].in /\ listed'[a].val = listed[a].val /\ listed'[a].score = listed[a].score
    <3>1. told'[a] = told[a]
      BY DEF BesideRun
    <3>2. ToldRow(a)' <=> ToldRow(a)
      BY <2>2, <3>1 DEF ToldRow
    <3>3. (MarksRow(w, a)' <=> MarksRow(w, a)) /\ (MarksShow(w, a)' <=> MarksShow(w, a)) /\ (SentRow(w, a)' <=> SentRow(w, a))
      BY <2>2 DEF MarksRow, MarksShow, SentRow
    <3>4. RowBacked(w, a)
      BY DEF BackedBy
    <3>5. (a \in rated => a \in rated') /\ (FreshEdit(a, listed[a].val) => FreshEdit(a, listed[a].val)')
      BY <2>2 DEF FreshEdit, BesideRun
    <3> QED BY <2>2, <3>2, <3>3, <3>4, <3>5 DEF RowBacked
  <2> QED BY <2>1, <2>2 DEF BesideRun
<1>3. ASSUME NEW a \in Shows PROVE ScoreBacked(w, a)'
  <2> SUFFICES ASSUME listed'[a].in, ~told'[a].seen, ~MarksShow(w, a)', a \notin rated' PROVE listed'[a].score = 0
    BY DEF ScoreBacked
  <2>1. ~told[a].seen /\ a \notin rated /\ ~MarksShow(w, a)
    BY DEF BesideRun, MarksShow
  <2>2. ScoreBacked(w, a)
    BY DEF BackedBy
  <2> QED BY <2>1, <2>2 DEF ScoreBacked, BesideRun
<1>4. PushFresh(w)'
  <2> SUFFICES ASSUME w.pc \in {"push", "mark"} PROVE PushFresh(w)'
    BY DEF PushFresh
  <2>1. w.todo \subseteq MalSnap /\ (\A e \in w.todo : e.a \in Shows /\ e.val \in 0 .. count) /\ PushFresh(w)
    BY DEF RunAt, NumRun, MalSnap, BackedBy
  <2>2. ASSUME NEW e \in w.todo PROVE (w.pc = "mark" /\ e = w.read) \/ e.a \in rated' \/ FreshEdit(e.a, e.val)'
    BY <1>1, <2>1 DEF PushFresh, BesideRun
  <2>3. ASSUME NEW e \in w.todo, listed'[e.a].in
        PROVE  \/ e.a \in rated' \/ Says(e, listed'[e.a].val, listed'[e.a].score)
               \/ FreshEdit(e.a, listed[e.a].val)' /\ listed'[e.a].val # e.val
    <3>1. e.a \in Shows /\ e.val \in 0 .. count
      BY <2>1
    <3>2. CASE listed[e.a].in /\ listed'[e.a].val = listed[e.a].val /\ listed'[e.a].score = listed[e.a].score
      <4>1. e.a \in rated \/ Says(e, listed[e.a].val, listed[e.a].score) \/ (FreshEdit(e.a, listed[e.a].val) /\ listed[e.a].val # e.val)
        BY <2>1, <3>2 DEF PushFresh
      <4>2. FreshEdit(e.a, listed[e.a].val) => FreshEdit(e.a, listed[e.a].val)'
        BY <3>1, <3>2 DEF FreshEdit, BesideRun
      <4> QED BY <3>2, <4>1, <4>2 DEF BesideRun
    <3>3. CASE listed'[e.a].val > count /\ FreshEdit(e.a, listed[e.a].val)'
      BY <3>1, <3>3 DEF BesideRun
    <3> QED BY <2>3, <3>1, <3>2, <3>3 DEF BesideRun
  <2> QED BY <2>1, <2>2, <2>3 DEF PushFresh
<1>5. PullFresh(w)'
  <2> SUFFICES ASSUME w.pc \in MalPulls PROVE PullFresh(w)'
    BY DEF PullFresh
  <2>1. PullFresh(w) /\ (w.pc \in {"row", "apply"} => w.at \in Shows)
    BY DEF BackedBy, RunAt
  <2>2. ASSUME w.pc \in {"row", "apply"}, ~w.last.seen PROVE ~told'[w.at].seen
    BY <2>1, <2>2 DEF PullFresh, BesideRun
  <2>3. ASSUME w.pc = "apply", ~w.last.seen, w.read.in PROVE w.at \in rated' \/ (w.read.score = 0 /\ FreshEdit(w.at, w.read.val)')
    BY <1>1, <2>1, <2>3 DEF PullFresh, BesideRun
  <2> QED BY <2>1, <2>2, <2>3 DEF PullFresh
<1> QED BY <1>2, <1>3, <1>4, <1>5 DEF BackedBy

\* The run that has the lock is one of the runs, or none.
LEMMA InHandIs ==
  ASSUME MalInv, MalBase, NEW w, InHand(w)
  PROVE  w \in MalRun /\ RunAt(w) /\ NumRun(w) /\ (malMu = "free" => w.pc = "idle") /\ \A g \in MalWorkers : malMu = g => w = mal[g]
<1>1. CASE malMu = "free"
  <2>1. w = Idle /\ w.pc \notin MalHolds
    BY <1>1, IdleIs DEF InHand, MalHolds
  <2> QED BY <1>1, <2>1, IdleIs, NoMalRun DEF MalWorkers
<1>2. CASE malMu # "free"
  BY <1>2, MalFacts, BaseFacts DEF InHand, MalInv, MalShape
<1> QED BY <1>1, <1>2

\* A step that leaves the lock and the run that has it.
LEMMA BesideRunKeeps ==
  ASSUME MalInv, MalBase, Backed, BesideRun, lost' = lost, oneId' = oneId, malMu' = malMu, NEW g \in MalWorkers, NEW r,
         mal' = [mal EXCEPT ![g] = r], r = mal[g] \/ mal[g].pc \notin MalHolds
  PROVE  Backed'
<1> SUFFICES ASSUME ~lost, ~oneId, NEW w \in MalRun, InHand(w)' PROVE BackedBy(w)'
  BY DEF Backed
<1>1. \A h \in MalWorkers : malMu = h => mal'[h] = mal[h]
  BY MalFacts DEF MalInv, MalShape
<1>2. InHand(w)
  BY <1>1 DEF InHand, MalInv, MalShape
<1>3. RunAt(w) /\ NumRun(w) /\ BackedBy(w)
  BY <1>2, InHandIs DEF Backed
<1> QED BY <1>3, BesideBacked

\* A step of the run that has the lock, takes it or gives it back.
LEMMA HandKeeps ==
  ASSUME MalInv', NEW g \in MalWorkers, NEW r, mal' = [mal EXCEPT ![g] = r], mal \in [MalWorkers -> MalRun],
         (malMu' = g /\ (~lost' /\ ~oneId' => BackedBy(r)')) \/ (malMu' = "free" /\ (~lost' /\ ~oneId' => BackedBy(Idle)'))
  PROVE  Backed'
<1> SUFFICES ASSUME ~lost', ~oneId', NEW w \in MalRun, InHand(w)' PROVE BackedBy(w)'
  BY DEF Backed
<1>1. mal'[g] = r /\ g # "free"
  BY DEF MalWorkers
<1>2. InHand(w)' <=> w = IF malMu' = "free" THEN Idle ELSE mal'[malMu']
  BY DEF InHand
<1>3. CASE malMu' = g
  BY <1>1, <1>2, <1>3
<1>4. CASE malMu' = "free"
  BY <1>1, <1>2, <1>4 DEF Idle
<1> QED BY <1>3, <1>4

LEMMA EditBacked ==
  ASSUME MalInv, MalBase, Backed, NEW a \in Shows, NEW s \in MalScores, EditShow(a, s)
  PROVE  Backed'
<1> DEFINE valued == s = listed[a].score
           row == [in |-> TRUE, score |-> s, changed |-> Bump(a, count + 1), val |-> IF valued THEN count + 1 ELSE listed[a].val]
<1>1. /\ mal["request"].pc = "idle" /\ count' = count + 1 /\ listed' = [listed EXCEPT ![a] = row]
      /\ mal' = [mal EXCEPT !["request"] = RunOn("one", a)] /\ malMu' = malMu
      /\ oneId' = oneId /\ told' = told /\ held' = held /\ lost' = lost /\ rated' = (IF valued THEN rated ELSE rated \cup {a})
  BY DEF EditShow, Become, Counted, RunOn
<1>2. /\ count \in Nat /\ listed \in [Shows -> MalRow] /\ held \in [Shows -> SUBSET (0 .. count)]
      /\ \A b \in Shows : ~listed[b].in => listed[b].score = 0
  BY MalFacts, BaseFacts
<1>3. valued => row.val = count + 1 /\ row.score = listed[a].score
  OBVIOUS
<1> HIDE DEF row, valued
<1>4. listed'[a] = row /\ \A b \in Shows \ {a} : listed'[b] = listed[b]
  BY <1>1, <1>2
<1>5. count + 1 \notin held[a] /\ count + 1 \in 1 .. count + 1 /\ count + 1 > count
  BY <1>2
<1>6. valued => listed'[a].val > count /\ FreshEdit(a, listed[a].val)' /\ listed'[a].score = listed[a].score
  BY <1>1, <1>3, <1>4, <1>5 DEF FreshEdit
<1>7. ~valued => a \in rated'
  BY <1>1
<1>8. ASSUME NEW b \in Shows, listed'[b].in
      PROVE  \/ b \in rated'
             \/ listed[b].in /\ listed'[b].val = listed[b].val /\ listed'[b].score = listed[b].score
             \/ /\ listed'[b].val > count /\ FreshEdit(b, listed[b].val)' /\ listed'[b].score = listed[b].score
                /\ listed[b].in \/ listed[b].score = 0
  <2>1. CASE b = a
    BY <1>2, <1>6, <1>7, <2>1
  <2>2. CASE b # a
    BY <1>4, <1>8, <2>2
  <2> QED BY <2>1, <2>2
<1>9. BesideRun
  BY <1>1, <1>2, <1>8 DEF BesideRun
<1>10. "request" \in MalWorkers /\ mal["request"].pc \notin MalHolds
  BY <1>1 DEF MalWorkers, MalHolds
<1> QED BY <1>1, <1>9, <1>10, BesideRunKeeps

LEMMA MergeBacked ==
  ASSUME MalInv, MalBase, Backed, NEW a \in Shows, AniListMerge(a)
  PROVE  Backed'
<1>1. /\ listed[a].in /\ count' = count + 1 /\ listed' = [listed EXCEPT ![a].val = count + 1] /\ malMu' = malMu
      /\ oneId' = oneId /\ told' = told /\ mal' = mal /\ held' = held /\ rated' = rated /\ lost' = lost
  BY DEF AniListMerge, Counted, hist
<1>2. count \in Nat /\ listed \in [Shows -> MalRow] /\ held \in [Shows -> SUBSET (0 .. count)]
  BY MalFacts, BaseFacts
<1>3. /\ listed'[a].val = count + 1 /\ listed'[a].score = listed[a].score /\ \A b \in Shows \ {a} : listed'[b] = listed[b]
  BY <1>1, <1>2 DEF MalRow
<1>4. count + 1 \notin held[a] /\ count + 1 \in 1 .. count + 1 /\ count + 1 > count
  BY <1>2
<1>5. FreshEdit(a, listed[a].val)'
  BY <1>1, <1>3, <1>4 DEF FreshEdit
<1>6. BesideRun
  BY <1>1, <1>2, <1>3, <1>4, <1>5 DEF BesideRun
<1>7. "job" \in MalWorkers /\ mal' = [mal EXCEPT !["job"] = mal["job"]]
  BY <1>1 DEF MalInv, MalShape, MalWorkers
<1> QED BY <1>1, <1>6, <1>7, BesideRunKeeps

\* The rows stay and the site holds nothing new but later edits.
LEMMA RowsBeside ==
  ASSUME count \in Nat, count' \in Nat, count' >= count, listed' = listed, told' = told, rated' = rated,
         \A a \in Shows : \A v \in 1 .. count : v \notin held[a] => v \notin held'[a]
  PROVE  BesideRun
BY DEF BesideRun

LEMMA OnSiteBacked ==
  ASSUME MalInv, MalBase, Backed, NEW s \in {0, 8}, OnSite(1, s)
  PROVE  Backed'
<1> DEFINE v == IF s = site[1].score THEN count + 1 ELSE site[1].val
<1>1. /\ count' = count + 1 /\ held' = [held EXCEPT ![1] = @ \cup {v}] /\ malMu' = malMu
      /\ oneId' = oneId /\ told' = told /\ listed' = listed /\ mal' = mal /\ rated' = rated /\ lost' = lost
  BY DEF OnSite, Counted
<1>2. count \in Nat /\ 1 \in Shows /\ held \in [Shows -> SUBSET (0 .. count)] /\ HeldRows
  BY BaseFacts DEF Shows
<1>3. v = count + 1 \/ v = 0 \/ v \in held[1]
  BY <1>2 DEF HeldRows
<1> HIDE DEF v
<1>4. \A a \in Shows : \A u \in 1 .. count : u \notin held[a] => u \notin held'[a]
  BY <1>1, <1>2, <1>3
<1>5. "job" \in MalWorkers /\ mal' = [mal EXCEPT !["job"] = mal["job"]]
  BY <1>1 DEF MalInv, MalShape, MalWorkers
<1>6. BesideRun
  BY <1>1, <1>2, <1>4, RowsBeside
<1> QED BY <1>1, <1>5, <1>6, BesideRunKeeps

LEMMA DeleteBacked ==
  ASSUME MalInv, MalBase, Backed, DeleteOnSite
  PROVE  Backed'
<1>1. /\ mal["request"].pc = "remove" /\ mal' = [mal EXCEPT !["request"] = [mal["request"] EXCEPT !.pc = "drop"]]
      /\ oneId' = oneId /\ listed' = listed /\ told' = told /\ count' = count /\ held' = held /\ rated' = rated /\ lost' = lost /\ malMu' = malMu
  BY DEF DeleteOnSite, Become, hist
<1>2. "request" \in MalWorkers /\ mal["request"].pc \notin MalHolds /\ count \in Nat
  BY <1>1, BaseFacts DEF MalWorkers, MalHolds
<1>3. BesideRun
  BY <1>1, <1>2, RowsBeside
<1> QED BY <1>1, <1>2, <1>3, BesideRunKeeps

LEMMA RemoveBacked ==
  ASSUME MalInv, MalBase, Backed, RemoveListEntry
  PROVE  Backed'
<1> DEFINE a == mal["request"].at
<1>1. /\ mal["request"].pc = "drop" /\ listed' = [listed EXCEPT ![a] = NoListing] /\ told' = [told EXCEPT ![a] = NotTold]
      /\ mal' = [mal EXCEPT !["request"] = Idle]
      /\ oneId' = oneId /\ count' = count /\ held' = held /\ rated' = rated /\ lost' = lost /\ malMu' = malMu
  BY DEF RemoveListEntry, Become
<1>2. "request" \in MalWorkers /\ mal["request"].pc \notin MalHolds /\ a \in Shows /\ count \in Nat
  BY <1>1, MalFacts, BaseFacts DEF RunAt, MalWorkers, MalHolds
<1> HIDE DEF a
<1>3. /\ listed'[a] = NoListing /\ told'[a] = NotTold /\ \A b \in Shows \ {a} : listed'[b] = listed[b] /\ told'[b] = told[b]
  BY <1>1, <1>2, MalFacts
<1>4. ~told'[a].seen /\ ~listed'[a].in
  BY <1>3 DEF NoListing, NotTold
<1>5. BesideRun
  BY <1>1, <1>2, <1>3, <1>4 DEF BesideRun
<1> QED BY <1>1, <1>2, <1>5, BesideRunKeeps

\* A run that begins, or ends before it took the lock.
LEMMA BeginBacked ==
  ASSUME MalInv, MalBase, Backed, BeginSteps \/ \E g \in MalWorkers : ListFails(g)
  PROVE  Backed'
<1>1. SameAll /\ lost' = lost /\ malMu' = malMu
  BY DEF BeginSteps, ListFails, StartJob, AskSync, TakeOff, JobRests, DeleteFails, SameAll, hist
<1>2. \E h \in MalWorkers : \E r : mal' = [mal EXCEPT ![h] = r] /\ mal[h].pc \in {"idle", "pull", "rest", "remove"}
  BY DEF BeginSteps, ListFails, StartJob, AskSync, TakeOff, JobRests, DeleteFails, Become, MalWorkers
<1>3. PICK h \in MalWorkers : \E r : mal' = [mal EXCEPT ![h] = r] /\ mal[h].pc \in {"idle", "pull", "rest", "remove"}
  BY <1>2
<1>4. PICK r : mal' = [mal EXCEPT ![h] = r] /\ mal[h].pc \notin MalHolds
  BY <1>3 DEF MalHolds
<1>5. BesideRun /\ oneId' = oneId
  BY <1>1, BaseFacts, RowsBeside DEF SameAll
<1> QED BY <1>1, <1>4, <1>5, BesideRunKeeps

\* A step of the run that has the lock, or takes it: the other holds nothing.
LEMMA HandStep ==
  ASSUME MalInv, MalInv', NEW g \in MalWorkers, NEW r, mal' = [mal EXCEPT ![g] = r], malMu \in {g, "free"},
         ~lost' /\ ~oneId' => BackedBy(r)'
  PROVE  Backed'
<1>1. mal \in [MalWorkers -> MalRun] /\ mal'[g] = r /\ \A h \in MalWorkers \ {g} : mal'[h] = mal[h]
  BY DEF MalInv, MalShape
<1>2. \A h \in MalWorkers \ {g} : mal[h].pc \notin MalHolds
  BY MalFacts DEF MalWorkers
<1>3. \A h \in MalWorkers : mal'[h].pc \in MalHolds <=> malMu' = h
  BY DEF MalInv, MalLock
<1>4. malMu' \in {g, "free"} /\ (malMu' = "free" => r.pc \notin MalHolds)
  BY <1>1, <1>2, <1>3 DEF MalInv, MalShape, MalWorkers
<1>5. ASSUME r.pc \notin MalHolds, BackedBy(r)' PROVE BackedBy(Idle)'
  BY <1>5, IdleIs DEF BackedBy, RowBacked, ScoreBacked, PushFresh, PullFresh, MarksRow, MarksShow, SentRow, MalHolds, MalPulls
<1> QED BY <1>1, <1>4, <1>5, HandKeeps

\* What the invariant says of the run that has the lock, and of none.
LEMMA InHandBacked ==
  ASSUME MalInv, Backed, ~lost, ~oneId
  PROVE  /\ \A g \in MalWorkers : malMu = g => BackedBy(mal[g])
         /\ malMu = "free" => BackedBy(Idle)
BY IdleIs, MalFacts DEF Backed, InHand, MalWorkers

\* Nothing is written but the run.
LEMMA SameBacked ==
  ASSUME SameAll, NEW w, BackedBy(w)
  PROVE  BackedBy(w)'
<1>1. listed' = listed /\ told' = told /\ count' = count /\ held' = held /\ rated' = rated
  BY DEF SameAll
<1>2. \A a \in Shows : /\ RowBacked(w, a)' <=> RowBacked(w, a)
                       /\ ScoreBacked(w, a)' <=> ScoreBacked(w, a)
  BY <1>1 DEF RowBacked, ScoreBacked, MarksRow, MarksShow, SentRow, ToldRow, FreshEdit
<1>3. (PushFresh(w)' <=> PushFresh(w)) /\ (PullFresh(w)' <=> PullFresh(w))
  BY <1>1 DEF PushFresh, PullFresh, FreshEdit
<1> QED BY <1>2, <1>3 DEF BackedBy

LEMMA RunBacked ==
  ASSUME MalInv, MalInv', MalBase, Backed, NEW g \in MalWorkers, Run(g) \/ PushOne(g)
  PROVE  Backed'
<1>1. PICK w \in MalRun : /\ mal' = [mal EXCEPT ![g] = w] /\ w.pc = "push"
                          /\ \E S \in SUBSET Pending : w.todo = {Snap(a) : a \in S}
  BY RunIs
<1>2. SameAll /\ malMu = "free" /\ lost' = lost /\ oneId' = oneId
  BY RunIs DEF SameAll
<1>3. ASSUME ~lost, ~oneId PROVE BackedBy(w)
  <2>1. BackedBy(Idle) /\ Idle.pc = "idle"
    BY <1>2, <1>3, InHandBacked, IdleIs
  <2>2. \A a \in Shows : RowBacked(Idle, a) /\ ScoreBacked(Idle, a)
    BY <2>1 DEF BackedBy
  <2>3. \A a \in Shows : RowBacked(w, a) /\ ScoreBacked(w, a)
    BY <1>1, <2>1, <2>2 DEF RowBacked, ScoreBacked, MarksRow, MarksShow, SentRow, MalPulls
  <2>4. ASSUME NEW a \in Pending PROVE listed[a].in /\ a \in Shows /\ (a \in rated \/ FreshEdit(a, listed[a].val))
    <3>1. listed[a].in /\ a \in Shows /\ ~ToldRow(a)
      BY DEF Pending, ToldRow
    <3>2. ~MarksRow(Idle, a) /\ ~SentRow(Idle, a)
      BY <2>1 DEF MarksRow, SentRow, MalPulls
    <3> QED BY <2>2, <3>1, <3>2 DEF RowBacked
  <2>5. \A a : Snap(a).a = a /\ Says(Snap(a), listed[a].val, listed[a].score) /\ Snap(a).val = listed[a].val
    BY DEF Snap, Says
  <2>6. \A e \in w.todo : \E a \in Pending : e = Snap(a)
    BY <1>1
  <2>7. \A e \in w.todo : Says(e, listed[e.a].val, listed[e.a].score) /\ (e.a \in rated \/ FreshEdit(e.a, e.val)) /\ e = Snap(e.a)
    BY <2>4, <2>5, <2>6
  <2>8. PushFresh(w)
    BY <2>7 DEF PushFresh
  <2>9. PullFresh(w)
    BY <1>1 DEF PullFresh, MalPulls
  <2> QED BY <2>3, <2>8, <2>9 DEF BackedBy
<1> QED BY <1>1, <1>2, <1>3, SameBacked, HandStep

LEMMA SetBacked ==
  ASSUME MalInv, MalInv', MalBase, Backed, NEW g \in MalWorkers, NEW e \in mal[g].todo, SetProgress(g, e)
  PROVE  Backed'
<1>1. PICK w \in MalRun : mal' = [mal EXCEPT ![g] = w] /\ w.pc = "mark" /\ w.read = e /\ w.todo = mal[g].todo
  BY SetIs
<1>2. /\ mal[g].pc = "push" /\ malMu = g /\ Received(e) /\ e \in MalSnap /\ mal[g].todo \subseteq MalSnap
      /\ oneId' = oneId /\ listed' = listed /\ told' = told /\ count' = count /\ here' = here /\ rated' = rated /\ lost' = lost
  BY SetIs
<1>3. ASSUME ~lost, ~oneId PROVE BackedBy(w)'
  <2>1. BackedBy(mal[g])
    BY <1>2, <1>3, InHandBacked
  <2>2. /\ \A d \in mal[g].todo : d.a = e.a => d = e
        /\ \A d \in mal[g].todo : d.a \in rated \/ FreshEdit(d.a, d.val)
        /\ \A d \in mal[g].todo : listed[d.a].in => \/ d.a \in rated \/ Says(d, listed[d.a].val, listed[d.a].score)
                                                    \/ FreshEdit(d.a, listed[d.a].val) /\ listed[d.a].val # d.val
        /\ \A c, d \in mal[g].todo : c.a = d.a => c = d
    BY <1>2, <2>1 DEF BackedBy, PushFresh
  <2>3. e.a \in Shows /\ Id(e.a) = e.a /\ e.val \in 0 .. count /\ \A d \in mal[g].todo : d.a \in Shows
    BY <1>2, <1>3, BaseFacts DEF MalSnap, Id, NumRun
  <2>4. held'[e.a] = held[e.a] \cup {e.val} /\ \A a \in Shows \ {e.a} : held'[a] = held[a]
    BY <1>2, <2>3, ReceivedKeeps
  <2>5. ASSUME NEW a \in Shows, NEW v, FreshEdit(a, v), a # e.a \/ v # e.val PROVE FreshEdit(a, v)'
    BY <1>2, <2>4, <2>5 DEF FreshEdit
  <2>6. ASSUME NEW d \in mal[g].todo, listed[d.a].in
        PROVE  \/ d.a \in rated \/ Says(d, listed[d.a].val, listed[d.a].score)
               \/ FreshEdit(d.a, listed[d.a].val)' /\ listed[d.a].val # d.val
    <3>1. CASE FreshEdit(d.a, listed[d.a].val) /\ listed[d.a].val # d.val
      <4>1. d.a \in Shows /\ (d.a = e.a => d = e)
        BY <2>2, <2>3
      <4>2. FreshEdit(d.a, listed[d.a].val)'
        BY <1>2, <2>4, <3>1, <4>1 DEF FreshEdit
      <4> QED BY <3>1, <4>2
    <3> QED BY <2>2, <2>6, <3>1
  <2>7. ASSUME NEW a \in Shows PROVE RowBacked(w, a)' /\ ScoreBacked(w, a)'
    <3>1. RowBacked(mal[g], a) /\ ScoreBacked(mal[g], a)
      BY <2>1 DEF BackedBy
    <3>2. ScoreBacked(w, a)'
      BY <1>1, <1>2, <3>1 DEF ScoreBacked, MarksShow, MalPulls
    <3>3. ~MarksShow(w, a)' /\ ~MarksRow(mal[g], a) /\ ~SentRow(mal[g], a)
      BY <1>1, <1>2 DEF MarksShow, MarksRow, SentRow, MalPulls
    <3>4. CASE a = e.a
      <4>1. Says(e, listed[a].val, listed[a].score) => SentRow(w, a)'
        BY <1>1, <1>2, <3>4 DEF SentRow
      <4>2. listed[a].in => \/ a \in rated \/ Says(e, listed[a].val, listed[a].score) \/ FreshEdit(a, listed[a].val)'
        BY <2>6, <3>4
      <4> QED BY <1>2, <3>2, <3>3, <4>1, <4>2 DEF RowBacked
    <3>5. CASE a # e.a
      <4>1. FreshEdit(a, listed[a].val) => FreshEdit(a, listed[a].val)'
        BY <1>2, <2>4, <3>5 DEF FreshEdit
      <4>2. ToldRow(a)' <=> ToldRow(a)
        BY <1>2 DEF ToldRow
      <4> QED BY <1>2, <3>1, <3>2, <3>3, <4>1, <4>2 DEF RowBacked
    <3> QED BY <3>4, <3>5
  <2>8. ASSUME NEW d \in mal[g].todo PROVE d = e \/ d.a \in rated \/ FreshEdit(d.a, d.val)'
    BY <2>2, <2>3, <2>5
  <2>9. PushFresh(w)'
    BY <1>1, <1>2, <2>2, <2>6, <2>8 DEF PushFresh
  <2>10. PullFresh(w)'
    BY <1>1 DEF PullFresh, MalPulls
  <2> QED BY <2>7, <2>9, <2>10 DEF BackedBy
<1> QED BY <1>1, <1>2, <1>3, HandStep

\* A push that has less to send, or is over.
LEMMA FewerBacked ==
  ASSUME NEW w, NEW r, w.pc = "push", BackedBy(w), (r.pc = "push" /\ r.todo \subseteq w.todo) \/ r.pc \notin MalHolds
  PROVE  BackedBy(r)
<1>1. r.pc # "mark" /\ r.pc \notin MalPulls /\ w.pc # "mark" /\ w.pc \notin MalPulls
  BY DEF MalHolds, MalPulls
<1>2. \A a \in Shows : RowBacked(r, a) /\ ScoreBacked(r, a)
  BY <1>1 DEF BackedBy, RowBacked, ScoreBacked, MarksRow, MarksShow, SentRow
<1>3. PushFresh(r)
  BY <1>1 DEF BackedBy, PushFresh, MalHolds
<1>4. PullFresh(r)
  BY <1>1 DEF PullFresh
<1> QED BY <1>2, <1>3, <1>4 DEF BackedBy

LEMMA SetFailsBacked ==
  ASSUME MalInv, MalInv', MalBase, Backed, NEW g \in MalWorkers, NEW e \in mal[g].todo, SetProgressFails(g, e)
  PROVE  Backed'
<1>1. PICK w \in MalRun : mal' = [mal EXCEPT ![g] = w] /\ ((w.pc = "push" /\ w.todo \subseteq mal[g].todo) \/ w.pc = "idle")
  BY SetFailsIs
<1>2. mal[g].pc = "push" /\ malMu = g /\ oneId' = oneId /\ (lost' \/ (SameAll /\ lost' = lost))
  BY SetFailsIs DEF SameAll
<1>3. ASSUME ~lost', ~oneId' PROVE BackedBy(w)'
  <2>1. BackedBy(mal[g]) /\ SameAll
    BY <1>2, <1>3, InHandBacked
  <2>2. (w.pc = "push" /\ w.todo \subseteq mal[g].todo) \/ w.pc \notin MalHolds
    BY <1>1 DEF MalHolds
  <2>3. BackedBy(w)
    BY <1>2, <2>1, <2>2, FewerBacked
  <2> QED BY <2>1, <2>3, SameBacked
<1> QED BY <1>1, <1>2, <1>3, HandStep

LEMMA RunEndsBacked ==
  ASSUME MalInv, MalInv', MalBase, Backed, NEW g \in MalWorkers, RunEnds(g)
  PROVE  Backed'
<1>1. mal[g].pc = "push" /\ SameAll /\ lost' = lost /\ oneId' = oneId /\ malMu = g
  <2>1. mal[g].pc = "push"
    BY DEF RunEnds
  <2> QED BY <2>1, MalFacts DEF RunEnds, SameAll, hist, MalHolds
<1>2. PICK p \in {"idle", "pull"} : mal' = [mal EXCEPT ![g] = RunPc(p)]
  BY DEF RunEnds, LetGo, Become, RunPc
<1>3. RunPc(p).pc \notin MalHolds
  BY IdleIs DEF MalHolds
<1>4. ~lost /\ ~oneId => BackedBy(RunPc(p))
  BY <1>1, <1>3, InHandBacked, FewerBacked
<1>5. PICK r : r = RunPc(p)
  OBVIOUS
<1>6. ~lost /\ ~oneId => BackedBy(r)'
  BY <1>1, <1>4, <1>5, SameBacked
<1> QED BY <1>1, <1>2, <1>5, <1>6, HandStep

LEMMA MarkBacked ==
  ASSUME MalInv, MalInv', MalBase, Backed, NEW g \in MalWorkers, MarkPushed(g)
  PROVE  Backed'
<1>0. PICK e : e = mal[g].read
  OBVIOUS
<1>1. PICK w \in MalRun : mal' = [mal EXCEPT ![g] = w] /\ w.pc = "push" /\ w.todo = mal[g].todo \ {e}
  BY <1>0, MarkIs
<1>2. /\ mal[g].pc = "mark" /\ malMu = g /\ e \in mal[g].todo /\ e \in MalSnap
      /\ told'[e.a] = [seen |-> TRUE, val |-> e.val, score |-> e.score] /\ (\A a \in Shows \ {e.a} : told'[a] = told[a])
      /\ rated' = (IF Says(listed[e.a], e.val, e.score) THEN rated \ {e.a} ELSE rated)
      /\ oneId' = oneId /\ listed' = listed /\ count' = count /\ held' = held /\ lost' = lost
  BY <1>0, MarkIs
<1>3. ASSUME ~lost, ~oneId PROVE BackedBy(w)'
  <2>1. BackedBy(mal[g])
    BY <1>2, <1>3, InHandBacked
  <2>2. /\ \A c, d \in mal[g].todo : c.a = d.a => c = d
        /\ \A d \in mal[g].todo : d = e \/ d.a \in rated \/ FreshEdit(d.a, d.val)
        /\ \A d \in mal[g].todo : listed[d.a].in => \/ d.a \in rated \/ Says(d, listed[d.a].val, listed[d.a].score)
                                                    \/ FreshEdit(d.a, listed[d.a].val) /\ listed[d.a].val # d.val
    BY <1>0, <1>2, <2>1 DEF BackedBy, PushFresh
  <2>3. \A a \in Shows \ {e.a} : a \in rated' <=> a \in rated
    BY <1>2
  <2>4. \A a, v : FreshEdit(a, v)' <=> FreshEdit(a, v)
    BY <1>2 DEF FreshEdit
  <2>5. FreshEdit(e.a, listed[e.a].val)' <=> FreshEdit(e.a, listed[e.a].val)
    BY <1>2 DEF FreshEdit
  <2>6. ASSUME NEW a \in Shows PROVE RowBacked(w, a)' /\ ScoreBacked(w, a)'
    <3>1. RowBacked(mal[g], a) /\ ScoreBacked(mal[g], a) /\ ~MarksShow(w, a)'
      BY <1>1, <2>1 DEF BackedBy, MarksShow, MalPulls
    <3>2. CASE a = e.a
      <4>1. told'[a].seen /\ told'[a].val = e.val /\ told'[a].score = e.score
        BY <1>2, <3>2
      <4>2. CASE Says(e, listed[a].val, listed[a].score)
        <5>1. ToldRow(a)'
          BY <1>2, <4>1, <4>2 DEF ToldRow, Says
        <5> QED BY <3>1, <4>1, <5>1 DEF RowBacked, ScoreBacked
      <4>3. CASE ~Says(e, listed[a].val, listed[a].score)
        <5>1. rated' = rated
          BY <1>2, <3>2, <4>3 DEF Says
        <5>2. listed[a].in => a \in rated \/ FreshEdit(a, listed[a].val)
          BY <1>2, <2>2, <3>2, <4>3
        <5> QED BY <1>2, <2>5, <3>2, <4>1, <5>1, <5>2 DEF RowBacked, ScoreBacked
      <4> QED BY <4>2, <4>3
    <3>3. CASE a # e.a
      <4>1. ~SentRow(mal[g], a) /\ ~MarksRow(mal[g], a) /\ ~MarksShow(mal[g], a)
        BY <1>0, <1>2, <3>3 DEF SentRow, MarksRow, MarksShow, MalPulls
      <4>2. (ToldRow(a)' <=> ToldRow(a)) /\ told'[a] = told[a] /\ (a \in rated' <=> a \in rated)
        BY <1>2, <2>3, <3>3 DEF ToldRow
      <4>3. FreshEdit(a, listed[a].val)' <=> FreshEdit(a, listed[a].val)
        BY <1>2 DEF FreshEdit
      <4> QED BY <1>2, <3>1, <4>1, <4>2, <4>3 DEF RowBacked, ScoreBacked
    <3> QED BY <3>2, <3>3
  <2>7. ASSUME NEW d \in w.todo
        PROVE  /\ d.a \in rated' \/ FreshEdit(d.a, d.val)'
               /\ listed'[d.a].in => \/ d.a \in rated' \/ Says(d, listed'[d.a].val, listed'[d.a].score)
                                     \/ FreshEdit(d.a, listed[d.a].val)' /\ listed'[d.a].val # d.val
    <3>1. d \in mal[g].todo /\ d # e /\ d.a # e.a
      BY <1>1, <1>2, <2>2
    <3>2. d.a \in Shows
      BY <1>1, <1>2, <3>1, MalFacts DEF RunAt, MalSnap
    <3>3. d.a \in rated' <=> d.a \in rated
      BY <2>3, <3>1, <3>2
    <3>4. (FreshEdit(d.a, listed[d.a].val)' <=> FreshEdit(d.a, listed[d.a].val)) /\ (FreshEdit(d.a, d.val)' <=> FreshEdit(d.a, d.val))
      BY <1>2 DEF FreshEdit
    <3> QED BY <1>2, <2>2, <3>1, <3>3, <3>4
  <2>8. PushFresh(w)'
    BY <1>1, <2>2, <2>7 DEF PushFresh
  <2>9. PullFresh(w)'
    BY <1>1 DEF PullFresh, MalPulls
  <2> QED BY <2>6, <2>8, <2>9 DEF BackedBy
<1> QED BY <1>1, <1>2, <1>3, HandStep

LEMMA ListBacked ==
  ASSUME MalInv, MalInv', MalBase, Backed, NEW g \in MalWorkers, List(g)
  PROVE  Backed'
<1>1. PICK w \in MalRun : /\ mal' = [mal EXCEPT ![g] = w] /\ w.pc = "entries" /\ w.marks = {}
                          /\ w.todo = {ListedOf(i) : i \in {j \in Shows : site[j].in}}
  BY ListIs
<1>2. SameAll /\ lost' = lost /\ malMu = "free" /\ oneId' = oneId
  BY ListIs DEF SameAll
<1>3. ASSUME ~lost, ~oneId PROVE BackedBy(w)
  <2>1. BackedBy(Idle) /\ Idle.pc = "idle"
    BY <1>2, <1>3, InHandBacked, IdleIs
  <2>2. \A a \in Shows : RowBacked(w, a) /\ ScoreBacked(w, a)
    BY <1>1, <2>1 DEF BackedBy, RowBacked, ScoreBacked, MarksRow, MarksShow, SentRow, MalPulls
  <2>3. \A i \in Shows : site[i].in => Id(Speaker(i)) = i
    BY SpeakerOf DEF MalInv, SiteKnown
  <2>4. \A x, y \in w.todo : x.a = y.a => x = y
    BY <1>1, <2>3 DEF ListedOf
  <2>5. PushFresh(w) /\ PullFresh(w)
    BY <1>1, <2>4 DEF PushFresh, PullFresh, MalPulls
  <2> QED BY <2>2, <2>5 DEF BackedBy
<1> QED BY <1>1, <1>2, <1>3, SameBacked, HandStep

\* A pull that goes on with the same marks backs the same rows.
LEMMA SameMarks ==
  ASSUME NEW w, NEW r, w.pc \in MalPulls, r.pc \in MalPulls, r.marks = w.marks, BackedBy(w)
  PROVE  (\A a \in Shows : RowBacked(r, a) /\ ScoreBacked(r, a)) /\ PushFresh(r)
<1>1. w.pc # "mark" /\ r.pc # "mark" /\ r.pc \notin {"push", "mark"}
  BY DEF MalPulls
<1>2. \A a \in Shows : RowBacked(r, a) /\ ScoreBacked(r, a)
  BY <1>1 DEF BackedBy, RowBacked, ScoreBacked, MarksRow, MarksShow, SentRow
<1> QED BY <1>1, <1>2 DEF PushFresh

LEMMA LookBacked ==
  ASSUME MalInv, MalInv', MalBase, Backed, NEW g \in MalWorkers, NEW x \in mal[g].todo, Pushed(g, x) \/ ReadRow(g, x)
  PROVE  Backed'
<1>1. CASE Pushed(g, x)
  <2>1. PICK w \in MalRun : /\ mal' = [mal EXCEPT ![g] = w] /\ w.pc = "row" /\ w.todo = mal[g].todo /\ w.marks = mal[g].marks
                            /\ w.at = x.a /\ w.last = told[x.a]
    BY <1>1, PushedIs
  <2>2. mal[g].pc = "entries" /\ malMu = g /\ SameAll /\ lost' = lost /\ oneId' = oneId
    BY <1>1, PushedIs DEF SameAll
  <2>3. ASSUME ~lost, ~oneId PROVE BackedBy(w)
    <3>1. BackedBy(mal[g]) /\ mal[g].pc \in MalPulls /\ w.pc \in MalPulls
      BY <2>1, <2>2, <2>3, InHandBacked DEF MalPulls
    <3>2. PullFresh(w)
      BY <2>1, <3>1 DEF BackedBy, PullFresh
    <3> QED BY <2>1, <3>1, <3>2, SameMarks DEF BackedBy
  <2> QED BY <2>1, <2>2, <2>3, SameBacked, HandStep
<1>2. CASE ReadRow(g, x)
  <2>1. PICK w \in MalRun : /\ mal' = [mal EXCEPT ![g] = w] /\ w.pc = "apply" /\ w.todo = mal[g].todo /\ w.marks = mal[g].marks
                            /\ w.at = x.a /\ w.last = mal[g].last /\ w.read = listed[x.a]
    BY <1>2, ReadRowIs
  <2>2. mal[g].pc = "row" /\ malMu = g /\ x.a \in Shows /\ x.a = mal[g].at /\ SameAll /\ lost' = lost /\ oneId' = oneId
    BY <1>2, ReadRowIs DEF SameAll
  <2>3. ASSUME ~lost, ~oneId PROVE BackedBy(w)
    <3>1. BackedBy(mal[g]) /\ mal[g].pc \in MalPulls /\ w.pc \in MalPulls
      BY <2>1, <2>2, <2>3, InHandBacked DEF MalPulls
    <3>2. ~MarksShow(mal[g], x.a) /\ ~MarksRow(mal[g], x.a) /\ ~SentRow(mal[g], x.a)
      BY <2>2, <3>1 DEF BackedBy, PullFresh, MarksShow, MarksRow, SentRow
    <3>3. ASSUME ~w.last.seen, w.read.in PROVE x.a \in rated \/ (w.read.score = 0 /\ FreshEdit(x.a, w.read.val))
      <4>1. ~told[x.a].seen
        BY <2>1, <2>2, <3>1, <3>3 DEF BackedBy, PullFresh
      <4>2. RowBacked(mal[g], x.a) /\ ScoreBacked(mal[g], x.a)
        BY <2>2, <3>1 DEF BackedBy
      <4> QED BY <2>1, <3>2, <3>3, <4>1, <4>2 DEF RowBacked, ScoreBacked, ToldRow
    <3>4. PullFresh(w)
      BY <2>1, <2>2, <3>1, <3>3 DEF BackedBy, PullFresh
    <3> QED BY <2>1, <3>1, <3>4, SameMarks DEF BackedBy
  <2> QED BY <2>1, <2>2, <2>3, SameBacked, HandStep
<1> QED BY <1>1, <1>2

LEMMA ApplyBacked ==
  ASSUME MalInv, MalInv', MalBase, Backed, NEW g \in MalWorkers, NEW x \in mal[g].todo, Apply(g, x)
  PROVE  Backed'
<1>0. PICK w, m, row, was, read : w = AppliedRun(g, x) /\ m = MarkOf(g, x) /\ row = Written(g, x) /\ was = mal[g].last /\ read = mal[g].read
  OBVIOUS
<1>1. /\ mal[g].pc = "apply" /\ x.a = mal[g].at /\ x.a \in Shows /\ x \in MalListed /\ read \in MalRow
      /\ listed' = IF Writes(g, x) THEN [listed EXCEPT ![x.a] = row] ELSE listed
      /\ mal' = [mal EXCEPT ![g] = w]
      /\ w.pc = "entries" /\ w.todo = mal[g].todo \ {x} /\ w.marks = IF Marks(g, x) THEN mal[g].marks \cup {m} ELSE mal[g].marks
  BY <1>0, ApplyIs
<1>2. /\ oneId' = oneId /\ told' = told /\ count' = count /\ held' = held /\ rated' = rated /\ lost' = lost
  BY DEF Apply, hist
<1>3. malMu = g
  BY <1>1, MalFacts DEF MalHolds
<1>4. /\ m.a = x.a /\ m.val = x.e.val /\ m.score = OurScore(was, x.e)
      /\ row.val = Applied(g, x).val /\ row.score = Applied(g, x).score /\ row.in
  BY <1>0, <1>1 DEF MarkOf, Written
<1>5. Writes(g, x) => Marks(g, x)
  BY DEF Writes, Marks, Moved, Applied, PulledEntry
<1>6. /\ \A b \in Shows : b # x.a \/ ~Writes(g, x) => listed'[b] = listed[b]
      /\ Writes(g, x) => listed'[x.a] = row
  BY <1>1, MalFacts
<1>7. ASSUME ~lost, ~oneId PROVE BackedBy(w)'
  <2>1. BackedBy(mal[g])
    BY <1>3, <1>7, InHandBacked
  <2>2. /\ \A y, z \in mal[g].todo : y.a = z.a => y = z
        /\ \A y \in mal[g].todo : \A n \in mal[g].marks : n.a # y.a
        /\ \A n, o \in mal[g].marks : n.a = o.a => n = o
        /\ ~was.seen => ~told[x.a].seen
        /\ ~was.seen /\ read.in => x.a \in rated \/ (read.score = 0 /\ FreshEdit(x.a, read.val))
    BY <1>0, <1>1, <2>1 DEF BackedBy, PullFresh, MalPulls
  <2>3. \A a, v : FreshEdit(a, v)' <=> FreshEdit(a, v)
    BY <1>2 DEF FreshEdit
  <2>4. \A a \in Shows : RowBacked(mal[g], a) /\ ScoreBacked(mal[g], a) /\ ~SentRow(mal[g], a)
    BY <1>1, <2>1 DEF BackedBy, SentRow
  <2>5. w.pc \in MalPulls /\ mal[g].pc \in MalPulls
    BY <1>1 DEF MalPulls
  <2>6. ASSUME NEW a \in Shows, a # x.a PROVE RowBacked(w, a)' /\ ScoreBacked(w, a)'
    <3>1. listed'[a] = listed[a] /\ told'[a] = told[a]
      BY <1>2, <1>6, <2>6
    <3>2. (MarksShow(w, a)' <=> MarksShow(mal[g], a)) /\ (MarksRow(w, a)' <=> MarksRow(mal[g], a))
      BY <1>1, <1>4, <2>5, <2>6, <3>1 DEF MarksShow, MarksRow
    <3>3. (ToldRow(a)' <=> ToldRow(a)) /\ (FreshEdit(a, listed[a].val)' <=> FreshEdit(a, listed[a].val))
      BY <1>2, <3>1 DEF ToldRow, FreshEdit
    <3> QED BY <1>2, <2>4, <3>1, <3>2, <3>3 DEF RowBacked, ScoreBacked
  <2>7. RowBacked(w, x.a)' /\ ScoreBacked(w, x.a)'
    <3>1. ~MarksShow(mal[g], x.a) /\ ~MarksRow(mal[g], x.a)
      BY <2>2 DEF MarksShow, MarksRow
    <3>2. RowBacked(mal[g], x.a) /\ ScoreBacked(mal[g], x.a) /\ ~SentRow(mal[g], x.a)
      BY <1>1, <2>4
    <3>3. CASE Writes(g, x)
      <4>1. MarksShow(w, x.a)' /\ m \in w.marks /\ listed'[x.a] = row
        BY <1>1, <1>4, <1>5, <1>6, <2>5, <3>3 DEF MarksShow
      <4>2. Says(m, row.val, row.score) \/ x.a \in rated \/ FreshEdit(x.a, row.val)
        <5>1. Applied(g, x) = PulledEntry(was, read, x.e) /\ Applied(g, x).do = "write"
          BY <1>0, <3>3 DEF Applied, Writes
        <5>2. CASE was.seen \/ ~read.in
          BY <1>4, <5>1, <5>2 DEF PulledEntry, Says
        <5>3. CASE ~was.seen /\ read.in
          <6>1. row.val \in {x.e.val, read.val} /\ row.score = IF read.score = 0 THEN OurScore(was, x.e) ELSE read.score
            BY <1>4, <5>1, <5>3 DEF PulledEntry, Merge
          <6> QED BY <1>4, <2>2, <5>3, <6>1 DEF Says
        <5> QED BY <5>2, <5>3
      <4>3. FreshEdit(x.a, row.val) => FreshEdit(x.a, listed[x.a].val)'
        BY <1>2, <4>1 DEF FreshEdit
      <4>4. Says(m, row.val, row.score) => MarksRow(w, x.a)'
        BY <1>4, <2>5, <4>1 DEF MarksRow
      <4> QED BY <1>2, <4>1, <4>2, <4>3, <4>4 DEF RowBacked, ScoreBacked
    <3>4. CASE ~Writes(g, x)
      <4>1. listed' = listed
        BY <1>1, <3>4
      <4>2. (ToldRow(x.a)' <=> ToldRow(x.a)) /\ (FreshEdit(x.a, listed[x.a].val)' <=> FreshEdit(x.a, listed[x.a].val))
        BY <1>2, <4>1 DEF ToldRow, FreshEdit
      <4>3. CASE Marks(g, x)
        <5>1. ~was.seen
          <6>1. Applied(g, x) = PulledEntry(was, read, x.e) /\ Applied(g, x).do \notin {"write", "keep"} /\ Moved(was, x)
            BY <1>0, <3>4, <4>3 DEF Applied, Marks
          <6> QED BY <6>1 DEF PulledEntry, Moved
        <5>2. ~ToldRow(x.a) /\ MarksShow(w, x.a)'
          BY <1>1, <1>4, <2>2, <2>5, <4>3, <5>1 DEF ToldRow, MarksShow
        <5> QED BY <1>2, <3>1, <3>2, <4>1, <4>2, <5>2 DEF RowBacked, ScoreBacked
      <4>4. CASE ~Marks(g, x)
        <5>1. ~MarksShow(w, x.a)'
          BY <1>1, <2>2, <4>4 DEF MarksShow
        <5> QED BY <1>2, <3>1, <3>2, <4>1, <4>2, <5>1 DEF RowBacked, ScoreBacked
      <4> QED BY <4>3, <4>4
    <3> QED BY <3>3, <3>4
  <2>8. PushFresh(w)'
    BY <1>1 DEF PushFresh
  <2>9. PullFresh(w)'
    <3>1. \A y \in w.todo : y \in mal[g].todo /\ y.a # x.a
      BY <1>1, <2>2
    <3>2. \A n \in w.marks : n \in mal[g].marks \/ n = m
      BY <1>1
    <3>3. \A n \in mal[g].marks : n.a # x.a
      BY <2>2
    <3>4. \A y \in w.todo : \A n \in w.marks : n.a # y.a
      BY <1>4, <2>2, <3>1, <3>2
    <3>5. \A n, o \in w.marks : n.a = o.a => n = o
      BY <1>4, <2>2, <3>2, <3>3
    <3> QED BY <1>1, <2>2, <3>1, <3>4, <3>5 DEF PullFresh
  <2> QED BY <2>6, <2>7, <2>8, <2>9 DEF BackedBy
<1> QED BY <1>1, <1>2, <1>3, <1>7, HandStep

LEMMA SeedBacked ==
  ASSUME MalInv, MalInv', MalBase, Backed, NEW g \in MalWorkers, SeedPushed(g)
  PROVE  Backed'
<1>1. PICK w \in MalRun : mal' = [mal EXCEPT ![g] = w] /\ w.pc \in {"idle", "rest"}
  BY SeedIs
<1>2. /\ mal[g].pc = "entries" /\ malMu = g
      /\ oneId' = oneId /\ listed' = listed /\ count' = count /\ held' = held /\ rated' = rated /\ lost' = lost
  BY SeedIs
<1>3. ASSUME ~lost, ~oneId PROVE BackedBy(w)'
  <2>1. BackedBy(mal[g]) /\ mal[g].pc \in MalPulls
    BY <1>2, <1>3, InHandBacked DEF MalPulls
  <2>2. \A m, n \in mal[g].marks : m.a = n.a => m = n
    BY <2>1 DEF BackedBy, PullFresh
  <2>3. ASSUME NEW a \in Shows PROVE RowBacked(w, a)' /\ ScoreBacked(w, a)'
    <3>1. RowBacked(mal[g], a) /\ ScoreBacked(mal[g], a) /\ ~SentRow(mal[g], a)
      BY <1>2, <2>1 DEF BackedBy, SentRow
    <3>2. ~MarksShow(w, a)' /\ (FreshEdit(a, listed[a].val)' <=> FreshEdit(a, listed[a].val))
      BY <1>1, <1>2 DEF MarksShow, MalPulls, FreshEdit
    <3>3. CASE MarksShow(mal[g], a)
      <4>1. PICK m \in mal[g].marks : m.a = a /\ told'[a] = [seen |-> TRUE, val |-> m.val, score |-> m.score]
        BY <3>3, SeedIs DEF MarksShow
      <4>2. told'[a].seen /\ told'[a].val = m.val /\ told'[a].score = m.score
        BY <4>1
      <4>3. MarksRow(mal[g], a) => ToldRow(a)'
        <5>1. MarksRow(mal[g], a) => Says(m, listed[a].val, listed[a].score)
          BY <2>2, <4>1 DEF MarksRow
        <5> QED BY <1>2, <4>2, <5>1 DEF ToldRow, Says
      <4> QED BY <1>2, <3>1, <3>2, <3>3, <4>2, <4>3 DEF RowBacked, ScoreBacked
    <3>4. CASE ~MarksShow(mal[g], a)
      <4>1. told'[a] = told[a] /\ ~MarksRow(mal[g], a)
        BY <2>1, <3>4, SeedIs DEF MarksShow, MarksRow
      <4>2. ToldRow(a)' <=> ToldRow(a)
        BY <1>2, <4>1 DEF ToldRow
      <4> QED BY <1>2, <3>1, <3>2, <3>4, <4>1, <4>2 DEF RowBacked, ScoreBacked
    <3> QED BY <3>3, <3>4
  <2>4. PushFresh(w)' /\ PullFresh(w)'
    BY <1>1 DEF PushFresh, PullFresh, MalPulls
  <2> QED BY <2>3, <2>4 DEF BackedBy
<1> QED BY <1>1, <1>2, <1>3, HandStep

LEMMA BackedInit == MalInit => Backed
<1> SUFFICES ASSUME MalInit, NEW w PROVE BackedBy(w) \/ ~InHand(w)
  BY DEF Backed
<1>1. InHand(w) => w.pc = "idle"
  BY IdleIs DEF MalInit, InHand
<1>2. \A a \in Shows : ~listed[a].in
  BY DEF MalInit, NoListing
<1> QED BY <1>1, <1>2 DEF BackedBy, RowBacked, ScoreBacked, PushFresh, PullFresh, MalPulls

LEMMA BackedNext == MalInv /\ MalInv' /\ MalBase /\ Backed /\ [MalNext]_malVars => Backed'
<1> SUFFICES ASSUME MalInv, MalInv', MalBase, Backed, [MalNext]_malVars PROVE Backed'
  OBVIOUS
<1>1. CASE UNCHANGED malVars
  <2>1. SameAll /\ mal' = mal /\ malMu' = malMu /\ lost' = lost
    BY <1>1 DEF malVars, SameAll, hist
  <2>2. "job" \in MalWorkers /\ mal' = [mal EXCEPT !["job"] = mal["job"]]
    BY <2>1 DEF MalInv, MalShape, MalWorkers
  <2>3. BesideRun /\ oneId' = oneId
    BY <2>1, BaseFacts, RowsBeside DEF SameAll
  <2> QED BY <2>1, <2>2, <2>3, BesideRunKeeps
<1>2. CASE MalNext
  <2>1. ASSUME NEW a \in InPlay, AniListMerge(a) \/ \E s \in MalScores : EditShow(a, s) PROVE Backed'
    <3>1. a \in Shows
      BY DEF InPlay, Shows
    <3> QED BY <2>1, <3>1, MergeBacked, EditBacked
  <2>2. ASSUME NEW s \in {0, 8}, OnSite(1, s) PROVE Backed'
    BY <2>2, OnSiteBacked
  <2>3. CASE SwitchAccount \/ \E g \in MalWorkers : PullBreaks(g)
    BY <2>3 DEF SwitchAccount, PullBreaks, Backed
  <2>4. CASE BeginSteps \/ DeleteOnSite \/ RemoveListEntry
    BY <2>4, BeginBacked, DeleteBacked, RemoveBacked
  <2>5. ASSUME NEW g \in MalWorkers, EndSteps(g) \/ Run(g) \/ PushOne(g) \/ MarkPushed(g) \/ List(g) \/ SeedPushed(g) PROVE Backed'
    BY <2>3, <2>5, BeginBacked, RunEndsBacked, RunBacked, MarkBacked, ListBacked, SeedBacked DEF EndSteps
  <2>6. ASSUME NEW g \in MalWorkers, NEW e \in mal[g].todo,
               SetProgress(g, e) \/ SetProgressFails(g, e) \/ Pushed(g, e) \/ ReadRow(g, e) \/ Apply(g, e) PROVE Backed'
    BY <2>6, SetBacked, SetFailsBacked, LookBacked, ApplyBacked
  <2> QED BY <1>2, <2>1, <2>2, <2>3, <2>4, <2>5, <2>6, MalCases
<1> QED BY <1>1, <1>2

\* What the site says changes by an edit there, which is new, or by a push of an edit it has not held.
LEMMA PushesNew ==
  ASSUME MalInv, MalBase, Backed, [MalNext]_malVars, NEW i \in Shows, ~lost', ~oneId, i \notin rated, site'[i].in, site'[i].val # site[i].val
  PROVE  site'[i].val \notin held[i]
<1>1. MalNext /\ site' # site
  BY DEF malVars
<1>2. ASSUME NEW a \in InPlay, AniListMerge(a) \/ \E s \in MalScores : EditShow(a, s) PROVE FALSE
  BY <1>1, <1>2 DEF AniListMerge, EditShow
<1>3. ASSUME NEW s \in {0, 8}, OnSite(1, s) PROVE site'[i].val \notin held[i]
  <2> DEFINE v == IF s = site[1].score THEN count + 1 ELSE site[1].val
             row == [in |-> TRUE, val |-> v, score |-> s, at |-> count + 1]
  <2>1. site' = [site EXCEPT ![1] = row] /\ row.val = v
    BY <1>3 DEF OnSite
  <2> HIDE DEF row
  <2>2. i = 1 /\ site'[i].val = v
    BY <2>1, MalFacts
  <2>3. v = count + 1
    BY <2>2
  <2>4. count + 1 \notin held[i]
    BY BaseFacts
  <2> QED BY <2>2, <2>3, <2>4
<1>4. CASE SwitchAccount \/ BeginSteps \/ RemoveListEntry
  BY <1>1, <1>4 DEF SwitchAccount, BeginSteps, StartJob, AskSync, TakeOff, JobRests, DeleteFails, RemoveListEntry
<1>5. CASE DeleteOnSite
  <2>1. site' = [site EXCEPT ![Id(mal["request"].at)] = NoSite]
    BY <1>5 DEF DeleteOnSite
  <2>2. site'[i] = site[i] \/ ~site'[i].in
    BY <2>1, MalFacts DEF NoSite
  <2> QED BY <2>2
<1>6. ASSUME NEW g \in MalWorkers, EndSteps(g) \/ Run(g) \/ PushOne(g) \/ MarkPushed(g) \/ List(g) \/ SeedPushed(g) PROVE FALSE
  BY <1>1, <1>6 DEF EndSteps, RunEnds, ListFails, PullBreaks, Run, PushOne, MarkPushed, List, SeedPushed
<1>7. ASSUME NEW g \in MalWorkers, NEW e \in mal[g].todo, SetProgressFails(g, e) \/ Pushed(g, e) \/ ReadRow(g, e) \/ Apply(g, e) PROVE FALSE
  BY <1>1, <1>7 DEF SetProgressFails, Pushed, ReadRow, Apply
<1>8. ASSUME NEW g \in MalWorkers, NEW e \in mal[g].todo, SetProgress(g, e) PROVE site'[i].val \notin held[i]
  <2>1. mal[g].pc = "push" /\ malMu = g /\ Received(e) /\ e \in MalSnap /\ lost' = lost
    BY <1>8, SetIs
  <2>2. Id(e.a) = e.a /\ e.a \in Shows
    BY <2>1 DEF Id, MalSnap
  <2>3. e.a = i /\ site'[i].val = e.val
    <3>1. site'[e.a] = Taken(e) /\ Taken(e).val = e.val /\ \A j \in Shows \ {e.a} : site'[j] = site[j]
      BY <2>1, <2>2, ReceivedIs DEF Taken
    <3> QED BY <3>1
  <2>4. BackedBy(mal[g])
    BY <2>1, InHandBacked
  <2>5. e.a \in rated \/ FreshEdit(e.a, e.val)
    BY <2>1, <2>4 DEF BackedBy, PushFresh
  <2> QED BY <2>3, <2>5 DEF FreshEdit
<1> QED BY <1>1, <1>2, <1>3, <1>4, <1>5, <1>6, <1>7, <1>8, MalCases

\* MyAnimeList: a pull spares what the site has not held, and a push never takes the site back.
THEOREM MalStaysKept == MalSpec => MalKeeps
<1>1. MalInit => MalInv /\ MalBase /\ Backed
  BY MalInitInv, BaseInit, BackedInit
<1>2. MalInv /\ MalBase /\ Backed /\ [MalNext]_malVars => (MalInv /\ MalBase /\ Backed)'
  BY MalNextInv, BaseNext, BackedNext
<1>3. MalInv /\ MalBase /\ [MalNext]_malVars =>
        [\A g \in MalWorkers : mal[g].pc = "apply" /\ mal'[g].pc = "entries" =>
           \A a \in Shows : listed[a].in /\ told[a].seen =>
             /\ listed'[a].val # listed[a].val /\ listed[a].val \in here => listed[a].val \in held[Id(a)]
             /\ listed'[a].score # listed[a].score => MALScore(listed'[a].score) # MALScore(listed[a].score)]_malVars
  BY PullSpares
<1>4. MalInv /\ MalBase /\ Backed /\ [MalNext]_malVars =>
        [\A i \in Shows : /\ ~lost' /\ ~oneId /\ i \notin rated
                          /\ site'[i].in /\ site'[i].val # site[i].val
                          => site'[i].val \notin held[i]]_malVars
  BY PushesNew
<1>5. MalSpec => [](MalInv /\ MalBase /\ Backed)
  BY <1>1, <1>2, PTL DEF MalSpec
<1>6. MalSpec => PullSparesEdits
  BY <1>3, <1>5, PTL DEF MalSpec, PullSparesEdits
<1>7. MalSpec => NoRollback
  BY <1>4, <1>5, PTL DEF MalSpec, NoRollback
<1> QED BY <1>6, <1>7, PTL DEF MalKeeps
=============================================================================
