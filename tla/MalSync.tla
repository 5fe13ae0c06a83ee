------------------------------- MODULE MalSync -------------------------------
(* MyAnimeList kept in step with the list (library/mal.go, mal/list.go, mal/mal.go,
   store/tracker.go, ApplyRemote and RemoveListEntry of store/sync.go, server/mal.go): the
   mal-sync job pushes what the site was not told and then pulls, a request pushes what it
   edited or takes a show off, an account comes and goes.  Two shows may share one id there.
   What an entry says is the edit it stems from, counted over all sides, and its score: 0-100
   here, whole points there.  local_updated_at and the site's updated_at are that count too. *)
EXTENDS Integers, FiniteSets

CONSTANTS MalEdits,   \* bound on edits, here, on the site and from AniList
          MalAsks,    \* bound on runs, removals, imports and account changes
          MalFaults   \* bound on refused, lost and interrupted calls

Shows == {1, 2}
MalScores == {0, 84}
MalWorkers == {"job", "request"}
VARIABLES oneId,     \* both shows have the same mal_id
          listed,    \* a |-> the row of list_entry: in, val, score, changed
          told,      \* a |-> the row of tracker_push: seen, val, score
          site,      \* external: id |-> in, val, score, at
          mal,       \* g |-> what the goroutine does: pc, todo, at, marks, then
          malMu,     \* MALSync.mu
          count, asks, misses,
          here,      \* history: edits made here
          held,      \* history: id |-> what the site ever said
          lost,      \* history: an answer was lost, a pull broken off or an account changed
          rated,     \* history: shows whose score alone was edited, not told yet
          gone,      \* history: shows taken off here and there, not edited since
          calm       \* history: since the job began nothing but the job happened
malVars == <<oneId, listed, told, site, mal, malMu, count, asks, misses, here, held, lost, rated, gone, calm>>
hist == <<here, held, lost, rated, gone>>

Id(a) == IF oneId THEN 1 ELSE a
InPlay == IF oneId THEN Shows ELSE {1}   \* two shows with one id, or one with its own
NoListing == [in |-> FALSE, val |-> 0, score |-> 0, changed |-> 0]
NotTold == [seen |-> FALSE, val |-> 0, score |-> 0]
NoSite == [in |-> FALSE, val |-> 0, score |-> 0, at |-> 0]
Idle == [pc |-> "idle", todo |-> {}, at |-> 0, last |-> NotTold, read |-> NoListing, marks |-> {}, then |-> "none"]
MalInit ==
  /\ oneId \in BOOLEAN
  /\ listed = [a \in Shows |-> NoListing] /\ told = [a \in Shows |-> NotTold]
  /\ site = [i \in Shows |-> NoSite] /\ mal = [g \in MalWorkers |-> Idle] /\ malMu = "free"
  /\ count = 0 /\ asks = 0 /\ misses = 0
  /\ here = {} /\ held = [i \in Shows |-> {}] /\ lost = FALSE /\ rated = {} /\ gone = {} /\ calm = FALSE

(* MALScore. *)
MALScore(s) == IF s <= 0 THEN 0 ELSE IF (s + 5) \div 10 > 10 THEN 10 ELSE (s + 5) \div 10
(* sharesMALID, speaksForMAL: of the listed shows with this id the one edited last, the lower
   id when even; none listed, the lowest. *)
EditedLater(a, b) == listed[a].changed > listed[b].changed \/ (listed[a].changed = listed[b].changed /\ a < b)
Speaker(i) ==
  LET all == {a \in Shows : Id(a) = i}
      on == {a \in all : listed[a].in}
      from == IF on = {} THEN all ELSE on
  IN CHOOSE a \in from : \A b \in from \ {a} : IF on = {} THEN a < b ELSE EditedLater(a, b)
Says(t, val, score) == t.val = val /\ t.score = score   \* agrees
(* pendingMAL. *)
Pending == {a \in Shows : /\ listed[a].in /\ Speaker(Id(a)) = a
                          /\ ~told[a].seen \/ ~Says(told[a], listed[a].val, listed[a].score)}
Become(g, p) == mal' = [mal EXCEPT ![g] = p]
Ask == asks < MalAsks /\ asks' = asks + 1
Counted == count < MalEdits /\ count' = count + 1
Miss == misses < MalFaults /\ misses' = misses + 1
(* The goroutine gives the lock back; the job goes on to what comes next. *)
LetGo(g, next) == malMu' = "free" /\ Become(g, [Idle EXCEPT !.pc = next])
-----------------------------------------------------------------------------
(* Edits here and the PushOne that follows: a new value, or a score alone. *)
Bump(a, now) == IF listed[a].changed + 1 > now THEN listed[a].changed + 1 ELSE now
EditShow(a, s) ==
  LET valued == s = listed[a].score IN
  /\ mal["request"].pc = "idle" /\ Counted
  /\ listed' = [listed EXCEPT ![a] = [in |-> TRUE, score |-> s, changed |-> Bump(a, count + 1),
                                      val |-> IF valued THEN count + 1 ELSE @.val]]
  /\ here' = IF valued THEN here \cup {count + 1} ELSE here
  /\ rated' = IF valued THEN rated ELSE rated \cup {a}
  /\ gone' = gone \ {a} /\ calm' = FALSE
  /\ Become("request", [Idle EXCEPT !.pc = "one", !.at = a])
  /\ UNCHANGED <<oneId, told, site, malMu, asks, misses, held, lost>>
(* External: the list fetched from AniList is merged; local_updated_at stays. *)
AniListMerge(a) ==
  /\ listed[a].in /\ Counted
  /\ listed' = [listed EXCEPT ![a].val = count + 1] /\ calm' = FALSE
  /\ UNCHANGED <<oneId, told, site, mal, malMu, asks, misses, hist>>
(* External: the user edits the entry on the site, or adds it. *)
OnSite(i, s) ==
  /\ Counted
  /\ LET v == IF s = site[i].score THEN count + 1 ELSE site[i].val
     IN site' = [site EXCEPT ![i] = [in |-> TRUE, val |-> v, score |-> s, at |-> count + 1]]
        /\ held' = [held EXCEPT ![i] = @ \cup {v}]
  /\ gone' = {a \in gone : Id(a) # i} /\ calm' = FALSE
  /\ UNCHANGED <<oneId, listed, told, mal, malMu, asks, misses, here, lost, rated>>
(* malLogout and a login with another account: ForgetPushed, another list on the site. *)
SwitchAccount ==
  /\ malMu = "free" /\ Ask
  /\ told' = [a \in Shows |-> NotTold] /\ site' = [i \in Shows |-> NoSite]
  /\ held' = [i \in Shows |-> {}] /\ lost' = TRUE /\ calm' = FALSE /\ gone' = {}
  /\ UNCHANGED <<oneId, listed, mal, malMu, count, misses, here, rated>>
-----------------------------------------------------------------------------
(* The job: Run, then Pull.  malPush, malImport and the login's import ask for one of them. *)
StartJob ==
  /\ mal["job"].pc = "idle" /\ Ask /\ calm' = (mal["request"].pc = "idle")
  /\ Become("job", [Idle EXCEPT !.pc = "run", !.then = "pull"])
  /\ UNCHANGED <<oneId, listed, told, site, malMu, count, misses, hist>>
AskSync(what) ==
  /\ mal["request"].pc = "idle" /\ Ask /\ calm' = FALSE
  /\ Become("request", [Idle EXCEPT !.pc = what])
  /\ UNCHANGED <<oneId, listed, told, site, malMu, count, misses, hist>>
Snap(a) == [a |-> a, val |-> listed[a].val, score |-> listed[a].score,
            clears |-> listed[a].score = 0 /\ told[a].score > 0]
(* Run: PendingMALPushes, read once under the lock. *)
Run(g) ==
  /\ mal[g].pc = "run" /\ malMu = "free"
  /\ malMu' = g /\ Become(g, [mal[g] EXCEPT !.pc = "push", !.todo = {Snap(a) : a \in Pending}])
  /\ UNCHANGED <<oneId, listed, told, site, count, asks, misses, hist, calm>>
(* PushOne: PendingMALPush. *)
PushOne(g) ==
  /\ mal[g].pc = "one" /\ malMu = "free"
  /\ malMu' = g /\ Become(g, [mal[g] EXCEPT !.pc = "push", !.todo = {Snap(a) : a \in Pending \cap {mal[g].at}}])
  /\ UNCHANGED <<oneId, listed, told, site, count, asks, misses, hist, calm>>
RunEnds(g) ==
  /\ mal[g].pc = "push" /\ mal[g].todo = {}
  /\ LetGo(g, IF mal[g].then = "pull" THEN "pull" ELSE "idle")
  /\ UNCHANGED <<oneId, listed, told, site, count, asks, misses, hist, calm>>
(* SetProgress as the site takes it: a score of nothing is sent only to clear one. *)
Received(e) ==
  LET i == Id(e.a) IN
  /\ site' = [site EXCEPT ![i] = [in |-> TRUE, val |-> e.val, at |-> count,
                                  score |-> IF MALScore(e.score) > 0 \/ e.clears THEN MALScore(e.score) ELSE @.score]]
  /\ held' = [held EXCEPT ![i] = @ \cup {e.val}]
SetProgress(g, e) ==
  /\ mal[g].pc = "push" /\ e \in mal[g].todo /\ Received(e)
  /\ Become(g, [mal[g] EXCEPT !.pc = "mark", !.read = e])
  /\ gone' = {a \in gone : Id(a) # Id(e.a)}
  /\ UNCHANGED <<oneId, listed, told, malMu, count, asks, misses, here, lost, rated, calm>>
MarkPushed(g) ==
  LET e == mal[g].read IN
  /\ mal[g].pc = "mark"
  /\ told' = [told EXCEPT ![e.a] = [seen |-> TRUE, val |-> e.val, score |-> e.score]]
  /\ rated' = IF Says(listed[e.a], e.val, e.score) THEN rated \ {e.a} ELSE rated
  /\ Become(g, [mal[g] EXCEPT !.pc = "push", !.todo = @ \ {e}, !.read = NoListing])
  /\ UNCHANGED <<oneId, listed, site, malMu, count, asks, misses, here, held, lost, gone, calm>>
(* The call fails: the site took it or not, it is sent again (do), given up (PushFailed), or the
   token is refused and the run ends. *)
SetProgressFails(g, e) ==
  /\ mal[g].pc = "push" /\ e \in mal[g].todo /\ Miss /\ calm' = FALSE
  /\ \/ Received(e) /\ lost' = TRUE /\ gone' = {a \in gone : Id(a) # Id(e.a)}
     \/ UNCHANGED <<site, held, lost, gone>>
  /\ \/ UNCHANGED <<mal, malMu>>
     \/ Become(g, [mal[g] EXCEPT !.todo = @ \ {e}]) /\ malMu' = malMu
     \/ LetGo(g, "idle")
  /\ UNCHANGED <<oneId, listed, told, count, asks, here, rated>>
-----------------------------------------------------------------------------
(* Pull: List, and AniListIDsForMAL for whose entry each is. *)
List(g) ==
  /\ mal[g].pc = "pull" /\ malMu = "free" /\ malMu' = g
  /\ Become(g, [mal[g] EXCEPT !.pc = "entries", !.todo = {[i |-> i, a |-> Speaker(i), e |-> site[i]] : i \in {j \in Shows : site[j].in}}])
  /\ UNCHANGED <<oneId, listed, told, site, count, asks, misses, hist, calm>>
(* The list does not come, or the token is refused. *)
ListFails(g) ==
  /\ mal[g].pc = "pull" /\ malMu = "free" /\ Miss /\ Become(g, Idle) /\ calm' = FALSE
  /\ UNCHANGED <<oneId, listed, told, site, malMu, count, asks, hist>>
(* Variant for mutation: the site's points, whatever it was told. *)
OurScoreRounded(was, e) == e.score * 10
(* The site's entry in our units: unchanged in its own, our finer score is kept. *)
OurScore(was, e) == IF was.seen /\ MALScore(was.score) = e.score THEN was.score ELSE e.score * 10
(* pulled: "none" nothing to do, "keep" a local edit wins, else the values to write. *)
Merge(row, score, e) ==
  [val |-> IF e.at > row.changed THEN e.val ELSE row.val, score |-> IF row.score = 0 THEN score ELSE row.score]
PulledEntry(was, row, e) ==
  LET s == OurScore(was, e)
      m == Merge(row, s, e)
  IN IF was.seen /\ Says(was, e.val, s) THEN [do |-> "none", val |-> e.val, score |-> s]
     ELSE IF ~row.in THEN [do |-> "write", val |-> e.val, score |-> s]
     ELSE IF was.seen /\ ~Says(was, row.val, row.score) THEN [do |-> "keep", val |-> 0, score |-> 0]
     ELSE IF was.seen THEN [do |-> "write", val |-> e.val, score |-> s]
     ELSE [do |-> IF Says(m, row.val, row.score) THEN "none" ELSE "write", val |-> m.val, score |-> m.score]
(* Pushed: what the site was told last ... *)
Pushed(g, x) ==
  /\ mal[g].pc = "entries" /\ x \in mal[g].todo
  /\ Become(g, [mal[g] EXCEPT !.pc = "row", !.at = x.a, !.last = told[x.a]])
  /\ UNCHANGED <<oneId, listed, told, site, malMu, count, asks, misses, hist, calm>>
(* ... and ListEntry: the row as it is now. *)
ReadRow(g, x) ==
  /\ mal[g].pc = "row" /\ x \in mal[g].todo /\ x.a = mal[g].at
  /\ Become(g, [mal[g] EXCEPT !.pc = "apply", !.read = listed[x.a]])
  /\ UNCHANGED <<oneId, listed, told, site, malMu, count, asks, misses, hist, calm>>
(* ApplyRemote: not over a row edited since it was read; then the mark, if the site moved. *)
Apply(g, x) ==
  LET a == mal[g].at
      was == mal[g].last
      p == PulledEntry(was, mal[g].read, x.e)
      new == ~(was.seen /\ Says(was, x.e.val, OurScore(was, x.e)))
      done == [mal[g] EXCEPT !.pc = "entries", !.todo = @ \ {x}]
      marked == IF new THEN [done EXCEPT !.marks = @ \cup {[a |-> a, val |-> x.e.val, score |-> OurScore(was, x.e)]}] ELSE done
      writes == p.do = "write" /\ (~listed[a].in \/ listed[a].changed <= mal[g].read.changed)
  IN
  /\ mal[g].pc = "apply" /\ x \in mal[g].todo /\ x.a = a
  /\ listed' = IF writes
               THEN [listed EXCEPT ![a] = [in |-> TRUE, val |-> p.val, score |-> p.score,
                                           changed |-> IF @.in THEN Bump(a, count) ELSE count]]
               ELSE listed
  /\ Become(g, IF p.do = "keep" \/ (p.do = "write" /\ ~writes) THEN done ELSE marked)
  /\ UNCHANGED <<oneId, told, site, malMu, count, asks, misses, hist, calm>>
(* SeedPushed. *)
SeedPushed(g) ==
  /\ mal[g].pc = "entries" /\ mal[g].todo = {}
  /\ told' = [a \in Shows |-> IF \E m \in mal[g].marks : m.a = a
                              THEN LET m == CHOOSE n \in mal[g].marks : n.a = a IN [seen |-> TRUE, val |-> m.val, score |-> m.score]
                              ELSE told[a]]
  /\ LetGo(g, IF g = "job" /\ calm THEN "rest" ELSE "idle")
  /\ UNCHANGED <<oneId, listed, site, count, asks, misses, hist, calm>>
(* A pull that ends half way: the store fails, the request is gone, the program stops. *)
PullBreaks(g) ==
  /\ mal[g].pc \in {"entries", "row", "apply"} /\ Miss /\ LetGo(g, "idle") /\ lost' = TRUE /\ calm' = FALSE
  /\ UNCHANGED <<oneId, listed, told, site, count, asks, here, held, rated, gone>>
JobRests == /\ mal["job"].pc = "rest" /\ Become("job", Idle)
            /\ UNCHANGED <<oneId, listed, told, site, malMu, count, asks, misses, hist, calm>>
-----------------------------------------------------------------------------
(* Remove: MalID and DeleteEntry under the lock, then RemoveListEntry without it. *)
TakeOff(a) ==
  /\ mal["request"].pc = "idle" /\ Ask /\ calm' = FALSE
  /\ Become("request", [Idle EXCEPT !.pc = "remove", !.at = a])
  /\ UNCHANGED <<oneId, listed, told, site, malMu, count, misses, hist>>
DeleteOnSite ==
  LET i == Id(mal["request"].at) IN
  /\ mal["request"].pc = "remove" /\ malMu = "free"
  /\ site' = [site EXCEPT ![i] = NoSite]
  /\ Become("request", [mal["request"] EXCEPT !.pc = "drop"])
  /\ UNCHANGED <<oneId, listed, told, malMu, count, asks, misses, hist, calm>>
RemoveListEntry ==
  LET a == mal["request"].at IN
  /\ mal["request"].pc = "drop"
  /\ listed' = [listed EXCEPT ![a] = NoListing] /\ told' = [told EXCEPT ![a] = NotTold]
  /\ gone' = (IF site[Id(a)].in THEN gone ELSE gone \cup {a})
  /\ Become("request", Idle)
  /\ UNCHANGED <<oneId, site, malMu, count, asks, misses, here, held, lost, rated, calm>>
DeleteFails ==
  /\ mal["request"].pc = "remove" /\ Miss /\ Become("request", Idle)
  /\ UNCHANGED <<oneId, listed, told, site, malMu, count, asks, hist, calm>>

MalNext ==
  \/ \E a \in InPlay : AniListMerge(a) \/ TakeOff(a) \/ \E s \in MalScores : EditShow(a, s)
  \/ \E s \in {0, 8} : OnSite(1, s)
  \/ SwitchAccount \/ StartJob \/ AskSync("run") \/ AskSync("pull") \/ JobRests \/ DeleteOnSite \/ RemoveListEntry \/ DeleteFails
  \/ \E g \in MalWorkers : \/ Run(g) \/ PushOne(g) \/ MarkPushed(g) \/ RunEnds(g) \/ List(g) \/ ListFails(g) \/ SeedPushed(g) \/ PullBreaks(g)
                           \/ \E e \in mal[g].todo : SetProgress(g, e) \/ SetProgressFails(g, e) \/ Pushed(g, e) \/ ReadRow(g, e) \/ Apply(g, e)
MalSpec == MalInit /\ [][MalNext]_malVars
-----------------------------------------------------------------------------
(* "A local edit MAL has not been told about wins": a pull never overwrites an edit made here
   that the site has not held, however edits, pushes and pulls overlap, once it knows the
   entry; and it never trades a score for one the site cannot tell from it. *)
PullSparesEdits ==
  [][\A g \in MalWorkers : mal[g].pc = "apply" /\ mal'[g].pc = "entries" =>
       \A a \in Shows : listed[a].in /\ told[a].seen =>
         /\ listed'[a].val # listed[a].val /\ listed[a].val \in here => listed[a].val \in held[Id(a)]
         /\ listed'[a].score # listed[a].score => MALScore(listed'[a].score) # MALScore(listed[a].score)]_malVars
(* "a pull judging a site edit against a push in flight rolls it back": a push never takes the
   site back to what it said before, while every answer arrives.  (A score edited here sends the
   progress along, and two shows with one id take turns: both excepted.) *)
NoRollback ==
  [][\A i \in Shows : /\ ~lost' /\ ~oneId /\ i \notin rated
                      /\ site'[i].in /\ site'[i].val # site[i].val
                      => site'[i].val \notin held[i]]_malVars
(* Remove: "under the push lock so a push in flight can't recreate it".  A show that is off here
   and there comes back only by an edit. *)
RemovedIsGone == \A a \in gone : ~listed[a].in
(* After a job nothing disturbed, the site and the list say the same and nothing is left to push:
   two shows with one id do not "overwrite each other every cycle".  (A removal that crosses a
   pull leaves the show told and not listed.) *)
JobAgrees ==
  mal["job"].pc = "rest" /\ calm =>
    \A i \in {Id(a) : a \in Shows} : site[i].in =>
      LET a == Speaker(i) IN
      IF listed[a].in THEN listed[a].val = site[i].val /\ MALScore(listed[a].score) = site[i].score /\ a \notin Pending
                      ELSE told[a].seen
MalAgrees == RemovedIsGone /\ JobAgrees
MalKeeps == PullSparesEdits /\ NoRollback
-----------------------------------------------------------------------------
(* The account's token (mal/auth.go, mal/mal.go, newMAL of cmd/kuro/main.go, malLogin,
   malCallback, malLogout of server/mal.go): every call renews it when it is due, one at a time,
   and MyAnimeList takes each refresh token once.  A login and a logout may come at any moment;
   the client holds the token, the settings keep it for the next start. *)
CONSTANTS Callers,    \* goroutines calling the site
          MaxRenewals, MaxLogins, MaxTokenFaults
ASSUME TokenAssumption == MaxLogins \in Nat /\ "free" \notin Callers /\ "logout" \notin Callers

NoToken == <<0, 0>>   \* <<account, generation>>
VARIABLES token,      \* Client.token
          kept,       \* mal.token and mal.refresh.token of the settings
          nearEnd,        \* the token is within refreshWindow of its end
          refreshing, \* the lock: a caller, "logout" or "free"
          call,       \* c |-> pc, the token spent, the token got
          login,      \* malCallback: pc, the token got
          logout,     \* malLogout: pc
          waiting,    \* mal.state and mal.verifier.token of the settings: a login's number or 0
          valid,      \* external: account |-> the generation the site accepts
          logins, tokFaults,
          blurred,    \* history: an answer lost, a crash, or a login or logout between another's two writes
          last,       \* history: the account of the last login
          out         \* history: the last thing finished is a logout
tokenVars == <<token, kept, nearEnd, refreshing, call, login, logout, waiting, valid, logins, tokFaults, blurred, last, out>>

Resting == [pc |-> "idle", spent |-> NoToken, got |-> NoToken]
TokenInit ==
  /\ token = NoToken /\ kept = NoToken /\ nearEnd = FALSE /\ refreshing = "free"
  /\ call = [c \in Callers |-> Resting] /\ login = Resting /\ logout = "idle" /\ waiting = 0
  /\ valid = [a \in 1 .. MaxLogins |-> 0] /\ logins = 0 /\ tokFaults = 0 /\ blurred = FALSE /\ last = 0 /\ out = FALSE

TokenFault == tokFaults < MaxTokenFaults /\ tokFaults' = tokFaults + 1
Due == token # NoToken /\ nearEnd
(* External: the site gives the account its next pair and takes the last one back. *)
Grant(a) == valid' = [valid EXCEPT ![a] = @ + 1]
TokenAges == /\ token # NoToken /\ ~nearEnd /\ token[2] <= MaxRenewals /\ nearEnd' = TRUE
             /\ UNCHANGED <<token, kept, refreshing, call, login, logout, waiting, valid, logins, tokFaults, blurred, last, out>>
-----------------------------------------------------------------------------
(* do, ensureToken: a call asks first without the lock ... *)
Call(c) ==
  /\ call[c].pc = "idle" /\ Due
  /\ call' = [call EXCEPT ![c].pc = "lock"]
  /\ UNCHANGED <<token, kept, nearEnd, refreshing, login, logout, waiting, valid, logins, tokFaults, blurred, last, out>>
(* ... and again once it has it. *)
Lock(c) ==
  /\ call[c].pc = "lock" /\ refreshing = "free"
  /\ IF Due THEN refreshing' = c /\ call' = [call EXCEPT ![c] = [Resting EXCEPT !.pc = "ask"]]
            ELSE refreshing' = "free" /\ call' = [call EXCEPT ![c] = Resting]
  /\ UNCHANGED <<token, kept, nearEnd, login, logout, waiting, valid, logins, tokFaults, blurred, last, out>>
(* Refresh: what it is about to spend. *)
Refresh(c) ==
  /\ call[c].pc = "ask"
  /\ IF token = NoToken THEN refreshing' = "free" /\ call' = [call EXCEPT ![c] = Resting]
     ELSE refreshing' = refreshing /\ call' = [call EXCEPT ![c].pc = "post", ![c].spent = token]
  /\ UNCHANGED <<token, kept, nearEnd, login, logout, waiting, valid, logins, tokFaults, blurred, last, out>>
(* token1's post: the site renews the newest generation and refuses a spent one. *)
Post(c) ==
  LET t == call[c].spent IN
  /\ call[c].pc = "post"
  /\ IF t[2] = valid[t[1]]
     THEN Grant(t[1]) /\ refreshing' = refreshing
          /\ call' = [call EXCEPT ![c].pc = "answer", ![c].got = <<t[1], t[2] + 1>>]
     ELSE UNCHANGED valid /\ refreshing' = "free" /\ call' = [call EXCEPT ![c] = Resting]
  /\ UNCHANGED <<token, kept, nearEnd, login, logout, waiting, logins, tokFaults, blurred, last, out>>
(* The call fails, before the site renewed it or after. *)
PostFails(c) ==
  LET t == call[c].spent IN
  /\ call[c].pc = "post" /\ TokenFault
  /\ \/ UNCHANGED <<valid, blurred>>
     \/ t[2] = valid[t[1]] /\ Grant(t[1]) /\ blurred' = TRUE
  /\ refreshing' = "free" /\ call' = [call EXCEPT ![c] = Resting]
  /\ UNCHANGED <<token, kept, nearEnd, login, logout, waiting, logins, last, out>>
(* The rest of token1: kept only if nothing replaced what was spent ... *)
TakeToken(c) ==
  /\ call[c].pc = "answer"
  /\ IF token = call[c].spent
     THEN token' = call[c].got /\ nearEnd' = FALSE /\ call' = [call EXCEPT ![c].pc = "persist"] /\ refreshing' = refreshing
     ELSE UNCHANGED <<token, nearEnd>> /\ call' = [call EXCEPT ![c] = Resting] /\ refreshing' = "free"
  /\ UNCHANGED <<kept, login, logout, waiting, valid, logins, tokFaults, blurred, last, out>>
(* ... and onToken writes it down. *)
Persist(c) ==
  /\ call[c].pc = "persist"
  /\ kept' = call[c].got /\ call' = [call EXCEPT ![c] = Resting] /\ refreshing' = "free"
  /\ blurred' = (blurred \/ token \notin {call[c].got, NoToken})
  /\ UNCHANGED <<token, nearEnd, login, logout, waiting, valid, logins, tokFaults, last, out>>
-----------------------------------------------------------------------------
(* malLogin: a state and a verifier for the way back. *)
StartLogin ==
  /\ logins < MaxLogins /\ logins' = logins + 1 /\ waiting' = logins + 1
  /\ UNCHANGED <<token, kept, nearEnd, refreshing, call, login, logout, valid, tokFaults, blurred, last, out>>
(* malCallback of login n: the state must be the last one's, and is used up. *)
Callback(n) ==
  /\ login.pc = "idle" /\ waiting = n /\ n > 0
  /\ waiting' = 0 /\ login' = [Resting EXCEPT !.pc = "exchange", !.spent = <<n, 0>>]
  /\ UNCHANGED <<token, kept, nearEnd, refreshing, call, logout, valid, logins, tokFaults, blurred, last, out>>
(* Exchange, without the lock: a new account's token ... *)
Exchange ==
  /\ login.pc = "exchange" /\ Grant(login.spent[1])
  /\ LET t == <<login.spent[1], 1>> IN token' = t /\ login' = [login EXCEPT !.pc = "persist", !.got = t]
  /\ nearEnd' = FALSE /\ out' = FALSE /\ last' = login.spent[1] /\ blurred' = (blurred \/ logout = "clear")
  /\ UNCHANGED <<kept, refreshing, call, logout, waiting, logins, tokFaults>>
ExchangeFails ==
  /\ login.pc = "exchange" /\ TokenFault /\ login' = Resting
  /\ UNCHANGED <<token, kept, nearEnd, refreshing, call, logout, waiting, valid, logins, blurred, last, out>>
(* ... written down, and again with the name once Viewer answered; when it does not, the
   account is connected all the same. *)
SaveLogin ==
  /\ login.pc \in {"persist", "save"}
  /\ kept' = login.got /\ blurred' = (blurred \/ token # login.got)
  /\ login' = IF login.pc = "persist" THEN [login EXCEPT !.pc = "viewer"] ELSE Resting
  /\ UNCHANGED <<token, nearEnd, refreshing, call, logout, waiting, valid, logins, tokFaults, last, out>>
Viewer ==
  /\ login.pc = "viewer"
  /\ login' = [login EXCEPT !.pc = "save"] \/ login' = Resting
  /\ UNCHANGED <<token, kept, nearEnd, refreshing, call, logout, waiting, valid, logins, tokFaults, blurred, last, out>>
(* malLogout, Forget: with no refresh in flight the token is dropped ... *)
ForgetToken ==
  /\ logout = "idle" /\ refreshing = "free" /\ token # NoToken
  /\ refreshing' = "logout" /\ logout' = "clear" /\ token' = NoToken /\ nearEnd' = FALSE
  /\ UNCHANGED <<kept, call, login, waiting, valid, logins, tokFaults, blurred, last, out>>
(* ... and the settings are cleared. *)
ClearSettings ==
  /\ logout = "clear" /\ logout' = "idle" /\ refreshing' = IF refreshing = "logout" THEN "free" ELSE refreshing
  /\ kept' = NoToken /\ waiting' = 0 /\ out' = (login.pc = "idle")
  /\ blurred' = (blurred \/ token # NoToken \/ login.pc \notin {"idle", "exchange"})
  /\ UNCHANGED <<token, nearEnd, call, login, valid, logins, tokFaults, last>>
(* The program stops and starts again, newMAL: what was kept is what it holds. *)
TokenRestart ==
  /\ TokenFault
  /\ blurred' = (blurred \/ token # kept \/ \E c \in Callers : call[c].pc \in {"answer", "persist"})
  /\ token' = kept /\ nearEnd' = FALSE /\ refreshing' = "free"
  /\ call' = [c \in Callers |-> Resting] /\ login' = Resting /\ logout' = "idle"
  /\ UNCHANGED <<kept, waiting, valid, logins, last, out>>

TokenNext ==
  \/ \E c \in Callers : \/ Call(c) \/ Lock(c) \/ Refresh(c) \/ Post(c) \/ PostFails(c) \/ TakeToken(c) \/ Persist(c)
  \/ \E n \in 1 .. MaxLogins : Callback(n)
  \/ TokenAges \/ StartLogin \/ Exchange \/ ExchangeFails \/ SaveLogin \/ Viewer \/ ForgetToken \/ ClearSettings \/ TokenRestart
TokenSpec == TokenInit /\ [][TokenNext]_tokenVars
-----------------------------------------------------------------------------
Quiet == (\A c \in Callers : call[c].pc \notin {"answer", "persist"}) /\ login.pc = "idle" /\ logout = "idle"
(* "One refresh at a time, or two spending one refresh token store a revoked one": at rest the
   token is the one the site accepts and the one the next start finds. *)
TokenIsGood == Quiet /\ ~blurred => token = kept /\ (token # NoToken => token[2] = valid[token[1]])
(* "a logout or a new login since the request went out wins": a refresh in flight does not
   connect the account that was left. *)
LogoutHolds == Quiet /\ ~blurred => (out => token = NoToken) /\ token[1] \in {0, last}
TokenSafe == TokenIsGood /\ LogoutHolds
=============================================================================
