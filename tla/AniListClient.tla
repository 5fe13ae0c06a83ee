---------------------------- MODULE AniListClient ----------------------------
(* The one client everything asks AniList through (anilist/client.go, cache.go, archive.go):
   a response cache keyed by the account, identical questions sharing one request, retries, a
   pause all callers share, saved answers for pages while the site is down, and logins that
   change the token while requests are out.  All callers ask the same question: what the parts
   tell apart is who asks, as whom, and what became of it. *)
EXTENDS Integers, FiniteSets

CONSTANTS AlPages,      \* contexts with a Served: what a person looks at
          AlJobs,       \* background work
          AlToggles,    \* callers of MutateOnce
          AlAccounts,   \* tokens other than none, which is 0
          AlRetries,    \* maxRetries
          AlCalls, AlFaults, AlLogins   \* bounds on questions, failures and logins

ASSUME AlAssumption ==
  /\ AlPages \cup AlJobs \cup AlToggles \subseteq Nat /\ AlAccounts \subseteq Nat \ {0}
  /\ AlPages \cap AlJobs = {} /\ AlToggles \cap (AlPages \cup AlJobs) = {}

VARIABLES alToken,     \* 0 or an account
          alCache,     \* responseCache.entries: key |-> account that was answered, or None
          alInflight,  \* responseCache.inflight: key |-> caller asking, or None
          alDown,      \* within downUntil
          alPaused,    \* within pausedUntil
          alArchive,   \* the store's answers: signed in? |-> account that was answered, or None
          alSaves,     \* SaveAnswer goroutines
          alCall,      \* caller |-> its request
          alApplied,   \* toggle |-> how often the site applied it
          alCrossed,   \* the token changed while a request that carries it was out
          alUsed       \* [calls, faults, logins] so far
alVars == <<alToken, alCache, alInflight, alDown, alPaused, alArchive, alSaves, alCall, alApplied,
            alCrossed, alUsed>>

None == -1
AlCallers == AlPages \cup AlJobs \cup AlToggles
AlKeys == {0} \cup AlAccounts
NoCall == [pc |-> "idle", anon |-> FALSE, key |-> 0, saved |-> FALSE, mine |-> FALSE, try |-> 0,
           as |-> 0, res |-> "none", got |-> None]
AlInit ==
  /\ alToken \in AlKeys /\ alCache = [k \in AlKeys |-> None] /\ alInflight = [k \in AlKeys |-> None]
  /\ alDown = FALSE /\ alPaused = FALSE /\ alArchive = [b \in BOOLEAN |-> None] /\ alSaves = {}
  /\ alCall = [c \in AlCallers |-> NoCall] /\ alApplied = [c \in AlToggles |-> 0]
  /\ alCrossed = FALSE /\ alUsed = [calls |-> 0, faults |-> 0, logins |-> 0]
Count(f, bound) == alUsed[f] < bound /\ alUsed' = [alUsed EXCEPT ![f] = @ + 1]

(* bearerFor: nothing for queryAnonymous, else the token of the moment. *)
BearerFor(c) == IF alCall[c].anon THEN 0 ELSE alToken
Ends(c, res, got) == [alCall EXCEPT ![c] = [NoCall EXCEPT !.res = res, !.got = got]]
(* done: the flight is over and everyone waiting on it is woken. *)
Done(c, calls) ==
  IF ~alCall[c].mine THEN alInflight' = alInflight /\ alCall' = calls
  ELSE /\ alInflight' = [alInflight EXCEPT ![alCall[c].key] = None]
       /\ alCall' = [d \in AlCallers |->
            IF calls[d].pc = "wait" /\ calls[d].key = alCall[c].key THEN [calls[d] EXCEPT !.pc = "woken"]
            ELSE calls[d]]
(* fromArchive: only a context that records where its answers came from is served one. *)
FromArchive(c) == c \in AlPages /\ alArchive[alCall[c].saved] # None

(* Query: the key is computed and the cache looked up. *)
AskAniList(c, anon) ==
  /\ c \notin AlToggles /\ alCall[c].pc = "idle" /\ (anon => alToken # 0)
  /\ Count("calls", AlCalls)
  /\ LET k == IF anon THEN 0 ELSE alToken IN
     alCall' = IF alCache[k] # None THEN Ends(c, "live", alCache[k])
               ELSE [alCall EXCEPT ![c] = [NoCall EXCEPT !.pc = "enter", !.anon = anon, !.key = k]]
  /\ UNCHANGED <<alToken, alCache, alInflight, alDown, alPaused, alArchive, alSaves, alApplied, alCrossed>>
(* ... then the saved answer while the site is down, and the flight joined or begun. *)
Enter(c) ==
  /\ alCall[c].pc = "enter"
  /\ LET authed == BearerFor(c) # 0 IN
     IF alDown /\ c \in AlPages /\ alArchive[authed] # None
     THEN alCall' = Ends(c, "saved", alArchive[authed]) /\ alInflight' = alInflight
     ELSE LET k == alCall[c].key
              mine == alInflight[k] = None IN
          /\ alInflight' = IF mine THEN [alInflight EXCEPT ![k] = c] ELSE alInflight
          /\ alCall' = [alCall EXCEPT ![c].pc = IF mine THEN "fetch" ELSE "wait", ![c].mine = mine,
                                      ![c].saved = authed]
  /\ UNCHANGED <<alToken, alCache, alDown, alPaused, alArchive, alSaves, alApplied, alCrossed, alUsed>>
(* The flight waited on is over: its answer, or the saved one, or a request of one's own. *)
FlightOver(c) ==
  /\ alCall[c].pc = "woken"
  /\ alCall' = IF alCache[alCall[c].key] # None THEN Ends(c, "live", alCache[alCall[c].key])
               ELSE IF alDown /\ FromArchive(c) THEN Ends(c, "saved", alArchive[alCall[c].saved])
               ELSE [alCall EXCEPT ![c].pc = "fetch"]
  /\ UNCHANGED <<alToken, alCache, alInflight, alDown, alPaused, alArchive, alSaves, alApplied, alCrossed, alUsed>>
(* MutateOnce. *)
Toggle(c) ==
  /\ c \in AlToggles /\ alCall[c].pc = "idle" /\ alCall[c].res = "none" /\ Count("calls", AlCalls)
  /\ alCall' = [alCall EXCEPT ![c] = [NoCall EXCEPT !.pc = "fetch"]]
  /\ UNCHANGED <<alToken, alCache, alInflight, alDown, alPaused, alArchive, alSaves, alApplied, alCrossed>>
(* run: the limiter and the pause are waited out once, then the request goes out with the
   token of that moment. *)
AwaitPause(c) ==
  /\ alCall[c].pc = "fetch" /\ ~alPaused
  /\ alCall' = [alCall EXCEPT ![c].pc = "post"]
  /\ UNCHANGED <<alToken, alCache, alInflight, alDown, alPaused, alArchive, alSaves, alApplied, alCrossed, alUsed>>
PostQuery(c) ==
  /\ alCall[c].pc = "post"
  /\ alCall' = [alCall EXCEPT ![c].pc = "sent", ![c].as = BearerFor(c)]
  /\ UNCHANGED <<alToken, alCache, alInflight, alDown, alPaused, alArchive, alSaves, alApplied, alCrossed, alUsed>>

(* An answer: into the cache, and for a page into the archive by a goroutine of its own; the
   last of the quota holds back whoever comes next. *)
Answered(c, lastOfQuota) ==
  /\ alCall[c].pc = "sent"
  /\ alPaused' = (alPaused \/ lastOfQuota)
  /\ IF c \in AlToggles
     THEN /\ alApplied' = [alApplied EXCEPT ![c] = @ + 1] /\ alCall' = Ends(c, "live", alCall[c].as)
          /\ UNCHANGED <<alCache, alInflight, alSaves>>
     ELSE /\ alCache' = [alCache EXCEPT ![alCall[c].key] = alCall[c].as]
          /\ alSaves' = IF c \in AlPages THEN alSaves \cup {<<alCall[c].saved, alCall[c].as>>} ELSE alSaves
          /\ Done(c, Ends(c, "live", alCall[c].as)) /\ alApplied' = alApplied
  /\ UNCHANGED <<alToken, alDown, alArchive, alCrossed, alUsed>>
(* A rejection is an answer: it is returned, and no saved one takes its place. *)
Rejected(c) ==
  /\ alCall[c].pc = "sent" /\ Count("faults", AlFaults)
  /\ Done(c, Ends(c, "error", None))
  /\ UNCHANGED <<alToken, alCache, alDown, alPaused, alArchive, alSaves, alApplied, alCrossed>>
(* run's retries: a 429 or a 403 was not applied and is asked again, the rest only when the
   request may be repeated. *)
MayRepeat(c, how) == alCall[c].try < AlRetries /\ (how \in {"limited", "disabled"} \/ c \notin AlToggles)
(* fetch's error: down for a while, and the saved answer for a page. *)
Unreachable(c) ==
  IF c \in AlToggles THEN alCall' = Ends(c, "error", None) /\ UNCHANGED <<alDown, alInflight>>
  ELSE /\ alDown' = TRUE
       /\ Done(c, IF FromArchive(c) THEN Ends(c, "saved", alArchive[alCall[c].saved]) ELSE Ends(c, "error", None))
Fails(c, how, applied) ==
  /\ alCall[c].pc = "sent" /\ Count("faults", AlFaults)
  /\ applied => c \in AlToggles /\ how \in {"broken", "lost"}
  /\ alApplied' = IF applied THEN [alApplied EXCEPT ![c] = @ + 1] ELSE alApplied
  /\ alPaused' = (alPaused \/ how = "limited")
  /\ IF MayRepeat(c, how)
     THEN /\ alCall' = [alCall EXCEPT ![c].pc = "fetch", ![c].try = @ + 1]
          /\ UNCHANGED <<alDown, alInflight>>
     ELSE Unreachable(c)
  /\ UNCHANGED <<alToken, alCache, alArchive, alSaves, alCrossed>>
(* The context ends: a page is left, a job is stopped. *)
Leave(c) ==
  /\ alCall[c].pc \in {"wait", "fetch", "sent"} /\ c \notin AlToggles /\ Count("faults", AlFaults)
  /\ Done(c, Ends(c, "error", None))
  /\ UNCHANGED <<alToken, alCache, alDown, alPaused, alArchive, alSaves, alApplied, alCrossed>>

(* SetToken, by a login or a logout. *)
SetToken(t) ==
  /\ t # alToken /\ Count("logins", AlLogins)
  /\ alToken' = t
  /\ alCrossed' = (alCrossed \/ \E c \in AlCallers \ AlToggles : alCall[c].pc # "idle" /\ ~alCall[c].anon)
  /\ UNCHANGED <<alCache, alInflight, alDown, alPaused, alArchive, alSaves, alCall, alApplied>>
(* Recheck: "Try now" ends the down window at once; so does time. *)
Recheck ==
  /\ alDown /\ alDown' = FALSE
  /\ UNCHANGED <<alToken, alCache, alInflight, alPaused, alArchive, alSaves, alCall, alApplied, alCrossed, alUsed>>
PausePasses ==
  /\ alPaused /\ alPaused' = FALSE
  /\ UNCHANGED <<alToken, alCache, alInflight, alDown, alArchive, alSaves, alCall, alApplied, alCrossed, alUsed>>
SaveLands(s) ==
  /\ s \in alSaves /\ alSaves' = alSaves \ {s} /\ alArchive' = [alArchive EXCEPT ![s[1]] = s[2]]
  /\ UNCHANGED <<alToken, alCache, alInflight, alDown, alPaused, alCall, alApplied, alCrossed, alUsed>>
(* An entry expires, or is dropped from a full cache. *)
CacheDrops(k) ==
  /\ alCache[k] # None /\ alCache' = [alCache EXCEPT ![k] = None]
  /\ UNCHANGED <<alToken, alInflight, alDown, alPaused, alArchive, alSaves, alCall, alApplied, alCrossed, alUsed>>

AlNext ==
  \/ \E c \in AlCallers :
       \/ Enter(c) \/ FlightOver(c) \/ Toggle(c) \/ AwaitPause(c) \/ PostQuery(c) \/ Rejected(c) \/ Leave(c)
       \/ \E b \in BOOLEAN : AskAniList(c, b) \/ Answered(c, b)
       \/ \E how \in {"limited", "disabled", "broken", "lost"}, applied \in BOOLEAN : Fails(c, how, applied)
  \/ \E t \in AlKeys : SetToken(t)
  \/ Recheck \/ PausePasses
  \/ \E s \in alSaves : SaveLands(s)
  \/ \E k \in AlKeys : CacheDrops(k)
AlSpec == AlInit /\ [][AlNext]_alVars

-----------------------------------------------------------------------------
(* A question in flight is being asked by somebody, and whoever waits for it waits for them:
   no failure, rejection or departed page leaves a flight nobody ends. *)
FlightsEnd ==
  /\ \A k \in AlKeys : alInflight[k] # None =>
       LET o == alCall[alInflight[k]] IN o.pc \in {"fetch", "post", "sent"} /\ o.mine /\ o.key = k
  /\ \A c \in AlCallers : alCall[c].pc = "wait" => alInflight[alCall[c].key] # None
(* Answers do not cross: what is cached for an account was answered to it, and what is saved
   for signed-in pages was answered to an account.  A token changed while a request is out is
   the exception: the key was made of the old one and the request carries the new. *)
AnswersStayApart ==
  ~alCrossed => /\ \A k \in AlKeys : alCache[k] \in {None, k}
                /\ \A b \in BOOLEAN : alArchive[b] # None => (alArchive[b] # 0) = b
(* Background work never takes a saved answer for what the site says now. *)
JobsAskLive == \A c \in AlJobs : alCall[c].res # "saved"
(* A toggle is applied at most once, however its answer was lost. *)
ToggledOnce == \A c \in AlToggles : alApplied[c] <= 1
AniListSafe == FlightsEnd /\ AnswersStayApart /\ JobsAskLive /\ ToggledOnce
=============================================================================
