---------------------------- MODULE StreamProofs ----------------------------
(***************************************************************************)
(* Proofs about what a player is given, from the session it opens down to  *)
(* the pieces of the torrent.                                              *)
(*   StreamSessions: for any pages, any sources and any number of Session  *)
(*     objects.                                                            *)
(*   EngineClient, the waits of internal/torrent/client.go: for every      *)
(*     number of callers and of polls, what a wait reports rests on what   *)
(*     is on disk, and a magnet is refused only for cause.                 *)
(*   SwarmPieces: for any torrent, any peers and any number of hashers,    *)
(*     what is complete is right, what is full is checked, only liars are  *)
(*     banned, and all of it is a PieceStore.                              *)
(*   Dht: an announce, for any nodes and whatever each of them answers.    *)
(***************************************************************************)
EXTENDS StreamSessions, EngineClient, SwarmPieces, Dht, FiniteSetTheorems, WellFoundedInduction,
        TLAPS

(* The inductive invariant of the sessions.                                *)

\* The pages an object was given to.
Holders(o) == {c \in Clients : actors[c].mine = o}
HoldersNext(o) == {c \in Clients : actors'[c].mine = o}

\* A page has an object from its open's return to its close, and only then; a teardown
\* knows where it goes on.
Standing ==
    \A a \in Actors :
        /\ actors[a].mine \in 0 .. created
        /\ actors[a].pc \in {"away", "probe", "mkdir", "publish", "discard", "release"} => actors[a].mine = 0
        /\ actors[a].pc \in {"hold", "watching", "gone"} => actors[a].mine # 0
        /\ actors[a].pc = "discard" => actors[a].then \in {"probe", "release"}
        /\ actors[a].pc \in {"stop", "owner", "remove"} =>
             \/ actors[a].then \in {"probe", "release"} /\ actors[a].mine = 0
             \/ actors[a].then = "hold" /\ actors[a].mine # 0

\* What is being stopped is out of the map, for good.
EndsUnlinked ==
    \A a \in Actors : actors[a].pc = "stop" => actors[a].ends \in 1 .. created /\ actors[a].ends # mapped

\* Somebody is about to stop the object.
Stopping(o) == \E a \in Actors : actors[a].pc = "stop" /\ actors[a].ends = o

\* An object that is neither in the map nor about to be stopped is closed, its encoder ended.
OpenIsOwned ==
    \A o \in 1 .. created :
        ~sessions[o].closed \/ sessions[o].encoder => o = mapped \/ Stopping(o)

\* An object not made yet is blank.
Unmade == \A o \in Objects : o > created => sessions[o] = NoSession

\* The count of the mapped session: never more than its pages, and exactly them while it
\* is the only one there has been (a page of a replaced session gives back a hold of the
\* session that replaced it).
RefsWithin ==
    mapped # 0 =>
        /\ sessions[mapped].refs <= Cardinality(Holders(mapped))
        /\ created = 1 => sessions[mapped].refs = Cardinality(Holders(mapped))

\* Without a session, whoever made or left the directory is on the way to remove or use it.
DirectoryOwned ==
    dir /\ mapped = 0 => \E a \in Actors : actors[a].pc \in {"publish", "stop", "owner", "remove"}

SessInv ==
    SessTypeOK /\ Standing /\ EndsUnlinked /\ OpenIsOwned /\ Unmade /\ RefsWithin /\ DirectoryOwned
-----------------------------------------------------------------------------
(* Types.                                                                  *)

\* Actors and objects are what the type says; the blank records are of it.
LEMMA RecordTypes ==
    ASSUME SessTypeOK
    PROVE  /\ \A a \in Actors : actors[a] \in ActorRecord
           /\ \A o \in Objects : sessions[o] \in SessionRecord
           /\ Away \in ActorRecord /\ NoSession \in SessionRecord
           /\ mapped # 0 => mapped \in Objects
           /\ \A c \in Clients : c \in Actors
           /\ \A o \in 1 .. created : o \in Objects
<1>1. Cardinality(Clients) \in Nat
  BY PagesAssumption, FS_CardinalityType
<1>2. Away \in ActorRecord
  BY SessionsAssumption DEF Away, ActorRecord
<1>3. NoSession \in SessionRecord
  BY <1>1 DEF NoSession, SessionRecord
<1>4. mapped # 0 => mapped \in Objects
  BY SessionsAssumption DEF SessTypeOK, Objects
<1>5. \A o \in 1 .. created : o \in Objects
  BY SessionsAssumption DEF SessTypeOK, Objects
<1> QED
  BY <1>2, <1>3, <1>4, <1>5 DEF SessTypeOK, Actors

\* An actor moved on by one record.
LEMMA ActorMoves ==
    ASSUME SessTypeOK, NEW a \in Actors, NEW r \in ActorRecord,
           actors' = [actors EXCEPT ![a] = r]
    PROVE  /\ actors' \in [Actors -> ActorRecord] /\ actors'[a] = r
           /\ \A b \in Actors : b # a => actors'[b] = actors[b]
  BY DEF SessTypeOK

\* An actor that only changes its place.
LEMMA ActorGoes ==
    ASSUME SessTypeOK, NEW a \in Actors,
           NEW pc \in {"away", "discard", "probe", "mkdir", "publish", "hold", "watching",
                       "gone", "stop", "owner", "remove", "release"},
           NEW ends \in 0 .. MaxSessions,
           actors' = [actors EXCEPT ![a] = [actors[a] EXCEPT !.pc = pc, !.ends = ends]]
    PROVE  /\ actors' \in [Actors -> ActorRecord]
           /\ actors'[a].pc = pc /\ actors'[a].ends = ends
           /\ actors'[a].mine = actors[a].mine /\ actors'[a].then = actors[a].then
           /\ \A b \in Actors : b # a => actors'[b] = actors[b]
<1> DEFINE r == [actors[a] EXCEPT !.pc = pc, !.ends = ends]
<1>1. actors[a] \in ActorRecord
  BY RecordTypes
<1>2. r \in ActorRecord /\ r.pc = pc /\ r.ends = ends /\ r.mine = actors[a].mine /\ r.then = actors[a].then
  BY <1>1 DEF ActorRecord
<1> HIDE DEF r
<1>3. actors' = [actors EXCEPT ![a] = r]
  BY DEF r
<1> QED
  BY <1>2, <1>3, ActorMoves

\* The blank record of an actor.
LEMMA AwayIs ==
    /\ Away \in ActorRecord /\ Away.pc = "away" /\ Away.source = "none"
    /\ Away.mine = 0 /\ Away.ends = 0 /\ Away.then = "away"
<1>1. Away \in ActorRecord
  BY SessionsAssumption DEF Away, ActorRecord
<1> QED
  BY <1>1 DEF Away

\* An object replaced by one record.
LEMMA ObjectChanges ==
    ASSUME SessTypeOK, NEW o \in Objects, NEW r \in SessionRecord,
           sessions' = [sessions EXCEPT ![o] = r]
    PROVE  /\ sessions' \in [Objects -> SessionRecord] /\ sessions'[o] = r
           /\ \A p \in Objects : p # o => sessions'[p] = sessions[p]
  BY DEF SessTypeOK

-----------------------------------------------------------------------------
(* The pages of an object, counted.                                        *)

\* They are finitely many, and no more than there are pages.
LEMMA HoldersFinite ==
    ASSUME NEW o
    PROVE  /\ IsFiniteSet(Holders(o)) /\ Cardinality(Holders(o)) \in Nat
           /\ Cardinality(Clients) \in Nat /\ Cardinality(Holders(o)) <= Cardinality(Clients)
<1>1. Holders(o) \subseteq Clients
  BY DEF Holders
<1> QED
  BY <1>1, PagesAssumption, FS_Subset, FS_CardinalityType

\* A page that gets the object is one more.
LEMMA HolderJoins ==
    ASSUME NEW c \in Clients, NEW o, actors[c].mine # o, actors'[c].mine = o,
           \A b \in Clients : b # c => actors'[b].mine = actors[b].mine
    PROVE  Cardinality(HoldersNext(o)) = Cardinality(Holders(o)) + 1
<1>1. HoldersNext(o) = Holders(o) \cup {c} /\ c \notin Holders(o)
  BY DEF Holders, HoldersNext
<1> QED
  <2>1. IsFiniteSet(Holders(o)) /\ Cardinality(Holders(o)) \in Nat
    BY HoldersFinite
  <2>2. Cardinality(Holders(o) \cup {c}) = Cardinality(Holders(o)) + 1
    BY <1>1, <2>1, FS_AddElement
  <2> QED BY <1>1, <2>2

\* One that gives it back is one less, ...
LEMMA HolderLeaves ==
    ASSUME NEW c \in Clients, NEW o, actors[c].mine = o, actors'[c].mine # o,
           \A b \in Clients : b # c => actors'[b].mine = actors[b].mine
    PROVE  Cardinality(HoldersNext(o)) = Cardinality(Holders(o)) - 1
<1>1. HoldersNext(o) = Holders(o) \ {c} /\ c \in Holders(o)
  BY DEF Holders, HoldersNext
<1> QED
  <2>1. IsFiniteSet(Holders(o)) /\ Cardinality(Holders(o)) \in Nat
    BY HoldersFinite
  <2>2. Cardinality(Holders(o) \ {c}) = Cardinality(Holders(o)) - 1
    BY <1>1, <2>1, FS_RemoveElement
  <2> QED BY <1>1, <2>2

\* ... and otherwise they stay the same.
LEMMA HoldersStay ==
    ASSUME NEW o, \A b \in Clients : actors[b].mine = o <=> actors'[b].mine = o
    PROVE  HoldersNext(o) = Holders(o)
  BY DEF Holders, HoldersNext
-----------------------------------------------------------------------------
(* The steps that leave the objects and the map alone.                     *)

\* An actor that neither begins nor ends a stop disturbs nothing about the objects.
LEMMA QuietStep ==
    ASSUME SessInv, NEW a \in Actors, UNCHANGED <<mapped, created, sessions>>,
           \A b \in Actors : b # a => actors'[b] = actors[b],
           actors'[a].mine = actors[a].mine \/ mapped = 0,
           actors[a].pc # "stop", actors'[a].pc # "stop"
    PROVE  EndsUnlinked' /\ OpenIsOwned' /\ Unmade' /\ RefsWithin'
<1>1. EndsUnlinked'
  BY DEF SessInv, EndsUnlinked
<1>2. ASSUME NEW o \in 1 .. created, Stopping(o)
      PROVE  Stopping(o)'
  BY <1>2 DEF Stopping
<1>3. OpenIsOwned'
  BY <1>2 DEF SessInv, OpenIsOwned
<1>4. Unmade'
  BY DEF SessInv, Unmade
<1>5. RefsWithin'
  <2>1. CASE mapped = 0
    BY <2>1 DEF RefsWithin
  <2>2. CASE mapped # 0
    <3>1. \A b \in Clients : actors'[b].mine = actors[b].mine
      BY <2>2, RecordTypes DEF SessInv
    <3>2. Holders(mapped)' = Holders(mapped)
      BY <3>1 DEF Holders
    <3> QED
      BY <3>2 DEF SessInv, RefsWithin
  <2> QED
    BY <2>1, <2>2
<1> QED
  BY <1>1, <1>3, <1>4, <1>5

\* An open on another source goes to the discard or to the probe.
LEMMA OpenFreshKeeps ==
    ASSUME SessInv, NEW c \in Clients, NEW source \in Sources, OpenFresh(c, source)
    PROVE  SessInv'
<1> DEFINE r == [Away EXCEPT !.source = source, !.then = "probe",
                             !.pc = IF mapped # 0 THEN "discard" ELSE "probe"]
<1>1. /\ r \in ActorRecord /\ r.pc \in {"discard", "probe"} /\ r.then = "probe" /\ r.mine = 0
  BY AwayIs DEF ActorRecord
<1> HIDE DEF r
<1>2. c \in Actors /\ SessTypeOK /\ actors' = [actors EXCEPT ![c] = r] /\ actors[c].pc = "away"
  BY RecordTypes DEF SessInv, OpenFresh, r
<1>3. /\ actors' \in [Actors -> ActorRecord] /\ actors'[c] = r
      /\ \A b \in Actors : b # c => actors'[b] = actors[b]
  BY <1>1, <1>2, ActorMoves
<1>4. UNCHANGED <<mapped, sessions, created, dir, held>>
  BY DEF OpenFresh
<1>5. actors[c].mine = 0
  BY <1>2 DEF SessInv, Standing
<1>6. EndsUnlinked' /\ OpenIsOwned' /\ Unmade' /\ RefsWithin'
  BY <1>1, <1>2, <1>3, <1>4, <1>5, QuietStep
<1>7. SessTypeOK'
  BY <1>2, <1>3, <1>4 DEF SessTypeOK
<1>8. Standing'
  BY <1>1, <1>3, <1>4 DEF SessInv, Standing, SessTypeOK
<1>9. DirectoryOwned'
  BY <1>2, <1>3, <1>4 DEF SessInv, DirectoryOwned
<1> QED
  BY <1>6, <1>7, <1>8, <1>9 DEF SessInv

\* The probe answers, or fails and the page is away again.
LEMMA ProbeKeeps ==
    ASSUME SessInv, NEW c \in Clients, NEW ok \in BOOLEAN, Probe(c, ok)
    PROVE  SessInv'
<1> DEFINE r == IF ok THEN [actors[c] EXCEPT !.pc = "mkdir"] ELSE Away
<1>1. c \in Actors /\ SessTypeOK /\ actors[c] \in ActorRecord /\ actors[c].pc = "probe"
  BY RecordTypes DEF SessInv, Probe
<1>2. actors[c].mine = 0
  BY <1>1 DEF SessInv, Standing
<1>3. r \in ActorRecord /\ r.pc \in {"mkdir", "away"} /\ r.mine = 0
  <2>1. CASE ok
    BY <1>1, <1>2, <2>1 DEF ActorRecord
  <2>2. CASE ~ok
    BY <2>2, SessionsAssumption DEF Away, ActorRecord
  <2> QED
    BY <2>1, <2>2
<1> HIDE DEF r
<1>4. actors' = [actors EXCEPT ![c] = r] /\ UNCHANGED <<mapped, sessions, created, dir, held>>
  BY DEF Probe, r
<1>5. /\ actors' \in [Actors -> ActorRecord] /\ actors'[c] = r
      /\ \A b \in Actors : b # c => actors'[b] = actors[b]
  BY <1>1, <1>3, <1>4, ActorMoves
<1>6. EndsUnlinked' /\ OpenIsOwned' /\ Unmade' /\ RefsWithin'
  BY <1>1, <1>2, <1>3, <1>4, <1>5, QuietStep
<1>7. SessTypeOK'
  BY <1>1, <1>4, <1>5 DEF SessTypeOK
<1>8. Standing'
  BY <1>3, <1>4, <1>5 DEF SessInv, Standing, SessTypeOK
<1>9. DirectoryOwned'
  BY <1>1, <1>4, <1>5 DEF SessInv, DirectoryOwned
<1> QED
  BY <1>6, <1>7, <1>8, <1>9 DEF SessInv

\* The directory is made by one that is about to publish.
LEMMA MkdirKeeps ==
    ASSUME SessInv, NEW c \in Clients, MkdirAll(c)
    PROVE  SessInv'
<1>1. c \in Actors /\ SessTypeOK /\ actors[c] \in ActorRecord /\ actors[c].pc = "mkdir"
  BY RecordTypes DEF SessInv, MkdirAll
<1>2. actors' = [actors EXCEPT ![c] = [actors[c] EXCEPT !.pc = "publish", !.ends = actors[c].ends]]
  BY <1>1 DEF MkdirAll, SessGoto, ActorRecord
<1>3. /\ actors' \in [Actors -> ActorRecord] /\ actors'[c].pc = "publish"
      /\ actors'[c].mine = actors[c].mine
      /\ \A b \in Actors : b # c => actors'[b] = actors[b]
  BY <1>1, <1>2, ActorGoes DEF ActorRecord
<1>4. UNCHANGED <<mapped, sessions, created, held>> /\ dir' = TRUE
  BY DEF MkdirAll
<1>5. EndsUnlinked' /\ OpenIsOwned' /\ Unmade' /\ RefsWithin'
  BY <1>1, <1>3, <1>4, QuietStep
<1>6. SessTypeOK'
  BY <1>1, <1>3, <1>4 DEF SessTypeOK
<1>7. Standing'
  BY <1>1, <1>3, <1>4 DEF SessInv, Standing
<1>8. DirectoryOwned'
  BY <1>1, <1>3 DEF DirectoryOwned
<1> QED
  BY <1>5, <1>6, <1>7, <1>8 DEF SessInv

\* The hold is decided and the page watches.
LEMMA HoldKeeps ==
    ASSUME SessInv, NEW c \in Clients, NEW wanted \in BOOLEAN, Hold(c, wanted)
    PROVE  SessInv'
<1> DEFINE r == [Away EXCEPT !.pc = "watching", !.mine = actors[c].mine]
<1>1. c \in Actors /\ SessTypeOK /\ actors[c] \in ActorRecord /\ actors[c].pc = "hold"
  BY RecordTypes DEF SessInv, Hold
<1>2. r \in ActorRecord /\ r.pc = "watching" /\ r.mine = actors[c].mine
  BY <1>1, AwayIs DEF ActorRecord
<1> HIDE DEF r
<1>3. /\ actors' = [actors EXCEPT ![c] = r] /\ held' = (held \/ wanted)
      /\ UNCHANGED <<mapped, sessions, created, dir>>
  BY DEF Hold, r
<1>4. /\ actors' \in [Actors -> ActorRecord] /\ actors'[c] = r
      /\ \A b \in Actors : b # c => actors'[b] = actors[b]
  BY <1>1, <1>2, <1>3, ActorMoves
<1>5. EndsUnlinked' /\ OpenIsOwned' /\ Unmade' /\ RefsWithin'
  BY <1>1, <1>2, <1>3, <1>4, QuietStep
<1>6. held' \in BOOLEAN
  BY <1>3
<1>7. SessTypeOK'
  BY <1>1, <1>3, <1>4, <1>6 DEF SessTypeOK
<1>8. Standing'
  BY <1>1, <1>2, <1>3, <1>4 DEF SessInv, Standing
<1>9. DirectoryOwned'
  BY <1>1, <1>3, <1>4 DEF SessInv, DirectoryOwned
<1> QED
  BY <1>5, <1>7, <1>8, <1>9 DEF SessInv

\* A page vanishes with its hold.
LEMMA VanishKeeps ==
    ASSUME SessInv, NEW c \in Clients, Vanish(c)
    PROVE  SessInv'
<1>1. c \in Actors /\ SessTypeOK /\ actors[c] \in ActorRecord /\ actors[c].pc = "watching"
  BY RecordTypes DEF SessInv, Vanish
<1>2. actors' = [actors EXCEPT ![c] = [actors[c] EXCEPT !.pc = "gone", !.ends = actors[c].ends]]
  BY <1>1 DEF Vanish, SessGoto, ActorRecord
<1>3. /\ actors' \in [Actors -> ActorRecord] /\ actors'[c].pc = "gone"
      /\ actors'[c].mine = actors[c].mine
      /\ \A b \in Actors : b # c => actors'[b] = actors[b]
  BY <1>1, <1>2, ActorGoes DEF ActorRecord
<1>4. UNCHANGED <<mapped, sessions, created, dir, held>>
  BY DEF Vanish
<1>5. EndsUnlinked' /\ OpenIsOwned' /\ Unmade' /\ RefsWithin'
  BY <1>1, <1>3, <1>4, QuietStep
<1>6. SessTypeOK'
  BY <1>1, <1>3, <1>4 DEF SessTypeOK
<1>7. Standing'
  BY <1>1, <1>3, <1>4 DEF SessInv, Standing
<1>8. DirectoryOwned'
  BY <1>1, <1>3, <1>4 DEF SessInv, DirectoryOwned
<1> QED
  BY <1>5, <1>6, <1>7, <1>8 DEF SessInv

\* Reap lists the idle session.
LEMMA ListStaleKeeps ==
    ASSUME SessInv, ListStale
    PROVE  SessInv'
<1> DEFINE r == [Away EXCEPT !.pc = "discard", !.then = "release"]
<1>1. r \in ActorRecord /\ r.pc = "discard" /\ r.then = "release" /\ r.mine = 0
  BY AwayIs DEF ActorRecord
<1> HIDE DEF r
<1>2. /\ reaper \in Actors /\ SessTypeOK /\ actors' = [actors EXCEPT ![reaper] = r]
      /\ actors[reaper].pc = "away" /\ UNCHANGED <<mapped, sessions, created, dir, held>>
  BY DEF SessInv, ListStale, r, Actors
<1>3. /\ actors' \in [Actors -> ActorRecord] /\ actors'[reaper] = r
      /\ \A b \in Actors : b # reaper => actors'[b] = actors[b]
  BY <1>1, <1>2, ActorMoves
<1>4. actors[reaper].mine = 0
  BY <1>2 DEF SessInv, Standing
<1>5. EndsUnlinked' /\ OpenIsOwned' /\ Unmade' /\ RefsWithin'
  BY <1>1, <1>2, <1>3, <1>4, QuietStep
<1>6. SessTypeOK'
  BY <1>2, <1>3 DEF SessTypeOK
<1>7. Standing'
  BY <1>1, <1>2, <1>3 DEF SessInv, Standing, SessTypeOK
<1>8. DirectoryOwned'
  BY <1>2, <1>3 DEF SessInv, DirectoryOwned
<1> QED
  BY <1>5, <1>6, <1>7, <1>8 DEF SessInv
-----------------------------------------------------------------------------
(* The steps that change an object.                                        *)

\* A page is given the mapped session and counted.
LEMMA JoinKeeps ==
    ASSUME SessInv, NEW c \in Clients, actors[c].pc \in {"away", "publish"}, mapped # 0,
           NEW idle \in BOOLEAN,
           sessions' = [sessions EXCEPT ![mapped] =
               [sessions[mapped] EXCEPT !.refs = sessions[mapped].refs + 1, !.idle = idle]],
           actors' = [actors EXCEPT ![c] = [Away EXCEPT !.pc = "hold", !.mine = mapped]],
           UNCHANGED <<mapped, created, dir, held>>
    PROVE  SessInv'
<1> DEFINE r == [Away EXCEPT !.pc = "hold", !.mine = mapped]
           s == [sessions[mapped] EXCEPT !.refs = sessions[mapped].refs + 1, !.idle = idle]
<1>1. /\ c \in Actors /\ SessTypeOK /\ mapped \in Objects /\ sessions[mapped] \in SessionRecord
      /\ mapped \in 1 .. created
  BY RecordTypes DEF SessInv, SessTypeOK
<1>2. r \in ActorRecord /\ r.pc = "hold" /\ r.mine = mapped
  <2>1. mapped \in 0 .. MaxSessions
    BY <1>1, SessionsAssumption DEF Objects
  <2> QED
    BY <2>1, AwayIs DEF ActorRecord
<1>3. /\ actors' \in [Actors -> ActorRecord] /\ actors'[c] = r
      /\ \A b \in Actors : b # c => actors'[b] = actors[b]
  BY <1>1, <1>2, ActorMoves
<1>4. actors[c].mine = 0
  BY <1>1 DEF SessInv, Standing
<1> HIDE DEF r
<1>5. /\ Cardinality(HoldersNext(mapped)) = Cardinality(Holders(mapped)) + 1
      /\ Cardinality(Holders(mapped)) + 1 <= Cardinality(Clients)
      /\ Cardinality(Clients) \in Nat /\ Cardinality(Holders(mapped)) \in Nat
  <2>1. \A b \in Clients : b # c => actors'[b].mine = actors[b].mine
    BY <1>3 DEF Actors
  <2>2. Cardinality(HoldersNext(mapped)) = Cardinality(Holders(mapped)) + 1
    BY <1>2, <1>3, <1>4, <2>1, HolderJoins
  <2>3. HoldersNext(mapped) \subseteq Clients
    BY DEF HoldersNext
  <2> QED
    BY <2>2, <2>3, HoldersFinite, PagesAssumption, FS_Subset
<1>6. sessions[mapped].refs \in Nat /\ sessions[mapped].refs + 1 <= Cardinality(Clients)
  BY <1>1, <1>5 DEF SessInv, RefsWithin, SessionRecord
<1>7. /\ s \in SessionRecord /\ s.refs = sessions[mapped].refs + 1
      /\ s.closed = sessions[mapped].closed
  <2>1. sessions[mapped].refs + 1 \in 0 .. Cardinality(Clients)
    BY <1>5, <1>6
  <2> QED
    BY <1>1, <2>1 DEF SessionRecord
<1>8. /\ sessions' \in [Objects -> SessionRecord] /\ sessions'[mapped] = s
      /\ \A p \in Objects : p # mapped => sessions'[p] = sessions[p]
  BY <1>1, <1>7, ObjectChanges
<1> HIDE DEF s
<1>9. SessTypeOK'
  <2>1. ~sessions[mapped].closed
    BY DEF SessInv, SessTypeOK
  <2>2. ~sessions'[mapped].closed /\ sessions'[mapped].refs >= 1
    BY <1>6, <1>7, <1>8, <2>1
  <2> QED
    BY <1>1, <1>3, <1>8, <2>2 DEF SessTypeOK
<1>10. Standing'
  BY <1>1, <1>2, <1>3 DEF SessInv, Standing
<1>11. EndsUnlinked'
  BY <1>2, <1>3 DEF SessInv, EndsUnlinked
<1>12. OpenIsOwned'
  <2>1. SUFFICES ASSUME NEW o \in 1 .. created, o # mapped,
                        ~sessions'[o].closed \/ sessions'[o].encoder
                 PROVE  Stopping(o)'
    BY DEF OpenIsOwned
  <2>2. o \in Objects /\ sessions'[o] = sessions[o]
    BY <1>1, <1>8, <2>1, RecordTypes
  <2>3. Stopping(o)
    BY <2>1, <2>2 DEF SessInv, OpenIsOwned
  <2> QED
    BY <1>3, <2>3 DEF Stopping
<1>13. Unmade'
  <2>1. \A o \in Objects : o > created => o # mapped
    BY <1>1 DEF SessTypeOK
  <2> QED
    BY <1>8, <2>1 DEF SessInv, Unmade
<1>14. RefsWithin'
  <2>1. Holders(mapped)' = HoldersNext(mapped)
    BY DEF Holders, HoldersNext
  <2> QED
    BY <1>5, <1>6, <1>7, <1>8, <2>1 DEF SessInv, RefsWithin
<1>15. DirectoryOwned'
  BY DEF DirectoryOwned
<1> QED
  BY <1>9, <1>10, <1>11, <1>12, <1>13, <1>14, <1>15 DEF SessInv

\* An open on the source of the mapped session, at its start or after the probe.
LEMMA SharedKeeps ==
    ASSUME SessInv, NEW c \in Clients
    PROVE  /\ \A source \in Sources : OpenShared(c, source) => SessInv'
           /\ PublishShared(c) => SessInv'
<1>1. mapped # 0 => mapped \in Objects /\ sessions[mapped] \in SessionRecord
  BY RecordTypes DEF SessInv
<1>2. ASSUME NEW source \in Sources, OpenShared(c, source)
      PROVE  SessInv'
  <2>1. mapped # 0
    BY <1>2 DEF OpenShared, Reads
  <2>2. sessions' = [sessions EXCEPT ![mapped] =
            [sessions[mapped] EXCEPT !.refs = sessions[mapped].refs + 1, !.idle = FALSE]]
    <3> DEFINE t == [Touch(mapped) EXCEPT !.refs = sessions[mapped].refs + 1]
               u == [sessions[mapped] EXCEPT !.refs = sessions[mapped].refs + 1, !.idle = FALSE]
    <3>1. t = u
      BY <1>1, <2>1 DEF Touch, SessionRecord
    <3>2. sessions' = [sessions EXCEPT ![mapped] = t]
      BY <1>2 DEF OpenShared
    <3> HIDE DEF t, u
    <3>3. sessions' = [sessions EXCEPT ![mapped] = u]
      BY <3>1, <3>2
    <3> QED
      BY <3>3 DEF u
  <2> QED
    BY <1>2, <2>1, <2>2, JoinKeeps DEF OpenShared
<1>3. ASSUME PublishShared(c)
      PROVE  SessInv'
  <2>1. mapped # 0
    BY <1>3 DEF PublishShared, Reads
  <2>2. sessions[mapped].idle \in BOOLEAN
    BY <1>1, <2>1 DEF SessionRecord
  <2>3. sessions' = [sessions EXCEPT ![mapped] =
            [sessions[mapped] EXCEPT !.refs = sessions[mapped].refs + 1, !.idle = sessions[mapped].idle]]
    <3> DEFINE t == [sessions[mapped] EXCEPT !.refs = sessions[mapped].refs + 1]
               u == [sessions[mapped] EXCEPT !.refs = sessions[mapped].refs + 1, !.idle = sessions[mapped].idle]
    <3>1. t = u
      BY <1>1, <2>1 DEF SessionRecord
    <3>2. sessions' = [sessions EXCEPT ![mapped] = t]
      BY <1>3 DEF PublishShared
    <3> HIDE DEF t, u
    <3>3. sessions' = [sessions EXCEPT ![mapped] = u]
      BY <3>1, <3>2
    <3> QED
      BY <3>3 DEF u
  <2> QED
    BY <1>3, <2>1, <2>2, <2>3, JoinKeeps DEF PublishShared
<1> QED
  BY <1>2, <1>3

\* A request, the clock or an encoder's start touches an object that is owned.
LEMMA TouchKeeps ==
    ASSUME SessInv, NEW o \in Objects, o <= created, NEW s \in SessionRecord,
           s.refs = sessions[o].refs, s.closed = sessions[o].closed,
           s.encoder => sessions[o].encoder \/ ~sessions[o].closed,
           sessions' = [sessions EXCEPT ![o] = s],
           UNCHANGED <<mapped, created, dir, held, actors>>
    PROVE  SessInv'
<1>1. SessTypeOK
  BY DEF SessInv
<1>2. /\ sessions' \in [Objects -> SessionRecord] /\ sessions'[o] = s
      /\ \A p \in Objects : p # o => sessions'[p] = sessions[p]
  BY <1>1, ObjectChanges
<1>3. mapped # 0 => mapped \in Objects
  BY <1>1, RecordTypes
<1>4. SessTypeOK'
  <2>1. ASSUME mapped # 0
        PROVE  ~sessions'[mapped].closed /\ sessions'[mapped].refs >= 1
    BY <1>1, <1>2, <1>3, <2>1 DEF SessTypeOK
  <2> QED
    BY <1>1, <1>2, <2>1 DEF SessTypeOK
<1>5. Standing' /\ EndsUnlinked' /\ DirectoryOwned'
  BY DEF SessInv, Standing, EndsUnlinked, DirectoryOwned
<1>6. OpenIsOwned'
  <2>1. SUFFICES ASSUME NEW p \in 1 .. created, ~sessions'[p].closed \/ sessions'[p].encoder
                 PROVE  p = mapped \/ Stopping(p)
    BY DEF OpenIsOwned, Stopping
  <2>2. p \in Objects
    BY <1>1, RecordTypes
  <2>3. ~sessions[p].closed \/ sessions[p].encoder
    BY <1>2, <2>1, <2>2
  <2> QED
    BY <2>3 DEF SessInv, OpenIsOwned
<1>7. Unmade'
  BY <1>1, <1>2 DEF SessInv, Unmade, SessTypeOK, Objects
<1>8. RefsWithin'
  <2>1. Holders(mapped)' = Holders(mapped)
    BY DEF Holders
  <2>2. mapped # 0 => sessions'[mapped].refs = sessions[mapped].refs
    BY <1>2, <1>3
  <2> QED
    BY <2>1, <2>2 DEF SessInv, RefsWithin
<1> QED
  BY <1>4, <1>5, <1>6, <1>7, <1>8 DEF SessInv

\* The three of them.
LEMMA WatchingKeeps ==
    ASSUME SessInv
    PROVE  /\ \A c \in Clients : Request(c) => SessInv'
           /\ \A o \in Objects : StartEncoder(o) => SessInv'
           /\ SessionIdle => SessInv'
<1>1. /\ mapped # 0 => mapped \in Objects /\ mapped <= created
      /\ \A o \in Objects : sessions[o] \in SessionRecord
  BY RecordTypes DEF SessInv, SessTypeOK
<1>2. ASSUME NEW c \in Clients, Request(c)
      PROVE  SessInv'
  <2> DEFINE s == Touch(mapped)
  <2>1. mapped # 0
    BY <1>2 DEF Request
  <2>2. /\ s \in SessionRecord /\ s.refs = sessions[mapped].refs
        /\ s.closed = sessions[mapped].closed /\ s.encoder = sessions[mapped].encoder
    BY <1>1, <2>1 DEF Touch, SessionRecord
  <2>3. sessions' = [sessions EXCEPT ![mapped] = s] /\ UNCHANGED <<mapped, created, dir, held, actors>>
    BY <1>2 DEF Request
  <2> HIDE DEF s
  <2> QED
    BY <1>1, <2>1, <2>2, <2>3, TouchKeeps
<1>3. ASSUME NEW o \in Objects, StartEncoder(o)
      PROVE  SessInv'
  <2> DEFINE s == [sessions[o] EXCEPT !.encoder = TRUE]
  <2>1. s \in SessionRecord /\ s.refs = sessions[o].refs /\ s.closed = sessions[o].closed
    BY <1>1 DEF SessionRecord
  <2>2. /\ sessions' = [sessions EXCEPT ![o] = s] /\ o <= created /\ ~sessions[o].closed
        /\ UNCHANGED <<mapped, created, dir, held, actors>>
    BY <1>3 DEF StartEncoder
  <2> HIDE DEF s
  <2> QED
    BY <2>1, <2>2, TouchKeeps
<1>4. ASSUME SessionIdle
      PROVE  SessInv'
  <2> DEFINE s == [sessions[mapped] EXCEPT !.idle = TRUE]
  <2>1. mapped # 0
    BY <1>4 DEF SessionIdle
  <2>2. /\ s \in SessionRecord /\ s.refs = sessions[mapped].refs
        /\ s.closed = sessions[mapped].closed /\ s.encoder = sessions[mapped].encoder
    BY <1>1, <2>1 DEF SessionRecord
  <2>3. sessions' = [sessions EXCEPT ![mapped] = s] /\ UNCHANGED <<mapped, created, dir, held, actors>>
    BY <1>4 DEF SessionIdle
  <2> HIDE DEF s
  <2> QED
    BY <1>1, <2>1, <2>2, <2>3, TouchKeeps
<1> QED
  BY <1>2, <1>3, <1>4

\* A new session: it is the mapped one, has one page, and what it replaced is being stopped.
LEMMA PublishFreshKeeps ==
    ASSUME SessInv, NEW c \in Clients, PublishFresh(c)
    PROVE  SessInv'
<1> DEFINE n == created + 1
           s == [NoSession EXCEPT !.source = actors[c].source, !.refs = 1]
           r == [Away EXCEPT !.mine = created + 1, !.then = "hold", !.ends = mapped,
                             !.pc = IF mapped = 0 THEN "hold" ELSE "stop"]
<1>1. /\ c \in Actors /\ SessTypeOK /\ actors[c] \in ActorRecord /\ NoSession \in SessionRecord
      /\ actors[c].pc = "publish"
  BY RecordTypes DEF SessInv, PublishFresh
<1>2. /\ created' = n /\ mapped' = n /\ dir' = dir /\ held' = held
      /\ created \in Nat /\ n \in Objects /\ n \in 1 .. MaxSessions
  BY <1>1, SessionsAssumption DEF PublishFresh, SessTypeOK, Objects
<1>3. mapped \in 0 .. created /\ mapped \in 0 .. MaxSessions
  BY <1>1, SessionsAssumption DEF SessTypeOK
<1>4. /\ r \in ActorRecord /\ r.mine = n /\ r.then = "hold" /\ r.ends = mapped
      /\ r.pc = IF mapped = 0 THEN "hold" ELSE "stop"
  <2>1. n \in 0 .. MaxSessions
    BY <1>2
  <2> HIDE DEF n
  <2> QED
    BY <1>3, <2>1, AwayIs DEF ActorRecord, n
<1> HIDE DEF r
<1>5. /\ actors' \in [Actors -> ActorRecord] /\ actors'[c] = r
      /\ \A b \in Actors : b # c => actors'[b] = actors[b]
  <2>1. actors' = [actors EXCEPT ![c] = r]
    BY DEF PublishFresh, r
  <2> QED
    BY <1>1, <1>4, <2>1, ActorMoves
<1>6. /\ \A b \in Actors : actors[b].mine \in 0 .. created
      /\ \A b \in Actors : actors[b].pc = "stop" => actors[b].ends \in 1 .. created
  BY DEF SessInv, Standing, EndsUnlinked
<1>7. HoldersNext(n) = {c}
  BY <1>1, <1>2, <1>4, <1>5, <1>6 DEF HoldersNext, Actors
<1>8. Cardinality(HoldersNext(n)) = 1 /\ Cardinality(Clients) \in Nat /\ 1 <= Cardinality(Clients)
  <2>1. Cardinality({c}) = 1
    BY FS_Singleton
  <2> QED
    BY <1>7, <2>1, PagesAssumption, FS_Subset, FS_CardinalityType
<1>9. s \in SessionRecord /\ s.refs = 1 /\ s.closed = FALSE
  <2>1. 1 \in 0 .. Cardinality(Clients)
    BY <1>8
  <2>2. actors[c].source \in Sources \union {"none"}
    BY <1>1 DEF ActorRecord
  <2>3. NoSession.closed = FALSE
    BY DEF NoSession
  <2> QED
    BY <1>1, <2>1, <2>2, <2>3 DEF SessionRecord
<1> HIDE DEF s
<1>10. /\ sessions' \in [Objects -> SessionRecord] /\ sessions'[n] = s
       /\ \A p \in Objects : p # n => sessions'[p] = sessions[p]
  <2>1. sessions' = [sessions EXCEPT ![n] = s]
    BY DEF PublishFresh, s
  <2> QED
    BY <1>1, <1>2, <1>9, <2>1, ObjectChanges
<1>11. SessTypeOK'
  <2>1. mapped' \in 0 .. created' /\ created' \in 0 .. MaxSessions
    BY <1>2
  <2>2. ~sessions'[mapped'].closed /\ sessions'[mapped'].refs >= 1
    BY <1>2, <1>9, <1>10
  <2> QED
    BY <1>1, <1>2, <1>5, <1>10, <2>1, <2>2 DEF SessTypeOK
<1>12. Standing'
  <2>1. SUFFICES ASSUME NEW a \in Actors
                 PROVE  /\ actors'[a].mine \in 0 .. n
                        /\ actors'[a].pc \in {"away", "probe", "mkdir", "publish", "discard", "release"} => actors'[a].mine = 0
                        /\ actors'[a].pc \in {"hold", "watching", "gone"} => actors'[a].mine # 0
                        /\ actors'[a].pc = "discard" => actors'[a].then \in {"probe", "release"}
                        /\ actors'[a].pc \in {"stop", "owner", "remove"} =>
                             \/ actors'[a].then \in {"probe", "release"} /\ actors'[a].mine = 0
                             \/ actors'[a].then = "hold" /\ actors'[a].mine # 0
    BY <1>2 DEF Standing
  <2>2. CASE a = c
    BY <1>2, <1>4, <1>5, <2>2
  <2>3. CASE a # c
    BY <1>2, <1>5, <2>3 DEF SessInv, Standing
  <2> QED
    BY <2>2, <2>3
<1>13. EndsUnlinked'
  <2>1. SUFFICES ASSUME NEW a \in Actors, actors'[a].pc = "stop"
                 PROVE  actors'[a].ends \in 1 .. created
    BY <1>2 DEF EndsUnlinked
  <2>2. CASE a = c
    BY <1>3, <1>4, <1>5, <2>1, <2>2
  <2>3. CASE a # c
    BY <1>5, <1>6, <2>1, <2>3
  <2> QED
    BY <2>2, <2>3
<1>14. OpenIsOwned'
  <2>1. SUFFICES ASSUME NEW o \in 1 .. n, o # n, ~sessions'[o].closed \/ sessions'[o].encoder
                 PROVE  Stopping(o)'
    BY <1>2 DEF OpenIsOwned
  <2>2. o \in 1 .. created
    BY <1>2, <2>1
  <2>3. o \in Objects /\ sessions'[o] = sessions[o]
    BY <1>1, <1>10, <2>1, <2>2, RecordTypes
  <2>4. o = mapped \/ Stopping(o)
    BY <2>1, <2>2, <2>3 DEF SessInv, OpenIsOwned
  <2>5. CASE o = mapped
    BY <1>1, <1>4, <1>5, <2>2, <2>5 DEF Stopping
  <2>6. CASE Stopping(o)
    BY <1>1, <1>5, <2>6 DEF Stopping
  <2> QED
    BY <2>4, <2>5, <2>6
<1>15. Unmade'
  BY <1>2, <1>10 DEF SessInv, Unmade, Objects
<1>16. RefsWithin'
  <2>1. Cardinality(Holders(mapped)') = 1
    BY <1>2, <1>8 DEF Holders, HoldersNext
  <2>2. sessions'[mapped'].refs = 1
    BY <1>2, <1>9, <1>10
  <2> QED
    BY <2>1, <2>2 DEF RefsWithin
<1>17. DirectoryOwned'
  BY <1>2 DEF DirectoryOwned
<1> QED
  BY <1>11, <1>12, <1>13, <1>14, <1>15, <1>16, <1>17 DEF SessInv

\* A close with no session left behind the id changes nothing but the page.
LEMMA CloseMissedKeeps ==
    ASSUME SessInv, NEW c \in Clients, Close(c), mapped = 0
    PROVE  SessInv'
<1>1. c \in Actors /\ SessTypeOK /\ actors[c].pc = "watching"
  BY RecordTypes DEF SessInv, Close
<1>2. actors' = [actors EXCEPT ![c] = Away] /\ UNCHANGED <<mapped, sessions, created, dir, held>>
  BY DEF Close
<1>3. /\ actors' \in [Actors -> ActorRecord] /\ actors'[c] = Away
      /\ \A b \in Actors : b # c => actors'[b] = actors[b]
  BY <1>1, <1>2, AwayIs, ActorMoves
<1>4. EndsUnlinked' /\ OpenIsOwned' /\ Unmade' /\ RefsWithin'
  BY <1>1, <1>2, <1>3, AwayIs, QuietStep
<1>5. SessTypeOK'
  BY <1>1, <1>2, <1>3 DEF SessTypeOK
<1>6. Standing'
  BY <1>2, <1>3, AwayIs DEF SessInv, Standing, SessTypeOK
<1>7. DirectoryOwned'
  BY <1>1, <1>2, <1>3 DEF SessInv, DirectoryOwned
<1> QED
  BY <1>4, <1>5, <1>6, <1>7 DEF SessInv

\* What a close gives back: the page that leaves held this session or, having opened one
\* that was replaced, none of it.
LEMMA CloseCounts ==
    ASSUME SessInv, NEW c \in Clients, actors[c].pc = "watching", mapped # 0,
           actors'[c].mine = 0, \A b \in Actors : b # c => actors'[b] = actors[b]
    PROVE  /\ sessions[mapped].refs \in Nat /\ sessions[mapped].refs >= 1
           /\ sessions[mapped].refs <= Cardinality(Clients) /\ Cardinality(Clients) \in Nat
           /\ Cardinality(HoldersNext(mapped)) \in Nat
           /\ sessions[mapped].refs - 1 <= Cardinality(HoldersNext(mapped))
           /\ created = 1 => sessions[mapped].refs - 1 = Cardinality(HoldersNext(mapped))
<1>1. /\ SessTypeOK /\ c \in Actors /\ mapped \in Objects /\ sessions[mapped] \in SessionRecord
      /\ mapped \in 1 .. created /\ actors[c].mine \in 1 .. created
  BY RecordTypes DEF SessInv, SessTypeOK, Standing
<1>2. /\ sessions[mapped].refs \in Nat /\ sessions[mapped].refs >= 1
      /\ sessions[mapped].refs <= Cardinality(Clients) /\ Cardinality(Clients) \in Nat
  BY <1>1, HoldersFinite DEF SessTypeOK, SessionRecord
<1>3. /\ sessions[mapped].refs <= Cardinality(Holders(mapped))
      /\ created = 1 => sessions[mapped].refs = Cardinality(Holders(mapped))
      /\ Cardinality(Holders(mapped)) \in Nat
  BY HoldersFinite DEF SessInv, RefsWithin
<1>4. \A b \in Clients : b # c => actors'[b].mine = actors[b].mine
  BY DEF Actors
<1>5. CASE actors[c].mine = mapped
  <2>1. Cardinality(HoldersNext(mapped)) = Cardinality(Holders(mapped)) - 1
    BY <1>4, <1>5, HolderLeaves
  <2> QED
    BY <1>2, <1>3, <2>1
<1>6. CASE actors[c].mine # mapped
  <2>1. created # 1
    BY <1>1, <1>6
  <2>2. \A b \in Clients : actors[b].mine = mapped <=> actors'[b].mine = mapped
    BY <1>4, <1>6
  <2> QED
    BY <1>2, <1>3, <2>1, <2>2, HoldersStay
<1> QED
  BY <1>5, <1>6

\* A close that is not the last one leaves the session to the others.
LEMMA CloseOneKeeps ==
    ASSUME SessInv, NEW c \in Clients, Close(c), mapped # 0, sessions[mapped].refs > 1
    PROVE  SessInv'
<1> DEFINE s == [sessions[mapped] EXCEPT !.refs = sessions[mapped].refs - 1, !.closed = FALSE]
<1>1. /\ c \in Actors /\ SessTypeOK /\ actors[c].pc = "watching" /\ mapped \in Objects
      /\ sessions[mapped] \in SessionRecord /\ mapped \in 1 .. created
  BY RecordTypes DEF SessInv, Close, SessTypeOK
<1>2. sessions[mapped].refs \in Int
  BY <1>1, HoldersFinite DEF SessionRecord
<1>3. /\ actors' = [actors EXCEPT ![c] = Away] /\ UNCHANGED <<mapped, created, dir, held>>
      /\ sessions' = [sessions EXCEPT ![mapped] = s]
  <2>1. (sessions[mapped].refs <= 1) = FALSE
    BY <1>2
  <2> QED
    BY <2>1 DEF Close
<1>4. /\ actors' \in [Actors -> ActorRecord] /\ actors'[c] = Away
      /\ \A b \in Actors : b # c => actors'[b] = actors[b]
  BY <1>1, <1>3, AwayIs, ActorMoves
<1>5. /\ sessions[mapped].refs <= Cardinality(Clients) /\ Cardinality(Clients) \in Nat
      /\ Cardinality(HoldersNext(mapped)) \in Nat
      /\ sessions[mapped].refs - 1 <= Cardinality(HoldersNext(mapped))
      /\ created = 1 => sessions[mapped].refs - 1 = Cardinality(HoldersNext(mapped))
  BY <1>1, <1>4, AwayIs, CloseCounts
<1>6. s \in SessionRecord /\ s.refs = sessions[mapped].refs - 1 /\ s.closed = FALSE
  <2>1. sessions[mapped].refs - 1 \in 0 .. Cardinality(Clients)
    BY <1>2, <1>5
  <2> QED
    BY <1>1, <2>1 DEF SessionRecord
<1> HIDE DEF s
<1>7. /\ sessions' \in [Objects -> SessionRecord] /\ sessions'[mapped] = s
      /\ \A p \in Objects : p # mapped => sessions'[p] = sessions[p]
  BY <1>1, <1>3, <1>6, ObjectChanges
<1>8. SessTypeOK'
  <2>1. ~sessions'[mapped].closed /\ sessions'[mapped].refs >= 1
    BY <1>2, <1>6, <1>7
  <2> QED
    BY <1>1, <1>3, <1>4, <1>7, <2>1 DEF SessTypeOK
<1>9. Standing'
  BY <1>3, <1>4, AwayIs DEF SessInv, Standing, SessTypeOK
<1>10. EndsUnlinked'
  BY <1>3, <1>4, AwayIs DEF SessInv, EndsUnlinked
<1>11. OpenIsOwned'
  <2>1. SUFFICES ASSUME NEW o \in 1 .. created, o # mapped,
                        ~sessions'[o].closed \/ sessions'[o].encoder
                 PROVE  Stopping(o)'
    BY <1>3 DEF OpenIsOwned
  <2>2. o \in Objects /\ sessions'[o] = sessions[o]
    BY <1>1, <1>7, <2>1, RecordTypes
  <2>3. Stopping(o)
    BY <2>1, <2>2 DEF SessInv, OpenIsOwned
  <2> QED
    BY <1>1, <1>4, <2>3 DEF Stopping
<1>12. Unmade'
  <2>1. \A o \in Objects : o > created => o # mapped
    BY <1>1 DEF SessTypeOK
  <2> QED
    BY <1>3, <1>7, <2>1 DEF SessInv, Unmade
<1>13. RefsWithin'
  <2>1. Holders(mapped)' = HoldersNext(mapped)
    BY <1>3 DEF Holders, HoldersNext
  <2> QED
    BY <1>3, <1>5, <1>6, <1>7, <2>1 DEF RefsWithin
<1>14. DirectoryOwned'
  BY <1>3 DEF DirectoryOwned
<1> QED
  BY <1>8, <1>9, <1>10, <1>11, <1>12, <1>13, <1>14 DEF SessInv

\* Taking an object out of the map by one that goes on to stop it.
LEMMA UnlinkKeeps ==
    ASSUME SessInv, NEW a \in Actors, mapped # 0, actors[a].pc \in {"watching", "discard"},
           mapped' = 0, UNCHANGED <<created, dir, held>>,
           NEW r \in ActorRecord, actors' = [actors EXCEPT ![a] = r],
           r.pc = "stop", r.ends = mapped, r.mine = 0, r.then \in {"probe", "release"},
           sessions' \in [Objects -> SessionRecord],
           \A p \in Objects : p # mapped => sessions'[p] = sessions[p]
    PROVE  SessInv'
<1>1. SessTypeOK /\ mapped \in Objects /\ mapped \in 1 .. created /\ created \in Nat
  BY RecordTypes DEF SessInv, SessTypeOK
<1>2. /\ actors' \in [Actors -> ActorRecord] /\ actors'[a] = r
      /\ \A b \in Actors : b # a => actors'[b] = actors[b]
  BY <1>1, ActorMoves
<1>3. SessTypeOK'
  BY <1>1, <1>2 DEF SessTypeOK
<1>4. Standing'
  BY <1>1, <1>2 DEF SessInv, Standing
<1>5. EndsUnlinked'
  BY <1>1, <1>2 DEF SessInv, EndsUnlinked
<1>6. OpenIsOwned'
  <2>1. SUFFICES ASSUME NEW o \in 1 .. created, ~sessions'[o].closed \/ sessions'[o].encoder
                 PROVE  Stopping(o)'
    BY DEF OpenIsOwned
  <2>2. CASE o = mapped
    BY <1>2, <2>2 DEF Stopping
  <2>3. CASE o # mapped
    <3>1. o \in Objects /\ sessions'[o] = sessions[o]
      BY <1>1, <2>1, <2>3, RecordTypes
    <3>2. Stopping(o)
      BY <2>1, <2>3, <3>1 DEF SessInv, OpenIsOwned
    <3> QED
      BY <1>2, <3>2 DEF Stopping
  <2> QED
    BY <2>2, <2>3
<1>7. Unmade'
  <2>1. \A o \in Objects : o > created => o # mapped
    BY <1>1 DEF SessTypeOK
  <2> QED
    BY <2>1 DEF SessInv, Unmade
<1>8. RefsWithin'
  BY DEF RefsWithin
<1>9. DirectoryOwned'
  BY <1>2 DEF DirectoryOwned
<1> QED
  BY <1>3, <1>4, <1>5, <1>6, <1>7, <1>8, <1>9 DEF SessInv

\* The last close.
LEMMA CloseLastKeeps ==
    ASSUME SessInv, NEW c \in Clients, Close(c), mapped # 0, sessions[mapped].refs <= 1
    PROVE  SessInv'
<1> DEFINE s == [sessions[mapped] EXCEPT !.refs = sessions[mapped].refs - 1, !.closed = TRUE]
           r == [Away EXCEPT !.pc = "stop", !.ends = mapped, !.then = "release"]
<1>1. /\ c \in Actors /\ SessTypeOK /\ actors[c].pc = "watching" /\ mapped \in Objects
      /\ sessions[mapped] \in SessionRecord
  BY RecordTypes DEF SessInv, Close
<1>2. sessions[mapped].refs \in Int /\ sessions[mapped].refs = 1 /\ Cardinality(Clients) \in Nat
  BY <1>1, HoldersFinite DEF SessionRecord, SessTypeOK
<1>3. /\ actors' = [actors EXCEPT ![c] = r] /\ mapped' = 0 /\ UNCHANGED <<created, dir, held>>
      /\ sessions' = [sessions EXCEPT ![mapped] = s]
  <2>1. (sessions[mapped].refs <= 1) = TRUE
    BY <1>2
  <2> QED
    BY <2>1 DEF Close
<1>4. /\ r \in ActorRecord /\ r.pc = "stop" /\ r.ends = mapped /\ r.mine = 0
      /\ r.then = "release"
  <2>1. mapped \in 0 .. MaxSessions
    BY <1>1, SessionsAssumption DEF Objects
  <2> QED
    BY <2>1, AwayIs DEF ActorRecord
<1>5. s \in SessionRecord
  <2>1. sessions[mapped].refs - 1 \in 0 .. Cardinality(Clients)
    BY <1>2
  <2> QED
    BY <1>1, <2>1 DEF SessionRecord
<1> HIDE DEF s, r
<1>6. /\ sessions' \in [Objects -> SessionRecord]
      /\ \A p \in Objects : p # mapped => sessions'[p] = sessions[p]
  BY <1>1, <1>3, <1>5, ObjectChanges
<1> QED
  BY <1>1, <1>3, <1>4, <1>6, UnlinkKeeps

LEMMA CloseKeeps ==
    ASSUME SessInv, NEW c \in Clients, Close(c)
    PROVE  SessInv'
<1>1. mapped # 0 => sessions[mapped].refs \in Int
  BY RecordTypes, HoldersFinite DEF SessInv, SessionRecord
<1> QED
  BY <1>1, CloseMissedKeeps, CloseOneKeeps, CloseLastKeeps
-----------------------------------------------------------------------------
(* The teardown.                                                           *)

LEMMA DiscardKeeps ==
    ASSUME SessInv, NEW a \in Actors, Discard(a)
    PROVE  SessInv'
<1> DEFINE pc == IF mapped = 0 THEN actors[a].then ELSE "stop"
           r == [actors[a] EXCEPT !.pc = pc, !.ends = mapped]
<1>1. /\ SessTypeOK /\ actors[a] \in ActorRecord /\ actors[a].pc = "discard"
      /\ actors[a].mine = 0 /\ actors[a].then \in {"probe", "release"}
      /\ mapped \in 0 .. MaxSessions
  BY RecordTypes, SessionsAssumption DEF SessInv, Discard, Standing, Objects
<1>2. pc \in {"probe", "release", "stop"} /\ (mapped = 0 <=> pc # "stop")
  BY <1>1
<1>3. /\ actors' = [actors EXCEPT ![a] = r] /\ mapped' = 0
      /\ UNCHANGED <<sessions, created, dir, held>>
  BY <1>1 DEF Discard, ActorRecord
<1> HIDE DEF pc
<1>4. /\ actors' \in [Actors -> ActorRecord] /\ actors'[a].pc = pc /\ actors'[a].ends = mapped
      /\ actors'[a].mine = 0 /\ actors'[a].then = actors[a].then
      /\ \A b \in Actors : b # a => actors'[b] = actors[b]
  <2>1. pc \in {"away", "discard", "probe", "mkdir", "publish", "hold", "watching",
                "gone", "stop", "owner", "remove", "release"}
    BY <1>2
  <2>2. r \in ActorRecord /\ r.pc = pc /\ r.ends = mapped /\ r.mine = 0 /\ r.then = actors[a].then
    BY <1>1, <2>1 DEF ActorRecord
  <2> HIDE DEF r
  <2>3. /\ actors' \in [Actors -> ActorRecord] /\ actors'[a] = r
        /\ \A b \in Actors : b # a => actors'[b] = actors[b]
    BY <1>1, <1>3, <2>2, ActorMoves
  <2> QED BY <2>2, <2>3
<1>5. CASE mapped = 0
  <2>1. EndsUnlinked' /\ OpenIsOwned' /\ Unmade' /\ RefsWithin'
    BY <1>1, <1>2, <1>3, <1>4, <1>5, QuietStep
  <2>2. SessTypeOK'
    BY <1>1, <1>3, <1>4, <1>5 DEF SessTypeOK
  <2>3. Standing'
    BY <1>1, <1>2, <1>3, <1>4, <1>5 DEF SessInv, Standing, SessTypeOK
  <2>4. DirectoryOwned'
    BY <1>1, <1>3, <1>4, <1>5 DEF SessInv, DirectoryOwned
  <2> QED
    BY <2>1, <2>2, <2>3, <2>4 DEF SessInv
<1>6. CASE mapped # 0
  <2>1. r \in ActorRecord /\ r.pc = "stop" /\ r.ends = mapped /\ r.mine = 0 /\ r.then \in {"probe", "release"}
    BY <1>1, <1>2, <1>6 DEF ActorRecord
  <2>2. sessions' \in [Objects -> SessionRecord] /\ \A p \in Objects : p # mapped => sessions'[p] = sessions[p]
    BY <1>1, <1>3 DEF SessTypeOK
  <2> HIDE DEF r
  <2> QED
    BY <1>1, <1>3, <1>6, <2>1, <2>2, UnlinkKeeps
<1> QED
  BY <1>5, <1>6

LEMMA StopKeeps ==
    ASSUME SessInv, NEW a \in Actors, Stop(a)
    PROVE  SessInv'
<1> DEFINE e == actors[a].ends
           s == [NoSession EXCEPT !.closed = TRUE]
<1>1. /\ SessTypeOK /\ actors[a] \in ActorRecord /\ actors[a].pc = "stop"
      /\ NoSession \in SessionRecord
  BY RecordTypes DEF SessInv, Stop
<1>2. e \in Objects /\ e \in 1 .. created /\ e # mapped
  BY <1>1, RecordTypes DEF SessInv, EndsUnlinked
<1>3. s \in SessionRecord /\ s.closed = TRUE /\ s.encoder = FALSE
  <2>1. NoSession.encoder = FALSE
    BY DEF NoSession
  <2> QED
    BY <1>1, <2>1 DEF SessionRecord
<1>4. actors' = [actors EXCEPT ![a] = [actors[a] EXCEPT !.pc = "owner", !.ends = actors[a].ends]]
  BY <1>1 DEF Stop, SessGoto, ActorRecord
<1>5. /\ actors' \in [Actors -> ActorRecord] /\ actors'[a].pc = "owner"
      /\ actors'[a].mine = actors[a].mine /\ actors'[a].then = actors[a].then
      /\ \A b \in Actors : b # a => actors'[b] = actors[b]
  BY <1>1, <1>4, ActorGoes DEF ActorRecord
<1>6. sessions' = [sessions EXCEPT ![e] = s] /\ UNCHANGED <<mapped, created, dir, held>>
  BY DEF Stop
<1> HIDE DEF e, s
<1>7. /\ sessions' \in [Objects -> SessionRecord] /\ sessions'[e] = s
      /\ \A p \in Objects : p # e => sessions'[p] = sessions[p]
  BY <1>1, <1>2, <1>3, <1>6, ObjectChanges
<1>8. mapped # 0 => mapped \in Objects /\ sessions'[mapped] = sessions[mapped]
  BY <1>1, <1>2, <1>7, RecordTypes
<1>9. SessTypeOK'
  BY <1>1, <1>5, <1>6, <1>7, <1>8 DEF SessTypeOK
<1>10. Standing'
  BY <1>1, <1>5, <1>6 DEF SessInv, Standing
<1>11. EndsUnlinked'
  BY <1>5, <1>6 DEF SessInv, EndsUnlinked
<1>12. OpenIsOwned'
  <2>1. SUFFICES ASSUME NEW o \in 1 .. created, o # mapped,
                        ~sessions'[o].closed \/ sessions'[o].encoder
                 PROVE  Stopping(o)'
    BY <1>6 DEF OpenIsOwned
  <2>2. o \in Objects /\ o # e
    BY <1>1, <1>3, <1>7, <2>1, RecordTypes
  <2>3. Stopping(o)
    BY <1>7, <2>1, <2>2 DEF SessInv, OpenIsOwned
  <2>4. PICK b \in Actors : actors[b].pc = "stop" /\ actors[b].ends = o
    BY <2>3 DEF Stopping
  <2>5. b # a
    BY <2>2, <2>4 DEF e
  <2> QED
    BY <1>5, <2>4, <2>5 DEF Stopping
<1>13. Unmade'
  <2>1. \A o \in Objects : o > created => o # e
    BY <1>1, <1>2 DEF SessTypeOK
  <2> QED
    BY <1>6, <1>7, <2>1 DEF SessInv, Unmade
<1>14. RefsWithin'
  <2>1. \A b \in Clients : actors'[b].mine = actors[b].mine
    BY <1>5 DEF Actors
  <2>2. Holders(mapped)' = Holders(mapped)
    BY <1>6, <2>1 DEF Holders
  <2> QED
    BY <1>6, <1>8, <2>2 DEF SessInv, RefsWithin
<1>15. DirectoryOwned'
  BY <1>5 DEF DirectoryOwned
<1> QED
  BY <1>9, <1>10, <1>11, <1>12, <1>13, <1>14, <1>15 DEF SessInv

LEMMA OwnerKeeps ==
    ASSUME SessInv, NEW a \in Actors, Owner(a)
    PROVE  SessInv'
<1> DEFINE r == IF mapped = 0 THEN [actors[a] EXCEPT !.pc = "remove"]
                ELSE IF a \in Clients /\ actors[a].then = "release" THEN Away
                ELSE [actors[a] EXCEPT !.pc = actors[a].then, !.ends = 0]
<1>1. /\ SessTypeOK /\ actors[a] \in ActorRecord /\ actors[a].pc = "owner"
      /\ \/ actors[a].then \in {"probe", "release"} /\ actors[a].mine = 0
         \/ actors[a].then = "hold" /\ actors[a].mine # 0
  BY RecordTypes DEF SessInv, Owner, Standing
<1>2. actors' = [actors EXCEPT ![a] = r] /\ UNCHANGED <<mapped, sessions, created, dir, held>>
  BY DEF Owner
<1>3. /\ r \in ActorRecord /\ r.mine = actors[a].mine
      /\ mapped = 0 => r.pc = "remove" /\ r.then = actors[a].then
      /\ mapped # 0 => \/ r.pc \in {"away", "probe", "release"} /\ r.mine = 0
                       \/ r.pc = "hold" /\ r.mine # 0
  <2>1. CASE mapped = 0
    BY <1>1, <2>1 DEF ActorRecord
  <2>2. CASE mapped # 0 /\ a \in Clients /\ actors[a].then = "release"
    BY <1>1, <2>2, AwayIs
  <2>3. CASE mapped # 0 /\ ~(a \in Clients /\ actors[a].then = "release")
    <3>1. actors[a].then \in {"probe", "release", "hold"} /\ 0 \in 0 .. MaxSessions
      BY <1>1, SessionsAssumption
    <3> QED
      BY <1>1, <2>3, <3>1 DEF ActorRecord
  <2> QED
    BY <2>1, <2>2, <2>3
<1> HIDE DEF r
<1>4. /\ actors' \in [Actors -> ActorRecord] /\ actors'[a] = r
      /\ \A b \in Actors : b # a => actors'[b] = actors[b]
  BY <1>1, <1>2, <1>3, ActorMoves
<1>5. r.pc # "stop"
  BY <1>3
<1>6. EndsUnlinked' /\ OpenIsOwned' /\ Unmade' /\ RefsWithin'
  BY <1>1, <1>2, <1>3, <1>4, <1>5, QuietStep
<1>7. SessTypeOK'
  BY <1>1, <1>2, <1>4 DEF SessTypeOK
<1>8. Standing'
  <2>1. \A b \in Actors : b # a => actors'[b] = actors[b]
    BY <1>4
  <2>2. CASE mapped = 0
    BY <1>1, <1>2, <1>3, <1>4, <2>2 DEF SessInv, Standing
  <2>3. CASE mapped # 0
    BY <1>1, <1>2, <1>3, <1>4, <2>3 DEF SessInv, Standing
  <2> QED
    BY <2>2, <2>3
<1>9. DirectoryOwned'
  BY <1>2, <1>3, <1>4 DEF DirectoryOwned
<1> QED
  BY <1>6, <1>7, <1>8, <1>9 DEF SessInv

LEMMA RemoveAllKeeps ==
    ASSUME SessInv, NEW a \in Actors, RemoveAll(a)
    PROVE  SessInv'
<1>1. /\ SessTypeOK /\ actors[a] \in ActorRecord /\ actors[a].pc = "remove"
      /\ \/ actors[a].then \in {"probe", "release"} /\ actors[a].mine = 0
         \/ actors[a].then = "hold" /\ actors[a].mine # 0
      /\ 0 \in 0 .. MaxSessions
  BY RecordTypes, SessionsAssumption DEF SessInv, RemoveAll, Standing
<1>2. /\ actors' = [actors EXCEPT ![a] = [actors[a] EXCEPT !.pc = actors[a].then, !.ends = 0]]
      /\ dir' = FALSE /\ UNCHANGED <<mapped, sessions, created, held>>
  BY <1>1 DEF RemoveAll, ActorRecord
<1>3. /\ actors' \in [Actors -> ActorRecord] /\ actors'[a].pc = actors[a].then
      /\ actors'[a].mine = actors[a].mine
      /\ \A b \in Actors : b # a => actors'[b] = actors[b]
  BY <1>1, <1>2, ActorGoes
<1>4. EndsUnlinked' /\ OpenIsOwned' /\ Unmade' /\ RefsWithin'
  BY <1>1, <1>2, <1>3, QuietStep
<1>5. SessTypeOK'
  BY <1>1, <1>2, <1>3 DEF SessTypeOK
<1>6. Standing'
  BY <1>1, <1>2, <1>3 DEF SessInv, Standing
<1>7. DirectoryOwned'
  BY <1>2 DEF DirectoryOwned
<1> QED
  BY <1>4, <1>5, <1>6, <1>7 DEF SessInv

LEMMA ReleaseKeeps ==
    ASSUME SessInv, NEW a \in Actors, Release(a)
    PROVE  SessInv'
<1>1. SessTypeOK /\ actors[a].pc = "release" /\ actors[a].mine = 0
  BY DEF SessInv, Release, Standing
<1>2. /\ actors' = [actors EXCEPT ![a] = Away] /\ held' = FALSE
      /\ UNCHANGED <<mapped, sessions, created, dir>>
  BY DEF Release
<1>3. /\ actors' \in [Actors -> ActorRecord] /\ actors'[a] = Away
      /\ \A b \in Actors : b # a => actors'[b] = actors[b]
  BY <1>1, <1>2, AwayIs, ActorMoves
<1>4. EndsUnlinked' /\ OpenIsOwned' /\ Unmade' /\ RefsWithin'
  BY <1>1, <1>2, <1>3, AwayIs, QuietStep
<1>5. SessTypeOK'
  BY <1>1, <1>2, <1>3 DEF SessTypeOK
<1>6. Standing'
  BY <1>2, <1>3, AwayIs DEF SessInv, Standing, SessTypeOK
<1>7. DirectoryOwned'
  BY <1>1, <1>2, <1>3 DEF SessInv, DirectoryOwned
<1> QED
  BY <1>4, <1>5, <1>6, <1>7 DEF SessInv
-----------------------------------------------------------------------------
(* The theorems.                                                           *)

LEMMA SessInvInit ==
    SessInit => SessInv
<1> SUFFICES ASSUME SessInit PROVE SessInv
  OBVIOUS
<1>1. Cardinality(Clients) \in Nat
  BY PagesAssumption, FS_CardinalityType
<1>2. NoSession \in SessionRecord
  BY <1>1 DEF NoSession, SessionRecord
<1>3. SessTypeOK
  <2>1. sessions \in [Objects -> SessionRecord]
    BY <1>2 DEF SessInit
  <2>2. actors \in [Actors -> ActorRecord]
    BY AwayIs DEF SessInit
  <2>3. mapped = 0 /\ created = 0 /\ dir \in BOOLEAN /\ held \in BOOLEAN
    BY DEF SessInit
  <2> QED
    BY <2>1, <2>2, <2>3, SessionsAssumption DEF SessTypeOK
<1>4. \A a \in Actors : actors[a] = Away
  BY DEF SessInit
<1>5. Standing /\ EndsUnlinked
  BY <1>4, AwayIs DEF SessInit, Standing, EndsUnlinked
<1>6. OpenIsOwned /\ Unmade
  BY DEF SessInit, OpenIsOwned, Unmade
<1>7. RefsWithin /\ DirectoryOwned
  BY DEF SessInit, RefsWithin, DirectoryOwned
<1> QED
  BY <1>3, <1>5, <1>6, <1>7 DEF SessInv

LEMMA SessInvNext ==
    SessInv /\ [SessNext]_sessVars => SessInv'
<1> SUFFICES ASSUME SessInv, [SessNext]_sessVars PROVE SessInv'
  OBVIOUS
<1>1. CASE UNCHANGED sessVars
  BY <1>1 DEF sessVars, SessInv, SessTypeOK, Standing, EndsUnlinked, OpenIsOwned, Stopping,
              Unmade, RefsWithin, Holders, DirectoryOwned
<1>2. CASE \E c \in Clients, source \in Sources : OpenShared(c, source) \/ OpenFresh(c, source)
  BY <1>2, SharedKeeps, OpenFreshKeeps
<1>3. ASSUME NEW c \in Clients, Opening(c) \/ Request(c) \/ Vanish(c) \/ Close(c)
      PROVE  SessInv'
  <2>1. CASE Opening(c)
    BY <2>1, ProbeKeeps, MkdirKeeps, SharedKeeps, PublishFreshKeeps, HoldKeeps DEF Opening
  <2> QED
    BY <1>3, <2>1, WatchingKeeps, VanishKeeps, CloseKeeps
<1>4. CASE (\E o \in Objects : StartEncoder(o)) \/ SessionIdle \/ ListStale
  BY <1>4, WatchingKeeps, ListStaleKeeps
<1>5. CASE \E a \in Actors : Teardown(a)
  BY <1>5, DiscardKeeps, StopKeeps, OwnerKeeps, RemoveAllKeeps, ReleaseKeeps DEF Teardown
<1> QED
  BY <1>1, <1>2, <1>3, <1>4, <1>5 DEF SessNext

\* The inductive invariant of the sessions of an episode (hls.go Manager): holders, teardown
\* and directory always belong to somebody.
THEOREM SessInvariant == SessSpec => []SessInv
<1> QED
  BY SessInvInit, SessInvNext, PTL DEF SessSpec

\* What the run checks on three pages, for any number of them: a session counts its pages,
\* an encoder outlives its session only until the stop under way, and the directory of an
\* episode without a session is gone (hls.go OpenProbing, Close, Reap, discardSession).
THEOREM SessionsStaySafe == SessSpec => []SessSafe
<1>1. SessInv => SessSafe
  <2> SUFFICES ASSUME SessInv PROVE SessSafe
    OBVIOUS
  <2>1. RefsAreHolders
    BY DEF SessInv, RefsWithin, Holders, RefsAreHolders
  <2>2. EncoderIsOwned
    <3>1. SUFFICES ASSUME NEW o \in Objects, sessions[o].encoder, o # mapped
                   PROVE  Stopping(o)
      BY DEF EncoderIsOwned, Stopping
    <3>2. created \in Nat /\ o \in Nat /\ o >= 1
      BY SessionsAssumption DEF SessInv, SessTypeOK, Objects
    <3>3. ~(o > created)
      BY <3>1 DEF SessInv, Unmade, NoSession
    <3>4. o \in 1 .. created
      BY <3>2, <3>3
    <3> QED
      BY <3>1, <3>4 DEF SessInv, OpenIsOwned
  <2>3. DirectoryCleaned
    BY DEF SessInv, DirectoryOwned, DirectoryCleaned, Settled
  <2> QED
    BY <2>1, <2>2, <2>3 DEF SessInv, SessSafe
<1> QED
  BY <1>1, SessInvariant, PTL

-----------------------------------------------------------------------------
(* The engine's client.                                                    *)

TorStates == {"absent", "initializing", "live", "paused", "error"}
LiveStages == {"idle", "wait", "tail", "head", "done", "failed"}
HoldStages == {"idle", "wait", "whole", "failed", "paused", "stalled"}
TorShape == tor \in [state : TorStates, got : SUBSET Parts, onDisk : SUBSET Parts]
LiveShape == live \in [at : LiveStages, left : 0 .. LivePolls, resumed : BOOLEAN, verified : Nat]
HoldShape == hold \in [at : HoldStages, best : Nat, quiet : 0 .. StallPolls]

(* Nothing is verified that is not on disk, and no wait has seen more than is there. *)
SeenIsThere ==
  /\ tor.got \subseteq tor.onDisk
  /\ hold.best <= Cardinality(tor.onDisk)
  /\ live.verified <= Cardinality(tor.onDisk)
(* A wait that goes on has polls left, one given up as stalled has none, and one that has not
   begun has seen nothing. *)
PollsLeft ==
  /\ live.at = "wait" => live.left > 0
  /\ live.at = "idle" => live.verified = 0
  /\ hold.at = "wait" => hold.quiet < StallPolls
  /\ hold.at = "stalled" => hold.quiet = StallPolls
  /\ hold.at = "idle" => hold.best = 0 /\ hold.quiet = 0
(* The tail is read before the head, and what was read is on disk. *)
ReadIsThere ==
  /\ live.at = "head" => "tail" \in tor.onDisk
  /\ live.at = "done" => {"head", "tail"} \subseteq tor.onDisk
(* No wait is under way on a torrent the engine was not given. *)
NoneOnAbsent == tor.state = "absent" => live.at = "idle" /\ hold.at = "idle"
ClientShape == TorShape /\ LiveShape /\ HoldShape
ClientInv ==
  ClientShape /\ SeenIsThere /\ PollsLeft /\ ReadIsThere /\ NoneOnAbsent /\ MarkedForCause

-----------------------------------------------------------------------------
(* A set of parts is finite, and a larger one counts no less. *)
LEMMA PartsCount ==
  /\ \A S \in SUBSET Parts : Cardinality(S) \in Nat
  /\ \A S, T \in SUBSET Parts : S \subseteq T => Cardinality(S) <= Cardinality(T)
<1>1. IsFiniteSet(Parts)
  <2>1. IsFiniteSet({"head"})
    BY FS_Singleton
  <2>2. Parts = {"head"} \cup {"tail"}
    BY DEF Parts
  <2>. QED BY <2>1, <2>2, FS_AddElement
<1>2. \A S \in SUBSET Parts : IsFiniteSet(S)
  BY <1>1, FS_Subset
<1>. QED
  BY <1>2, FS_CardinalityType, FS_Subset

(* Steps of others, and the callers' own, that leave both waits as they are and take nothing
   off the disk. *)
LEMMA TorrentStepKeeps ==
  ASSUME ClientInv, TorShape', UNCHANGED <<bad, lied, live, hold>>,
         tor.onDisk \subseteq tor'.onDisk, tor'.got \subseteq tor'.onDisk,
         tor'.state = "absent" => tor.state = "absent"
  PROVE  ClientInv'
<1>1. ClientShape'
  BY DEF ClientInv, ClientShape, LiveShape, HoldShape
<1>2. /\ Cardinality(tor.onDisk) \in Nat /\ Cardinality(tor'.onDisk) \in Nat
      /\ Cardinality(tor.onDisk) <= Cardinality(tor'.onDisk)
  <2>1. tor.onDisk \in SUBSET Parts /\ tor'.onDisk \in SUBSET Parts
    BY DEF ClientInv, ClientShape, TorShape
  <2>. QED BY <2>1, PartsCount
<1>3. hold.best \in Nat /\ live.verified \in Nat
  BY DEF ClientInv, ClientShape, LiveShape, HoldShape
<1>4. SeenIsThere'
  BY <1>2, <1>3 DEF ClientInv, SeenIsThere
<1>5. PollsLeft' /\ ReadIsThere' /\ NoneOnAbsent' /\ MarkedForCause'
  BY DEF ClientInv, PollsLeft, ReadIsThere, NoneOnAbsent, MarkedForCause
<1>. QED BY <1>1, <1>4, <1>5 DEF ClientInv

LEMMA OthersKeep ==
  ASSUME ClientInv,
         (\E p \in Parts : Piece(p) \/ CheckPiece(p)) \/ CheckOver \/ Others \/ SweepPauses
  PROVE  ClientInv'
<1>0. TorShape /\ tor.got \subseteq tor.onDisk
  BY DEF ClientInv, ClientShape, SeenIsThere
<1>1. CASE \E p \in Parts : Piece(p)
  <2>1. PICK p \in Parts : Piece(p)
    BY <1>1
  <2>2. /\ tor'.got = tor.got \cup {p} /\ tor'.onDisk = tor.onDisk \cup {p} /\ tor'.state = tor.state
        /\ UNCHANGED <<bad, lied, live, hold>>
    BY <1>0, <2>1 DEF Piece, TorShape
  <2>3. TorShape'
    BY <1>0, <2>1 DEF Piece, TorShape
  <2>. QED BY <1>0, <2>2, <2>3, TorrentStepKeeps
<1>2. CASE \E p \in Parts : CheckPiece(p)
  BY <1>0, <1>2, TorrentStepKeeps DEF CheckPiece, TorShape
<1>3. CASE CheckOver
  BY <1>0, <1>3, TorrentStepKeeps DEF CheckOver, TorShape, TorStates
<1>4. CASE Others
  BY <1>0, <1>4, TorrentStepKeeps DEF Others, TorShape, TorStates
<1>5. CASE SweepPauses
  BY <1>0, <1>5, TorrentStepKeeps DEF SweepPauses, TorShape, TorStates
<1>. QED BY <1>1, <1>2, <1>3, <1>4, <1>5

(* Inspect: a mark is left only with its cause. *)
LEMMA InspectKeeps ==
  ASSUME ClientInv, NEW c \in ECallers,
         \/ InspectMagnet(c) \/ InspectPicked(c) \/ InspectAnswers(c) \/ CallerLeaves(c) \/ MarkExpires
         \/ \E why \in {"swarm", "engine", "cancel"} : InspectFails(c, why)
  PROVE  ClientInv'
<1>1. UNCHANGED <<tor, live, hold>>
  BY DEF InspectMagnet, InspectPicked, InspectAnswers, CallerLeaves, InspectFails, MarkExpires
<1>2. MarkedForCause'
  BY DEF ClientInv, MarkedForCause, InspectMagnet, InspectPicked, InspectAnswers, CallerLeaves,
         InspectFails, MarkExpires
<1>. QED
  BY <1>1, <1>2 DEF ClientInv, ClientShape, TorShape, LiveShape, HoldShape, SeenIsThere, PollsLeft,
                    ReadIsThere, NoneOnAbsent

(* Add: nothing waits on the torrent yet, so whatever is on disk is more than was seen. *)
LEMMA AddKeeps ==
  ASSUME ClientInv, AddRelease
  PROVE  ClientInv'
<1>1. PICK d \in SUBSET Parts : tor' = [state |-> "initializing", got |-> {}, onDisk |-> d]
  BY DEF AddRelease
<1>2. UNCHANGED <<bad, lied, live, hold>> /\ tor.state = "absent"
  BY DEF AddRelease
<1>3. live.verified = 0 /\ hold.best = 0 /\ live.at = "idle" /\ hold.at = "idle"
  BY <1>2 DEF ClientInv, NoneOnAbsent, PollsLeft
<1>4. ClientShape'
  BY <1>1, <1>2 DEF ClientInv, ClientShape, TorShape, LiveShape, HoldShape, TorStates
<1>5. Cardinality(d) \in Nat
  BY PartsCount
<1>6. SeenIsThere'
  BY <1>1, <1>2, <1>3, <1>5 DEF SeenIsThere
<1>7. PollsLeft' /\ ReadIsThere' /\ NoneOnAbsent' /\ MarkedForCause'
  BY <1>1, <1>2, <1>3 DEF ClientInv, PollsLeft, ReadIsThere, NoneOnAbsent, MarkedForCause
<1>. QED BY <1>4, <1>6, <1>7 DEF ClientInv

-----------------------------------------------------------------------------
(* Prewarm's steps change its own record only, and may resume the torrent. *)
LEMMA LiveStepKeeps ==
  ASSUME ClientInv, LiveShape', TorShape', UNCHANGED <<bad, lied, hold>>,
         tor'.onDisk = tor.onDisk, tor'.got = tor.got, tor.state # "absent", tor'.state # "absent",
         live'.verified <= Cardinality(tor.onDisk), live'.at # "idle",
         live'.at = "wait" => live'.left > 0, ReadIsThere'
  PROVE  ClientInv'
<1>1. ClientShape'
  BY DEF ClientInv, ClientShape, HoldShape
<1>2. SeenIsThere'
  BY DEF ClientInv, SeenIsThere
<1>3. PollsLeft' /\ NoneOnAbsent' /\ MarkedForCause'
  BY DEF ClientInv, PollsLeft, NoneOnAbsent, MarkedForCause
<1>. QED BY <1>1, <1>2, <1>3 DEF ClientInv

LEMMA PrewarmKeeps ==
  ASSUME ClientInv, Prewarm
  PROVE  ClientInv'
<1>1. LiveShape' /\ TorShape'
  BY PollsAssumption DEF Prewarm, ClientInv, ClientShape, LiveShape, LiveStages, TorShape
<1>2. Cardinality(tor.onDisk) \in Nat
  BY PartsCount DEF ClientInv, ClientShape, TorShape
<1>. QED
  BY <1>1, <1>2, PollsAssumption, LiveStepKeeps DEF Prewarm, ReadIsThere

LEMMA PollLiveKeeps ==
  ASSUME ClientInv, PollLive
  PROVE  ClientInv'
<1>0. /\ TorShape /\ LiveShape /\ live.at = "wait" /\ live.left > 0 /\ tor.state # "absent"
      /\ live.verified <= Cardinality(tor.onDisk)
  BY DEF PollLive, ClientInv, ClientShape, PollsLeft, NoneOnAbsent, SeenIsThere
<1>1. /\ Progress(tor) \in Nat /\ Progress(tor) <= Cardinality(tor.onDisk)
  <2>1. tor.got \in SUBSET Parts /\ tor.onDisk \in SUBSET Parts /\ tor.got \subseteq tor.onDisk
    BY DEF ClientInv, ClientShape, TorShape, SeenIsThere
  <2>. QED BY <2>1, PartsCount DEF Progress
<1>2. /\ TorShape' /\ tor'.onDisk = tor.onDisk /\ tor'.got = tor.got /\ tor'.state # "absent"
      /\ UNCHANGED <<bad, lied, hold>>
  BY <1>0 DEF PollLive, TorShape, TorStates
<1>3. CASE tor.state = "error" \/ tor.state = "live" \/ Finished(tor)
  <2>1. /\ LiveShape' /\ live'.verified = live.verified /\ live'.at \in {"failed", "tail"}
    BY <1>0, <1>3 DEF PollLive, LiveShape, LiveStages
  <2>. QED
    BY <1>0, <1>2, <2>1, LiveStepKeeps DEF ReadIsThere
<1>4. CASE ~(tor.state = "error" \/ tor.state = "live" \/ Finished(tor))
  <2>. DEFINE climbs == tor.state = "initializing" /\ Progress(tor) > live.verified
              left == IF climbs THEN LivePolls ELSE live.left - 1
              resumes == tor.state = "paused" /\ ~live.resumed
  <2>1. live' = [live EXCEPT !.left = left, !.resumed = live.resumed \/ resumes,
                             !.verified = IF climbs THEN Progress(tor) ELSE live.verified,
                             !.at = IF left = 0 THEN "failed" ELSE "wait"]
    BY <1>4 DEF PollLive
  <2>2. left \in 0 .. LivePolls
    BY <1>0, PollsAssumption DEF LiveShape
  <2>3. /\ live'.left = left
        /\ live'.verified = (IF climbs THEN Progress(tor) ELSE live.verified)
        /\ live'.at = (IF left = 0 THEN "failed" ELSE "wait")
    BY <1>0, <2>1 DEF LiveShape
  <2>4. LiveShape'
    <3>1. (live.resumed \/ resumes) \in BOOLEAN
      OBVIOUS
    <3>2. (IF climbs THEN Progress(tor) ELSE live.verified) \in Nat
      BY <1>0, <1>1 DEF LiveShape
    <3>. HIDE DEF left, climbs, resumes
    <3>. QED BY <1>0, <2>1, <2>2, <3>1, <3>2 DEF LiveShape, LiveStages
  <2>5. live'.verified <= Cardinality(tor.onDisk)
    BY <1>0, <1>1, <2>3
  <2>6. live'.at \in {"failed", "wait"} /\ (live'.at = "wait" => live'.left > 0)
    <3>. HIDE DEF left
    <3>. QED BY <2>2, <2>3
  <2>. QED
    BY <1>0, <1>2, <2>4, <2>5, <2>6, LiveStepKeeps DEF ReadIsThere
<1>. QED BY <1>3, <1>4

LEMMA ReadKeeps ==
  ASSUME ClientInv, ReadPart("tail", "head") \/ ReadPart("head", "done")
  PROVE  ClientInv'
<1>0. /\ TorShape /\ LiveShape /\ live.verified <= Cardinality(tor.onDisk)
      /\ tor.got \subseteq tor.onDisk /\ tor.state # "absent"
  BY DEF ReadPart, ClientInv, ClientShape, NoneOnAbsent, SeenIsThere
<1>1. UNCHANGED <<tor, bad, lied, hold>>
  BY DEF ReadPart
<1>2. /\ LiveShape' /\ live'.verified = live.verified /\ live'.at \in {"head", "done", "failed"}
  BY <1>0 DEF ReadPart, LiveShape, LiveStages
<1>3. ReadIsThere'
  BY <1>0, <1>1 DEF ReadPart, ReadIsThere, ClientInv, LiveShape
<1>. QED
  BY <1>0, <1>1, <1>2, <1>3, LiveStepKeeps DEF TorShape

-----------------------------------------------------------------------------
(* Await's steps change its own record only. *)
LEMMA WaitKeeps ==
  ASSUME ClientInv, Await \/ PollHold
  PROVE  ClientInv'
<1>0. /\ TorShape /\ HoldShape /\ hold.best <= Cardinality(tor.onDisk)
      /\ (hold.at = "wait" => hold.quiet < StallPolls) /\ (hold.at = "idle" => hold.best = 0 /\ hold.quiet = 0)
  BY DEF ClientInv, ClientShape, SeenIsThere, PollsLeft
<1>1. UNCHANGED <<tor, bad, lied, live>> /\ tor.state # "absent"
  BY DEF Await, PollHold, ClientInv, NoneOnAbsent
<1>2. /\ Progress(tor) \in Nat /\ Progress(tor) <= Cardinality(tor.onDisk) /\ Cardinality(tor.onDisk) \in Nat
  <2>1. tor.got \in SUBSET Parts /\ tor.onDisk \in SUBSET Parts /\ tor.got \subseteq tor.onDisk
    BY DEF ClientInv, ClientShape, TorShape, SeenIsThere
  <2>. QED BY <2>1, PartsCount DEF Progress
<1>3. /\ HoldShape' /\ hold'.at # "idle" /\ hold'.best <= Cardinality(tor.onDisk)
      /\ (hold'.at = "wait" => hold'.quiet < StallPolls)
      /\ (hold'.at = "stalled" => hold'.quiet = StallPolls)
  <2>1. CASE Await
    BY <1>0, <2>1, PollsAssumption DEF Await, HoldShape, HoldStages
  <2>2. CASE PollHold
    <3>0. hold.at = "wait" /\ hold.quiet < StallPolls
      BY <1>0, <2>2 DEF PollHold
    <3>1. CASE hold'.at \in {"whole", "failed", "paused"} /\ hold' = [hold EXCEPT !.at = hold'.at]
      BY <1>0, <3>1 DEF HoldShape, HoldStages
    <3>2. CASE hold' = [hold EXCEPT !.best = Progress(tor), !.quiet = 0]
      <4>1. 0 \in 0 .. StallPolls /\ 0 < StallPolls
        BY PollsAssumption
      <4>2. /\ HoldShape' /\ hold'.at = hold.at /\ hold'.best = Progress(tor) /\ hold'.quiet = 0
        BY <1>0, <1>2, <3>2, <4>1 DEF HoldShape
      <4>. QED BY <1>2, <3>0, <4>1, <4>2
    <3>3. CASE hold' = [hold EXCEPT !.quiet = hold.quiet + 1,
                                    !.at = IF hold.quiet + 1 >= StallPolls THEN "stalled" ELSE "wait"]
      <4>. DEFINE q == hold.quiet + 1
                  at == IF q >= StallPolls THEN "stalled" ELSE "wait"
      <4>1. /\ q \in 0 .. StallPolls /\ at \in {"stalled", "wait"}
            /\ at = "wait" => q < StallPolls
            /\ at = "stalled" => q = StallPolls
        BY <1>0, <3>0, PollsAssumption DEF HoldShape
      <4>2. hold' = [hold EXCEPT !.quiet = q, !.at = at]
        BY <3>3
      <4>. HIDE DEF q, at
      <4>3. HoldShape' /\ hold'.at = at /\ hold'.quiet = q /\ hold'.best = hold.best
        BY <1>0, <4>1, <4>2 DEF HoldShape, HoldStages
      <4>. QED BY <1>0, <4>1, <4>3
    <3>4. \/ \E s \in {"whole", "failed", "paused"} : hold' = [hold EXCEPT !.at = s]
          \/ hold' = [hold EXCEPT !.best = Progress(tor), !.quiet = 0]
          \/ hold' = [hold EXCEPT !.quiet = hold.quiet + 1,
                                  !.at = IF hold.quiet + 1 >= StallPolls THEN "stalled" ELSE "wait"]
      BY <2>2 DEF PollHold
    <3>. QED BY <1>0, <3>1, <3>2, <3>3, <3>4 DEF HoldShape
  <2>. QED BY <2>1, <2>2
<1>4. ClientShape' /\ SeenIsThere'
  BY <1>1, <1>3 DEF ClientInv, ClientShape, TorShape, LiveShape, SeenIsThere
<1>5. PollsLeft' /\ ReadIsThere' /\ NoneOnAbsent' /\ MarkedForCause'
  BY <1>1, <1>3 DEF ClientInv, PollsLeft, ReadIsThere, NoneOnAbsent, MarkedForCause
<1>. QED BY <1>4, <1>5 DEF ClientInv

-----------------------------------------------------------------------------
(* The waits of client.go keep their books: however many callers look a magnet up, however
   often the torrent is checked again, paused or resumed by others, what Await and WaitLive
   have seen is on disk and a wait under way has polls left. *)
THEOREM ClientInvariant == ClientSpec => []ClientInv
<1>1. ClientInit => ClientInv
  <2>. SUFFICES ASSUME ClientInit PROVE ClientInv
    OBVIOUS
  <2>1. ClientShape
    BY PollsAssumption
    DEF ClientInit, ClientShape, TorShape, LiveShape, HoldShape, TorStates, LiveStages, HoldStages
  <2>2. Cardinality(tor.onDisk) = 0
    BY FS_EmptySet DEF ClientInit
  <2>. QED
    BY <2>1, <2>2
    DEF ClientInit, ClientInv, SeenIsThere, PollsLeft, ReadIsThere, NoneOnAbsent, MarkedForCause
<1>2. ClientInv /\ [ClientNext]_clientVars => ClientInv'
  <2>. SUFFICES ASSUME ClientInv, [ClientNext]_clientVars PROVE ClientInv'
    OBVIOUS
  <2>1. CASE \/ \E p \in Parts : Piece(p) \/ CheckPiece(p)
             \/ CheckOver \/ Others \/ SweepPauses
    BY <2>1, OthersKeep
  <2>2. CASE \E c \in ECallers : \/ InspectMagnet(c) \/ InspectPicked(c) \/ InspectAnswers(c) \/ CallerLeaves(c)
                                 \/ \E why \in {"swarm", "engine", "cancel"} : InspectFails(c, why)
    BY <2>2, InspectKeeps
  <2>3. CASE MarkExpires
    BY <2>3
    DEF MarkExpires, ClientInv, ClientShape, TorShape, LiveShape, HoldShape, SeenIsThere, PollsLeft,
        ReadIsThere, NoneOnAbsent, MarkedForCause
  <2>4. CASE AddRelease
    BY <2>4, AddKeeps
  <2>5. CASE Prewarm
    BY <2>5, PrewarmKeeps
  <2>6. CASE PollLive
    BY <2>6, PollLiveKeeps
  <2>7. CASE ReadPart("tail", "head") \/ ReadPart("head", "done")
    BY <2>7, ReadKeeps
  <2>8. CASE Await \/ PollHold
    BY <2>8, WaitKeeps
  <2>9. CASE SweepSees \/ SweepComesBack \/ UNCHANGED clientVars
    BY <2>9
    DEF SweepSees, SweepComesBack, clientVars, ClientInv, ClientShape, TorShape, LiveShape, HoldShape,
        SeenIsThere, PollsLeft, ReadIsThere, NoneOnAbsent, MarkedForCause
  <2>. QED
    BY <2>1, <2>2, <2>3, <2>4, <2>5, <2>6, <2>7, <2>8, <2>9 DEF ClientNext
<1>. QED BY <1>1, <1>2, PTL DEF ClientSpec

(* client.go Inspect, WaitLive, Await: a magnet is marked bad only when a lookup its caller was
   still waiting for failed, a stall is reported after the polls allowed and no sooner than they
   are used up, and a stream reported ready has its head and its tail on disk. *)
THEOREM ClientStaysSafe == ClientSpec => []ClientSafe
<1>1. ClientInv => ClientSafe
  BY DEF ClientInv, ClientSafe, ClientTypeOK, ClientShape, SeenIsThere, PollsLeft, ReadIsThere,
         LiveShape, HoldShape
<1>. QED BY ClientInvariant, <1>1, PTL

-----------------------------------------------------------------------------
(* The inductive invariant of the pieces.                                  *)

Data == {"good", "bad", "none"}
HashStates == {"idle", "hashing", "pass", "fail"}
Known3 == {"unknown", "no", "yes"}

\* A write under way: of a chunk, by a peer.
WriteRecord == [p : Pieces, c : {1, 2}, data : {"good", "bad"}]

\* A piece that waits for its hash, is being hashed or marked.
Busy(p) == p \in queuedHash \/ hashing[p] # "idle"

Shapes ==
    /\ onDisk \in [Pieces -> [{1, 2} -> Data]]
    /\ dirty \in [Pieces -> SUBSET {1, 2}] /\ dirtiers \in [Pieces -> SUBSET Senders]
    /\ writing \in [Senders -> WriteRecord \cup {NoWrite}]
    /\ hashing \in [Pieces -> HashStates]
    /\ completion \in [Pieces -> Known3] /\ stored \in [Pieces -> Known3]
    /\ queuedHash \subseteq Pieces /\ asked \subseteq Pieces
    /\ \A p \in Pieces : dirty[p] \subseteq Chunks(p)

Hashers == Cardinality({p \in Pieces : hashing[p] # "idle"}) <= PieceHashers

\* A chunk being written is counted as had, belongs to a piece that was asked for, and is
\* written by nobody else; wrong data comes from a liar.
WritesAreHad ==
    \A k \in Senders : writing[k] # NoWrite =>
        /\ writing[k].p \in asked /\ writing[k].c \in dirty[writing[k].p]
        /\ writing[k].data = "good" \/ k \in Liars
        /\ \A j \in Senders : /\ writing[j].p = writing[k].p /\ writing[j].c = writing[k].c
                              => j = k

\* While a piece is on its way through a hasher nothing is written to it and nothing can be:
\* it was never asked for, or all of its chunks are had.
BusyIsQuiet ==
    \A p \in Pieces : Busy(p) =>
        /\ Writes(p, writing) = {}
        /\ p \notin asked \/ AllDirty(p, dirty)
        /\ completion[p] # "yes"
        /\ p \in queuedHash => hashing[p] = "idle"

\* Before it is asked for, a piece has no chunk.
UnaskedIsEmpty == \A p \in Pieces : p \notin asked => dirty[p] = {}

\* What passed is right on disk and no longer written to, and what storage keeps is shown or
\* about to be.
PassedIsRight ==
    \A p \in Pieces :
        /\ hashing[p] = "pass" \/ completion[p] = "yes" \/ stored[p] = "yes" =>
             HashCorrect(p) /\ Writes(p, writing) = {}
        /\ stored[p] = "yes" => completion[p] = "yes" \/ hashing[p] = "pass"

\* A chunk that is had and not right was written by a liar among those who wrote the piece.
WrongIsBlamed ==
    \A p \in Pieces : hashing[p] \in {"idle", "hashing"} =>
        \A c \in dirty[p] : \/ onDisk[p][c] = "good"
                            \/ dirtiers[p] \cap Liars # {}
                            \/ \E k \in Senders : writing[k].p = p /\ writing[k].c = c

\* Only liars are on record with wrong data.
RecordedAreLiars == \A k \in Senders, p \in Pieces, c \in {1, 2} :
                        <<k, p, c, "bad">> \in recorded => k \in Liars

PiecesInv ==
    /\ Shapes /\ Hashers /\ WritesAreHad /\ BusyIsQuiet /\ UnaskedIsEmpty /\ PassedIsRight
    /\ WrongIsBlamed /\ RecordedAreLiars /\ FullPieceIsChecked /\ OnlyLiarsBanned
-----------------------------------------------------------------------------
(* Chunks, and a few of many.                                              *)

\* A piece has chunks, at most two; piece 0 is none.
LEMMA ChunksAre ==
    /\ \A p \in Pieces : Chunks(p) \in SUBSET {1, 2} /\ Chunks(p) # {} /\ p \in Nat
    /\ 0 \notin Pieces /\ NoWrite.p = 0
    /\ IsFiniteSet(Pieces)
<1>1. \A p \in Pieces : Chunks(p) \in SUBSET {1, 2} /\ Chunks(p) # {} /\ p \in Nat
  BY SwarmAssumption DEF Chunks, Pieces
<1>2. 0 \notin Pieces /\ NoWrite.p = 0
  BY SwarmAssumption DEF Pieces, NoWrite
<1>3. IsFiniteSet(Pieces)
  BY SwarmAssumption, FS_Interval DEF Pieces
<1> QED
  BY <1>1, <1>2, <1>3

\* Of any numbers, those with fewer than n greater ones are at most n.
LEMMA TopFew ==
    ASSUME NEW S \in SUBSET Nat, IsFiniteSet(S), NEW n \in Nat
    PROVE  LET T == {p \in S : Cardinality({o \in S : o > p}) < n}
           IN  IsFiniteSet(T) /\ Cardinality(T) <= n
<1> DEFINE T == {p \in S : Cardinality({o \in S : o > p}) < n}
<1>1. IsFiniteSet(T) /\ Cardinality(T) \in Nat
  BY FS_Subset, FS_CardinalityType
<1>2. CASE T = {}
  <2>1. Cardinality(T) = 0
    BY <1>2, FS_EmptySet
  <2> QED
    BY <1>1, <2>1
<1>3. CASE T # {}
  <2>1. PICK m \in T : \A y \in T : y # m => y > m
    <3> DEFINE below(p) == {o \in S : o < p}
               all == {below(p) : p \in T}
    <3>0. T \subseteq S
      OBVIOUS
    <3> HIDE DEF T
    <3>1. all \subseteq FiniteSubsetsOf(S) /\ all # {}
      <4>1. \A p : below(p) \in SUBSET S /\ IsFiniteSet(below(p))
        BY FS_Subset
      <4> HIDE DEF below
      <4> QED
        BY <1>3, <4>1 DEF FiniteSubsetsOf
    <3>2. PICK X \in all : \A Y \in all : ~(<<Y, X>> \in StrictSubsetOrdering(S))
      <4> HIDE DEF all
      <4> QED
        BY <3>1, FS_StrictSubsetOrderingWellFounded, WFMin
    <3>3. PICK m \in T : X = below(m)
      BY <3>2
    <3>4. ASSUME NEW y \in T, y # m
          PROVE  y > m
      <4>1. y \in Nat /\ m \in Nat /\ y \in S
        BY <3>0
      <4>2. ASSUME y < m
            PROVE  FALSE
        <5>1. below(y) \subseteq below(m) /\ y \in below(m) /\ y \notin below(y)
          <6>1. ASSUME NEW o \in S, o < y
                PROVE  o < m
            BY <4>1, <4>2, <6>1
          <6>2. below(y) \subseteq below(m)
            BY <6>1
          <6> QED
            BY <4>1, <4>2, <6>2
        <5>2. <<below(y), below(m)>> \in StrictSubsetOrdering(S)
          BY <5>1 DEF StrictSubsetOrdering
        <5> QED
          BY <3>2, <3>3, <5>2
      <4> QED
        BY <3>4, <4>1, <4>2
    <3> QED
      BY <3>4
  <2> DEFINE G == {o \in S : o > m}
  <2>3. T \ {m} \subseteq G
    BY <2>1
  <2>4. IsFiniteSet(G) /\ Cardinality(G) \in Nat /\ Cardinality(G) < n
    BY <2>1, FS_Subset, FS_CardinalityType
  <2>5. Cardinality(T \ {m}) = Cardinality(T) - 1
    BY <1>1, <2>1, FS_RemoveElement
  <2>6. Cardinality(T \ {m}) <= Cardinality(G)
    BY <2>3, <2>4, FS_Subset
  <2> QED
    BY <1>1, <2>4, <2>5, <2>6
<1> QED
  BY <1>1, <1>2, <1>3

\* What startPieceHashers does: queued pieces go to a hasher or stay, the others are left
\* alone, and there are never more hashers than allowed.
LEMMA HashersStart ==
    ASSUME NEW q \in SUBSET Pieces, NEW h \in [Pieces -> HashStates],
           Cardinality({p \in Pieces : h[p] # "idle"}) <= PieceHashers,
           StartPieceHashers(q, h)
    PROVE  /\ hashing' \in [Pieces -> HashStates] /\ queuedHash' \subseteq q
           /\ \A p \in Pieces : \/ hashing'[p] = h[p]
                                \/ h[p] = "idle" /\ hashing'[p] = "hashing" /\ p \in q \ queuedHash'
           /\ \A p \in q : p \in queuedHash' \/ hashing'[p] # "idle"
           /\ Hashers'
<1> DEFINE free == {p \in q : h[p] = "idle"}
           working == {p \in Pieces : h[p] # "idle"}
           busy == Cardinality(working)
           started == {p \in free : Cardinality({o \in free : o > p}) + busy < PieceHashers}
<1>1. /\ queuedHash' = q \ started
      /\ hashing' = [p \in Pieces |-> IF p \in started THEN "hashing" ELSE h[p]]
  BY DEF StartPieceHashers
<1>2. IsFiniteSet(free) /\ IsFiniteSet(working) /\ free \in SUBSET Nat
  BY ChunksAre, FS_Subset
<1>3. busy \in Nat /\ busy <= PieceHashers /\ PieceHashers \in Nat
  BY <1>2, FS_CardinalityType, SwarmAssumption
<1>4. IsFiniteSet(started) /\ Cardinality(started) <= PieceHashers - busy
  <2> DEFINE n == PieceHashers - busy
             few == {p \in free : Cardinality({o \in free : o > p}) < n}
  <2>1. n \in Nat
    BY <1>3
  <2>2. \A p \in free : Cardinality({o \in free : o > p}) \in Nat
    BY <1>2, FS_Subset, FS_CardinalityType
  <2>3. started = few
    BY <1>3, <2>2
  <2>4. IsFiniteSet(few) /\ Cardinality(few) <= n
    <3> HIDE DEF free, n
    <3> QED
      BY <1>2, <2>1, TopFew
  <2> QED
    BY <2>3, <2>4
<1>5. Hashers'
  <2>1. {p \in Pieces : hashing'[p] # "idle"} = working \cup started
    BY <1>1
  <2>2. working \cap started = {}
    OBVIOUS
  <2> HIDE DEF working, started
  <2>3. Cardinality(working \cup started) = busy + Cardinality(started) - Cardinality(working \cap started)
    BY <1>2, <1>4, FS_Union
  <2>4. Cardinality(working \cap started) = 0 /\ Cardinality(started) \in Nat
    BY <1>4, <2>2, FS_EmptySet, FS_CardinalityType
  <2>5. Cardinality(working \cup started) <= PieceHashers
    BY <1>3, <1>4, <2>3, <2>4
  <2> QED
    BY <2>1, <2>5 DEF Hashers
<1>6. hashing' \in [Pieces -> HashStates]
  BY <1>1 DEF HashStates
<1> QED
  BY <1>1, <1>5, <1>6
-----------------------------------------------------------------------------
(* Steps that do not move a piece towards its hash.                        *)

\* Steps of the connections and of the download's permission leave the pieces alone.
LEMMA IdleKeeps ==
    ASSUME PiecesInv,
           UNCHANGED <<onDisk, dirty, writing, queuedHash, hashing, completion, stored, dirtiers,
                       recorded, bannedIPs, asked>>
    PROVE  PiecesInv'
<1>1. Shapes' /\ Hashers' /\ WritesAreHad'
  BY DEF PiecesInv, Shapes, Hashers, WritesAreHad
<1>2. BusyIsQuiet' /\ UnaskedIsEmpty' /\ PassedIsRight'
  BY DEF PiecesInv, BusyIsQuiet, UnaskedIsEmpty, PassedIsRight, Busy, AllDirty, Writes, HashCorrect
<1>3. WrongIsBlamed' /\ RecordedAreLiars' /\ FullPieceIsChecked' /\ OnlyLiarsBanned'
  BY DEF PiecesInv, WrongIsBlamed, RecordedAreLiars, FullPieceIsChecked, OnlyLiarsBanned, AllDirty, Writes
<1> QED
  BY <1>1, <1>2, <1>3 DEF PiecesInv

LEMMA AskForKeeps ==
    ASSUME PiecesInv, NEW p \in Pieces, AskFor(p)
    PROVE  PiecesInv'
<1>1. /\ asked' = asked \cup {p} /\ ~Busy(p)
      /\ UNCHANGED <<onDisk, dirty, writing, queuedHash, hashing, completion, stored, dirtiers,
                     recorded, bannedIPs>>
  BY DEF AskFor, IgnoreForRequests, Busy
<1>2. Shapes' /\ Hashers' /\ WritesAreHad'
  BY <1>1 DEF PiecesInv, Shapes, Hashers, WritesAreHad
<1>3. BusyIsQuiet'
  BY <1>1 DEF PiecesInv, BusyIsQuiet, Busy, AllDirty, Writes
<1>4. UnaskedIsEmpty' /\ PassedIsRight'
  BY <1>1 DEF PiecesInv, UnaskedIsEmpty, PassedIsRight, Writes, HashCorrect
<1>5. WrongIsBlamed' /\ RecordedAreLiars' /\ FullPieceIsChecked' /\ OnlyLiarsBanned'
  BY <1>1 DEF PiecesInv, WrongIsBlamed, RecordedAreLiars, FullPieceIsChecked, OnlyLiarsBanned, AllDirty, Writes
<1> QED
  BY <1>2, <1>3, <1>4, <1>5 DEF PiecesInv

\* A chunk that is not had can only be taken in by a piece no hasher has anything to do with.
LEMMA NewChunkIsFree ==
    ASSUME PiecesInv, NEW p \in Pieces, NEW c \in Chunks(p), p \in asked, ~HaveChunk(p, c)
    PROVE  ~Busy(p) /\ completion[p] # "yes" /\ stored[p] # "yes" /\ c \notin dirty[p]
<1>1. completion[p] # "yes" /\ c \notin dirty[p]
  BY DEF HaveChunk
<1>2. ~Busy(p)
  BY <1>1 DEF PiecesInv, BusyIsQuiet, AllDirty
<1> QED
  BY <1>1, <1>2 DEF PiecesInv, PassedIsRight, Busy

\* What a peer sends is on record, and if it is wrong the peer is a liar.
LEMMA RecordKeeps ==
    ASSUME PiecesInv, NEW k \in Senders, NEW p \in Pieces, NEW c \in Chunks(p), NEW data,
           data = "good" \/ k \in Liars,
           recorded' = recorded \cup {<<k, p, c, data>>}
    PROVE  RecordedAreLiars'
<1> SUFFICES ASSUME NEW j \in Senders, NEW o \in Pieces, NEW b \in {1, 2},
                    <<j, o, b, "bad">> \in recorded', <<j, o, b, "bad">> \notin recorded
             PROVE  j \in Liars
  BY DEF PiecesInv, RecordedAreLiars
<1>1. <<j, o, b, "bad">> = <<k, p, c, data>>
  OBVIOUS
<1> QED
  BY <1>1

LEMMA ReceiveKeeps ==
    ASSUME PiecesInv, NEW k \in Senders, NEW p \in Pieces, NEW c \in Chunks(p),
           NEW data \in {"good", "bad"}, ReceiveChunk(k, p, c, data)
    PROVE  PiecesInv'
<1>1. /\ writing[k] = NoWrite /\ p \in asked /\ (data = "good" \/ k \in Liars)
      /\ recorded' = recorded \cup {<<k, p, c, data>>}
      /\ UNCHANGED <<onDisk, queuedHash, hashing, completion, stored, dirtiers, bannedIPs, asked>>
  BY DEF ReceiveChunk
<1>2. (data = "good" \/ k \in Liars) /\ p \in asked /\ writing[k] = NoWrite
  BY DEF ReceiveChunk
<1>3. RecordedAreLiars'
  BY <1>1, <1>2, RecordKeeps
<1>4. CASE HaveChunk(p, c)
  <2>1. UNCHANGED <<writing, dirty>>
    BY <1>4 DEF ReceiveChunk
  <2>2. Shapes' /\ Hashers' /\ WritesAreHad'
    BY <1>1, <2>1 DEF PiecesInv, Shapes, Hashers, WritesAreHad
  <2>3. BusyIsQuiet' /\ UnaskedIsEmpty' /\ PassedIsRight'
    BY <1>1, <2>1 DEF PiecesInv, BusyIsQuiet, UnaskedIsEmpty, PassedIsRight, Busy, AllDirty, Writes, HashCorrect
  <2>4. WrongIsBlamed' /\ FullPieceIsChecked' /\ OnlyLiarsBanned'
    BY <1>1, <2>1 DEF PiecesInv, WrongIsBlamed, FullPieceIsChecked, OnlyLiarsBanned, AllDirty, Writes
  <2> QED
    BY <1>3, <2>2, <2>3, <2>4 DEF PiecesInv
<1>5. CASE ~HaveChunk(p, c)
  <2> DEFINE w == [p |-> p, c |-> c, data |-> data]
  <2>1. /\ ~Busy(p) /\ completion[p] # "yes" /\ stored[p] # "yes" /\ c \notin dirty[p]
    BY <1>2, <1>5, NewChunkIsFree
  <2>2. /\ writing' = [writing EXCEPT ![k] = w] /\ dirty' = [dirty EXCEPT ![p] = dirty[p] \cup {c}]
    BY <1>5 DEF ReceiveChunk
  <2>3. /\ w \in WriteRecord /\ w.p = p /\ w.c = c /\ w.data = data /\ c \in {1, 2}
    BY ChunksAre DEF WriteRecord
  <2>4. /\ writing \in [Senders -> WriteRecord \cup {NoWrite}] /\ dirty \in [Pieces -> SUBSET {1, 2}]
    BY DEF PiecesInv, Shapes
  <2> HIDE DEF w
  <2>5. /\ writing' \in [Senders -> WriteRecord \cup {NoWrite}] /\ writing'[k] = w
        /\ \A j \in Senders : j # k => writing'[j] = writing[j]
    BY <2>2, <2>3, <2>4
  <2>6. /\ dirty' \in [Pieces -> SUBSET {1, 2}] /\ dirty'[p] = dirty[p] \cup {c}
        /\ \A o \in Pieces : o # p => dirty'[o] = dirty[o]
    BY <2>2, <2>3, <2>4
  <2>7. Shapes' /\ Hashers'
    BY <1>1, <2>5, <2>6 DEF PiecesInv, Shapes, Hashers
  <2>8. WritesAreHad'
    <3>1. SUFFICES ASSUME NEW i \in Senders, writing'[i] # NoWrite
                   PROVE  /\ writing'[i].p \in asked /\ writing'[i].c \in dirty'[writing'[i].p]
                          /\ writing'[i].data = "good" \/ i \in Liars
                          /\ \A j \in Senders : /\ writing'[j].p = writing'[i].p
                                                /\ writing'[j].c = writing'[i].c
                                                => j = i
      BY <1>1 DEF WritesAreHad
    <3>2. \A j \in Senders : j # k => ~(writing[j].p = p /\ writing[j].c = c)
      <4>1. \A j \in Senders : writing[j].p = p => writing[j] # NoWrite
        BY ChunksAre
      <4> QED
        BY <2>1, <4>1 DEF PiecesInv, WritesAreHad
    <3>3. CASE i = k
      BY <1>2, <2>3, <2>5, <2>6, <3>2, <3>3
    <3>4. CASE i # k
      <4>1. writing'[i] = writing[i] /\ writing[i] # NoWrite /\ writing[i].p \in Pieces
        BY <2>4, <2>5, <3>1, <3>4 DEF WriteRecord
      <4>2. /\ writing[i].p \in asked /\ writing[i].c \in dirty[writing[i].p]
            /\ writing[i].data = "good" \/ i \in Liars
            /\ \A j \in Senders : /\ writing[j].p = writing[i].p /\ writing[j].c = writing[i].c
                                  => j = i
        BY <4>1 DEF PiecesInv, WritesAreHad
      <4>3. writing[i].c \in dirty'[writing[i].p]
        BY <2>6, <4>1, <4>2
      <4> QED
        BY <2>3, <2>5, <3>2, <3>4, <4>1, <4>2, <4>3
    <3> QED
      BY <3>3, <3>4
  <2>9. BusyIsQuiet'
    BY <1>1, <2>1, <2>3, <2>5, <2>6 DEF PiecesInv, BusyIsQuiet, Busy, AllDirty, Writes
  <2>10. UnaskedIsEmpty'
    BY <1>1, <1>2, <2>6 DEF PiecesInv, UnaskedIsEmpty
  <2>11. PassedIsRight'
    BY <1>1, <2>1, <2>3, <2>5 DEF PiecesInv, PassedIsRight, Busy, Writes, HashCorrect
  <2>12. WrongIsBlamed'
    <3>1. SUFFICES ASSUME NEW o \in Pieces, hashing[o] \in {"idle", "hashing"}, NEW b \in dirty'[o],
                          onDisk[o][b] # "good", dirtiers[o] \cap Liars = {}
                   PROVE  \E j \in Senders : writing'[j].p = o /\ writing'[j].c = b
      BY <1>1 DEF WrongIsBlamed
    <3>2. CASE o = p /\ b = c
      BY <2>3, <2>5, <3>2
    <3>3. CASE ~(o = p /\ b = c)
      <4>1. b \in dirty[o]
        BY <2>6, <3>1, <3>3
      <4>2. PICK j \in Senders : writing[j].p = o /\ writing[j].c = b
        BY <3>1, <4>1 DEF PiecesInv, WrongIsBlamed
      <4>3. j # k
        BY <1>2, <4>2, ChunksAre
      <4> QED
        BY <2>5, <4>2, <4>3
    <3> QED
      BY <3>2, <3>3
  <2>13. FullPieceIsChecked'
    <3>1. SUFFICES ASSUME NEW o \in Pieces, AllDirty(o, dirty'), Writes(o, writing') = {}
                   PROVE  o \in queuedHash \/ hashing[o] # "idle"
      BY <1>1 DEF FullPieceIsChecked
    <3>2. o # p
      BY <2>3, <2>5, <3>1 DEF Writes
    <3>3. Writes(o, writing) = {}
      BY <1>2, <2>5, <3>1, ChunksAre DEF Writes
    <3> QED
      BY <2>6, <3>1, <3>2, <3>3 DEF PiecesInv, FullPieceIsChecked, AllDirty
  <2>14. OnlyLiarsBanned'
    BY <1>1 DEF PiecesInv, OnlyLiarsBanned
  <2> QED
    BY <1>3, <2>7, <2>8, <2>9, <2>10, <2>11, <2>12, <2>13, <2>14 DEF PiecesInv
<1> QED
  BY <1>4, <1>5
-----------------------------------------------------------------------------
(* The end of a write.                                                     *)

\* A chunk being written, and what may be going on with its piece: nothing.
LEMMA WriteUnderWay ==
    ASSUME PiecesInv, NEW k \in Senders, writing[k] # NoWrite
    PROVE  LET w == writing[k] IN
           /\ w \in WriteRecord /\ w.p \in Pieces /\ w.c \in {1, 2} /\ w.p \in asked
           /\ w.c \in dirty[w.p] /\ w.c \in Chunks(w.p)
           /\ w.data = "good" \/ k \in Liars
           /\ \A j \in Senders : j # k => ~(writing[j].p = w.p /\ writing[j].c = w.c)
           /\ ~Busy(w.p) /\ hashing[w.p] = "idle" /\ completion[w.p] # "yes" /\ stored[w.p] # "yes"
<1> DEFINE w == writing[k]
<1>1. w \in WriteRecord /\ w.p \in Pieces /\ w.c \in {1, 2}
  BY DEF PiecesInv, Shapes, WriteRecord
<1>2. /\ w.p \in asked /\ w.c \in dirty[w.p] /\ (w.data = "good" \/ k \in Liars)
      /\ \A j \in Senders : writing[j].p = w.p /\ writing[j].c = w.c => j = k
  BY DEF PiecesInv, WritesAreHad
<1>3. w.c \in Chunks(w.p)
  BY <1>1, <1>2 DEF PiecesInv, Shapes
<1>4. Writes(w.p, writing) # {}
  BY DEF Writes
<1>5. ~Busy(w.p) /\ completion[w.p] # "yes" /\ stored[w.p] # "yes"
  BY <1>1, <1>4 DEF PiecesInv, BusyIsQuiet, PassedIsRight
<1> QED
  BY <1>1, <1>2, <1>3, <1>5 DEF Busy

\* A peer that ends its write, either way, no longer writes.
LEMMA WriteEnds ==
    ASSUME PiecesInv, NEW k \in Senders, writing' = [writing EXCEPT ![k] = NoWrite]
    PROVE  /\ writing' \in [Senders -> WriteRecord \cup {NoWrite}] /\ writing'[k] = NoWrite
           /\ \A j \in Senders : j # k => writing'[j] = writing[j]
           /\ \A o \in Pieces : Writes(o, writing) = {} => Writes(o, writing') = {}
<1>1. /\ writing' \in [Senders -> WriteRecord \cup {NoWrite}] /\ writing'[k] = NoWrite
      /\ \A j \in Senders : j # k => writing'[j] = writing[j]
  BY DEF PiecesInv, Shapes
<1>2. ASSUME NEW o \in Pieces, Writes(o, writing) = {}
      PROVE  Writes(o, writing') = {}
  BY <1>1, <1>2, ChunksAre DEF Writes
<1> QED
  BY <1>1, <1>2

LEMMA WriteFailsKeeps ==
    ASSUME PiecesInv, NEW k \in Senders, WriteFails(k)
    PROVE  PiecesInv'
<1> DEFINE p == writing[k].p
           c == writing[k].c
<1>1. /\ writing[k] # NoWrite /\ writing' = [writing EXCEPT ![k] = NoWrite]
      /\ dirty' = [dirty EXCEPT ![p] = dirty[p] \ {c}]
      /\ UNCHANGED <<onDisk, queuedHash, hashing, completion, stored, dirtiers, recorded,
                     bannedIPs, asked>>
  BY DEF WriteFails
<1>2. /\ p \in Pieces /\ c \in {1, 2} /\ p \in asked /\ c \in dirty[p] /\ c \in Chunks(p)
      /\ \A j \in Senders : j # k => ~(writing[j].p = p /\ writing[j].c = c)
      /\ ~Busy(p)
  BY <1>1, WriteUnderWay
<1>3. /\ writing' \in [Senders -> WriteRecord \cup {NoWrite}] /\ writing'[k] = NoWrite
      /\ \A j \in Senders : j # k => writing'[j] = writing[j]
      /\ \A o \in Pieces : Writes(o, writing) = {} => Writes(o, writing') = {}
  BY <1>1, WriteEnds
<1> HIDE DEF p, c
<1>4. /\ dirty' \in [Pieces -> SUBSET {1, 2}] /\ dirty'[p] = dirty[p] \ {c}
      /\ \A o \in Pieces : o # p => dirty'[o] = dirty[o]
      /\ dirty \in [Pieces -> SUBSET {1, 2}]
  BY <1>1, <1>2 DEF PiecesInv, Shapes
<1>5. Shapes' /\ Hashers'
  BY <1>1, <1>3, <1>4 DEF PiecesInv, Shapes, Hashers
<1>6. WritesAreHad'
  <2>1. SUFFICES ASSUME NEW i \in Senders, writing'[i] # NoWrite
                 PROVE  /\ writing'[i].p \in asked /\ writing'[i].c \in dirty'[writing'[i].p]
                        /\ writing'[i].data = "good" \/ i \in Liars
                        /\ \A j \in Senders : /\ writing'[j].p = writing'[i].p
                                              /\ writing'[j].c = writing'[i].c
                                              => j = i
    BY <1>1 DEF WritesAreHad
  <2>2. i # k /\ writing'[i] = writing[i]
    BY <1>3, <2>1
  <2>3. /\ writing[i].p \in asked /\ writing[i].c \in dirty[writing[i].p] /\ writing[i].p \in Pieces
        /\ writing[i].data = "good" \/ i \in Liars
        /\ \A j \in Senders : j # i => ~(writing[j].p = writing[i].p /\ writing[j].c = writing[i].c)
    BY <2>1, <2>2, WriteUnderWay
  <2>4. writing[i].c \in dirty'[writing[i].p]
    BY <1>2, <1>4, <2>2, <2>3
  <2>5. ASSUME NEW j \in Senders, writing'[j].p = writing[i].p, writing'[j].c = writing[i].c
        PROVE  j = i
    BY <1>3, <2>3, <2>5, ChunksAre
  <2> QED
    BY <2>2, <2>3, <2>4, <2>5
<1>7. BusyIsQuiet'
  BY <1>1, <1>2, <1>3, <1>4 DEF PiecesInv, BusyIsQuiet, Busy, AllDirty
<1>8. UnaskedIsEmpty'
  BY <1>1, <1>2, <1>4 DEF PiecesInv, UnaskedIsEmpty
<1>9. PassedIsRight'
  BY <1>1, <1>3 DEF PiecesInv, PassedIsRight, HashCorrect
<1>10. WrongIsBlamed'
  <2>1. SUFFICES ASSUME NEW o \in Pieces, hashing[o] \in {"idle", "hashing"}, NEW b \in dirty'[o],
                        onDisk[o][b] # "good", dirtiers[o] \cap Liars = {}
                 PROVE  \E j \in Senders : writing'[j].p = o /\ writing'[j].c = b
    BY <1>1 DEF WrongIsBlamed
  <2>2. b \in dirty[o] /\ ~(o = p /\ b = c)
    BY <1>4, <2>1
  <2>3. PICK j \in Senders : writing[j].p = o /\ writing[j].c = b
    BY <2>1, <2>2 DEF PiecesInv, WrongIsBlamed
  <2>4. j # k
    BY <2>2, <2>3 DEF p, c
  <2> QED
    BY <1>3, <2>3, <2>4
<1>11. FullPieceIsChecked'
  <2>1. SUFFICES ASSUME NEW o \in Pieces, AllDirty(o, dirty'), Writes(o, writing') = {}
                 PROVE  o \in queuedHash \/ hashing[o] # "idle"
    BY <1>1 DEF FullPieceIsChecked
  <2>2. o # p
    BY <1>2, <1>4, <2>1 DEF AllDirty
  <2>3. Writes(o, writing) = {}
    BY <1>3, <2>1, <2>2 DEF Writes, p
  <2> QED
    BY <1>4, <2>1, <2>2, <2>3 DEF PiecesInv, FullPieceIsChecked, AllDirty
<1>12. RecordedAreLiars' /\ OnlyLiarsBanned'
  BY <1>1 DEF PiecesInv, RecordedAreLiars, OnlyLiarsBanned
<1> QED
  BY <1>5, <1>6, <1>7, <1>8, <1>9, <1>10, <1>11, <1>12 DEF PiecesInv

\* The last writer of a piece hands it to the hashers, any other leaves them alone.
LEMMA LastWriterQueues ==
    ASSUME PiecesInv, NEW k \in Senders, writing[k] # NoWrite, ChunkWritten(k)
    PROVE  LET p == writing[k].p IN
           /\ hashing' \in [Pieces -> HashStates] /\ queuedHash' \subseteq Pieces /\ Hashers'
           /\ \A o \in Pieces : \/ hashing'[o] = hashing[o]
                                \/ hashing[o] = "idle" /\ hashing'[o] = "hashing"
           /\ \A o \in Pieces : o \in queuedHash' => hashing'[o] = "idle"
           /\ \A o \in Pieces : Busy(o) => Busy(o)'
           /\ \A o \in Pieces : Busy(o)' =>
                \/ Busy(o)
                \/ o = p /\ AllDirty(p, dirty) /\ Writes(p, writing') = {}
           /\ \A o \in Pieces : o = p /\ AllDirty(p, dirty) /\ Writes(p, writing') = {} => Busy(o)'
<1> DEFINE p == writing[k].p
           full == AllDirty(p, dirty) /\ Writes(p, writing') = {}
<1>1. /\ p \in Pieces /\ hashing[p] = "idle" /\ hashing \in [Pieces -> HashStates]
      /\ queuedHash \subseteq Pieces /\ Cardinality({o \in Pieces : hashing[o] # "idle"}) <= PieceHashers
      /\ \A o \in Pieces : o \in queuedHash => hashing[o] = "idle"
  BY WriteUnderWay DEF PiecesInv, Shapes, Hashers, BusyIsQuiet, Busy
<1>2. IF full THEN StartPieceHashers(queuedHash \cup {p}, hashing) ELSE UNCHANGED <<queuedHash, hashing>>
  BY DEF ChunkWritten
<1> HIDE DEF p, full
<1>3. CASE ~full
  BY <1>1, <1>2, <1>3 DEF PiecesInv, Hashers, Busy, p, full
<1>4. CASE full
  <2>1. /\ hashing' \in [Pieces -> HashStates] /\ queuedHash' \subseteq queuedHash \cup {p}
        /\ \A o \in Pieces : \/ hashing'[o] = hashing[o]
                             \/ hashing[o] = "idle" /\ hashing'[o] = "hashing" /\ o \in (queuedHash \cup {p}) \ queuedHash'
        /\ \A o \in queuedHash \cup {p} : o \in queuedHash' \/ hashing'[o] # "idle"
        /\ Hashers'
    BY <1>1, <1>2, <1>4, HashersStart
  <2>2. \A o \in Pieces : o \in queuedHash' => hashing'[o] = "idle"
    BY <1>1, <2>1
  <2>3. \A o \in Pieces : Busy(o) => Busy(o)'
    BY <2>1 DEF Busy
  <2>4. \A o \in Pieces : Busy(o)' => Busy(o) \/ o = p
    BY <2>1 DEF Busy
  <2>5. \A o \in Pieces : o = p => Busy(o)'
    BY <2>1 DEF Busy
  <2> QED
    BY <1>1, <1>4, <2>1, <2>2, <2>3, <2>4, <2>5 DEF p, full
<1> QED
  BY <1>3, <1>4

LEMMA ChunkWrittenKeeps ==
    ASSUME PiecesInv, NEW k \in Senders, ChunkWritten(k)
    PROVE  PiecesInv'
<1> DEFINE p == writing[k].p
           c == writing[k].c
           data == writing[k].data
           full == AllDirty(p, dirty) /\ Writes(p, writing') = {}
<1>1. /\ writing[k] # NoWrite /\ writing' = [writing EXCEPT ![k] = NoWrite]
      /\ onDisk' = [onDisk EXCEPT ![p][c] = data]
      /\ dirtiers' = [dirtiers EXCEPT ![p] = dirtiers[p] \cup {k}]
      /\ UNCHANGED <<dirty, completion, stored, recorded, bannedIPs, asked>>
  BY DEF ChunkWritten
<1>2. /\ p \in Pieces /\ c \in {1, 2} /\ p \in asked /\ c \in dirty[p] /\ c \in Chunks(p)
      /\ data = "good" \/ k \in Liars
      /\ ~Busy(p) /\ completion[p] # "yes" /\ stored[p] # "yes" /\ hashing[p] = "idle"
  BY <1>1, WriteUnderWay
<1>3. data \in {"good", "bad"} /\ (data = "good" \/ k \in Liars)
  BY <1>1, WriteUnderWay DEF WriteRecord
<1>4. /\ writing' \in [Senders -> WriteRecord \cup {NoWrite}] /\ writing'[k] = NoWrite
      /\ \A j \in Senders : j # k => writing'[j] = writing[j]
      /\ \A o \in Pieces : Writes(o, writing) = {} => Writes(o, writing') = {}
  BY <1>1, WriteEnds
<1>5. /\ hashing' \in [Pieces -> HashStates] /\ queuedHash' \subseteq Pieces /\ Hashers'
      /\ \A o \in Pieces : \/ hashing'[o] = hashing[o]
                           \/ hashing[o] = "idle" /\ hashing'[o] = "hashing"
      /\ \A o \in Pieces : o \in queuedHash' => hashing'[o] = "idle"
      /\ \A o \in Pieces : Busy(o) => Busy(o)'
      /\ \A o \in Pieces : Busy(o)' => Busy(o) \/ (o = p /\ full)
      /\ \A o \in Pieces : o = p /\ full => Busy(o)'
  BY <1>1, LastWriterQueues
<1> HIDE DEF p, c, data, full
<1>6. /\ onDisk \in [Pieces -> [{1, 2} -> Data]] /\ dirty \in [Pieces -> SUBSET {1, 2}]
      /\ dirtiers \in [Pieces -> SUBSET Senders]
  BY DEF PiecesInv, Shapes
<1>7. /\ onDisk' \in [Pieces -> [{1, 2} -> Data]] /\ onDisk'[p][c] = data
      /\ \A o \in Pieces : o # p => onDisk'[o] = onDisk[o]
      /\ \A b \in {1, 2} : b # c => onDisk'[p][b] = onDisk[p][b]
  BY <1>1, <1>2, <1>3, <1>6 DEF Data
<1>8. /\ dirtiers' \in [Pieces -> SUBSET Senders] /\ dirtiers'[p] = dirtiers[p] \cup {k}
      /\ \A o \in Pieces : o # p => dirtiers'[o] = dirtiers[o]
  BY <1>1, <1>2, <1>6
<1>9. Shapes' /\ Hashers'
  BY <1>1, <1>4, <1>5, <1>7, <1>8 DEF PiecesInv, Shapes
<1>10. WritesAreHad'
  <2>1. SUFFICES ASSUME NEW i \in Senders, writing'[i] # NoWrite
                 PROVE  /\ writing'[i].p \in asked /\ writing'[i].c \in dirty[writing'[i].p]
                        /\ writing'[i].data = "good" \/ i \in Liars
                        /\ \A j \in Senders : /\ writing'[j].p = writing'[i].p
                                              /\ writing'[j].c = writing'[i].c
                                              => j = i
    BY <1>1 DEF WritesAreHad
  <2>2. i # k /\ writing'[i] = writing[i]
    BY <1>4, <2>1
  <2>3. /\ writing[i].p \in asked /\ writing[i].c \in dirty[writing[i].p] /\ writing[i].p \in Pieces
        /\ writing[i].data = "good" \/ i \in Liars
        /\ \A j \in Senders : j # i => ~(writing[j].p = writing[i].p /\ writing[j].c = writing[i].c)
    BY <2>1, <2>2, WriteUnderWay
  <2>4. ASSUME NEW j \in Senders, writing'[j].p = writing[i].p, writing'[j].c = writing[i].c
        PROVE  j = i
    BY <1>4, <2>3, <2>4, ChunksAre
  <2> QED
    BY <2>2, <2>3, <2>4
<1>11. BusyIsQuiet'
  <2>1. SUFFICES ASSUME NEW o \in Pieces, Busy(o)'
                 PROVE  /\ Writes(o, writing') = {}
                        /\ o \notin asked \/ AllDirty(o, dirty)
                        /\ completion[o] # "yes"
                        /\ o \in queuedHash' => hashing'[o] = "idle"
    BY <1>1 DEF BusyIsQuiet, AllDirty
  <2>2. CASE Busy(o)
    BY <1>4, <1>5, <2>2 DEF PiecesInv, BusyIsQuiet
  <2>3. CASE o = p /\ full
    BY <1>2, <1>5, <2>3 DEF full
  <2> QED
    BY <1>5, <2>1, <2>2, <2>3
<1>12. UnaskedIsEmpty'
  BY <1>1 DEF PiecesInv, UnaskedIsEmpty
<1>13. PassedIsRight'
  <2>1. SUFFICES ASSUME NEW o \in Pieces
                 PROVE  /\ hashing'[o] = "pass" \/ completion[o] = "yes" \/ stored[o] = "yes" =>
                             HashCorrect(o)' /\ Writes(o, writing') = {}
                        /\ stored[o] = "yes" => completion[o] = "yes" \/ hashing'[o] = "pass"
    BY <1>1 DEF PassedIsRight
  <2>2. CASE o = p
    BY <1>2, <1>5, <2>2
  <2>3. CASE o # p
    <3>1. HashCorrect(o) => HashCorrect(o)'
      BY <1>7, <2>3 DEF HashCorrect
    <3>2. hashing'[o] = "pass" <=> hashing[o] = "pass"
      BY <1>5
    <3> QED
      BY <1>4, <3>1, <3>2 DEF PiecesInv, PassedIsRight
  <2> QED
    BY <2>2, <2>3
<1>14. WrongIsBlamed'
  <2>1. SUFFICES ASSUME NEW o \in Pieces, hashing'[o] \in {"idle", "hashing"}, NEW b \in dirty[o],
                        onDisk'[o][b] # "good", dirtiers'[o] \cap Liars = {}
                 PROVE  \E j \in Senders : writing'[j].p = o /\ writing'[j].c = b
    BY <1>1 DEF WrongIsBlamed
  <2>2. hashing[o] \in {"idle", "hashing"} /\ b \in {1, 2}
    BY <1>5, <1>6, <2>1
  <2>3. ~(o = p /\ b = c)
    BY <1>3, <1>7, <1>8, <2>1
  <2>4. onDisk'[o][b] = onDisk[o][b] /\ dirtiers[o] \cap Liars = {}
    BY <1>7, <1>8, <2>1, <2>2, <2>3
  <2>5. PICK j \in Senders : writing[j].p = o /\ writing[j].c = b
    BY <2>1, <2>2, <2>4 DEF PiecesInv, WrongIsBlamed
  <2>6. j # k
    BY <2>3, <2>5 DEF p, c
  <2> QED
    BY <1>4, <2>5, <2>6
<1>15. FullPieceIsChecked'
  <2>1. SUFFICES ASSUME NEW o \in Pieces, AllDirty(o, dirty), Writes(o, writing') = {}
                 PROVE  Busy(o)'
    BY <1>1 DEF FullPieceIsChecked, Busy, AllDirty
  <2>2. CASE o = p
    BY <1>5, <2>1, <2>2 DEF full
  <2>3. CASE o # p
    <3>1. Writes(o, writing) = {}
      BY <1>4, <2>1, <2>3 DEF Writes, p
    <3>2. Busy(o)
      BY <2>1, <3>1 DEF PiecesInv, FullPieceIsChecked, Busy
    <3> QED
      BY <1>5, <3>2
  <2> QED
    BY <2>2, <2>3
<1>16. RecordedAreLiars' /\ OnlyLiarsBanned'
  BY <1>1 DEF PiecesInv, RecordedAreLiars, OnlyLiarsBanned
<1> QED
  BY <1>9, <1>10, <1>11, <1>12, <1>13, <1>14, <1>15, <1>16 DEF PiecesInv
-----------------------------------------------------------------------------
(* The hash and its mark.                                                  *)

\* Whom a finished hash bans: those on record with another version of a chunk of a good
\* piece, or the one that alone wrote all of a bad one.
LEMMA BannedLied ==
    ASSUME PiecesInv, NEW p \in Pieces, hashing[p] = "hashing", NEW ioErr \in BOOLEAN
    PROVE  /\ SmartBanned(p) \subseteq Liars
           /\ ~(HashCorrect(p) /\ ~ioErr) => Blamed(p, ioErr) \subseteq Liars
<1>1. SmartBanned(p) \subseteq Liars
  BY ChunksAre DEF PiecesInv, RecordedAreLiars, SmartBanned
<1>2. ASSUME ~(HashCorrect(p) /\ ~ioErr), Blamed(p, ioErr) # {}
      PROVE  Blamed(p, ioErr) \subseteq Liars
  <2>1. /\ AllDirty(p, dirty) /\ ~ioErr /\ Cardinality(dirtiers[p]) = 1
        /\ Blamed(p, ioErr) = dirtiers[p]
    BY <1>2 DEF Blamed
  <2>2. Writes(p, writing) = {}
    BY DEF PiecesInv, BusyIsQuiet, Busy
  <2>3. PICK c \in Chunks(p) : onDisk[p][c] # "good"
    BY <1>2, <2>1 DEF HashCorrect
  <2>4. c \in dirty[p] /\ ~\E k \in Senders : writing[k].p = p /\ writing[k].c = c
    BY <2>1, <2>2 DEF AllDirty, Writes
  <2>5. PICK l \in Liars : l \in dirtiers[p]
    BY <2>3, <2>4 DEF PiecesInv, WrongIsBlamed
  <2>6. IsFiniteSet(dirtiers[p])
    BY SendersAssumption, FS_Subset DEF PiecesInv, Shapes
  <2>7. PICK x : dirtiers[p] = {x}
    BY <2>1, <2>6, FS_Singleton
  <2> QED
    BY <2>1, <2>5, <2>7
<1> QED
  BY <1>1, <1>2

LEMMA FinishHashKeeps ==
    ASSUME PiecesInv, NEW p \in Pieces, NEW ioErr \in BOOLEAN, FinishHash(p, ioErr)
    PROVE  PiecesInv'
<1> DEFINE ok == HashCorrect(p) /\ ~ioErr
           verdict == IF ok THEN "pass" ELSE "fail"
<1>1. /\ hashing[p] = "hashing" /\ Writes(p, writing) = {}
      /\ hashing' = [hashing EXCEPT ![p] = verdict]
      /\ bannedIPs' = bannedIPs \cup (IF ok THEN SmartBanned(p) ELSE Blamed(p, ioErr))
      /\ recorded' \subseteq recorded
      /\ dirtiers' = dirtiers \/ dirtiers' = [dirtiers EXCEPT ![p] = {}]
      /\ UNCHANGED <<onDisk, dirty, writing, queuedHash, completion, stored, asked>>
  BY DEF FinishHash
<1>2. hashing \in [Pieces -> HashStates] /\ dirtiers \in [Pieces -> SUBSET Senders]
  BY DEF PiecesInv, Shapes
<1>3. /\ hashing' \in [Pieces -> HashStates] /\ hashing'[p] = verdict /\ verdict \in {"pass", "fail"}
      /\ \A o \in Pieces : o # p => hashing'[o] = hashing[o]
  BY <1>1, <1>2 DEF HashStates
<1>4. /\ dirtiers' \in [Pieces -> SUBSET Senders]
      /\ \A o \in Pieces : o # p => dirtiers'[o] = dirtiers[o]
  BY <1>1, <1>2
<1>5. Hashers'
  <2>1. {o \in Pieces : hashing'[o] # "idle"} = {o \in Pieces : hashing[o] # "idle"}
    BY <1>1, <1>3
  <2> QED
    BY <2>1 DEF PiecesInv, Hashers
<1>6. OnlyLiarsBanned'
  <2>1. (IF ok THEN SmartBanned(p) ELSE Blamed(p, ioErr)) \subseteq Liars
    BY <1>1, BannedLied
  <2> HIDE DEF ok
  <2> QED
    BY <1>1, <2>1 DEF PiecesInv, OnlyLiarsBanned
<1>7. verdict = "pass" => HashCorrect(p)
  OBVIOUS
<1> HIDE DEF verdict, ok
<1>8. Shapes'
  BY <1>1, <1>3, <1>4 DEF PiecesInv, Shapes
<1>9. WritesAreHad' /\ UnaskedIsEmpty'
  BY <1>1 DEF PiecesInv, WritesAreHad, UnaskedIsEmpty
<1>10. BusyIsQuiet'
  <2>1. SUFFICES ASSUME NEW o \in Pieces, Busy(o)'
                 PROVE  /\ Writes(o, writing) = {}
                        /\ o \notin asked \/ AllDirty(o, dirty)
                        /\ completion[o] # "yes"
                        /\ o \in queuedHash => hashing'[o] = "idle"
    BY <1>1 DEF BusyIsQuiet, AllDirty
  <2>2. Busy(o)
    BY <1>1, <1>3, <2>1 DEF Busy
  <2>3. o = p => o \notin queuedHash
    BY <1>1, <2>2 DEF PiecesInv, BusyIsQuiet
  <2> QED
    BY <1>3, <2>2, <2>3 DEF PiecesInv, BusyIsQuiet
<1>11. PassedIsRight'
  <2>1. SUFFICES ASSUME NEW o \in Pieces
                 PROVE  /\ hashing'[o] = "pass" \/ completion[o] = "yes" \/ stored[o] = "yes" =>
                             HashCorrect(o) /\ Writes(o, writing) = {}
                        /\ stored[o] = "yes" => completion[o] = "yes" \/ hashing'[o] = "pass"
    BY <1>1 DEF PassedIsRight, HashCorrect
  <2>2. CASE o = p
    <3>1. completion[p] # "yes" /\ stored[p] # "yes"
      BY <1>1 DEF PiecesInv, BusyIsQuiet, PassedIsRight, Busy
    <3> QED
      BY <1>1, <1>3, <1>7, <2>2, <3>1
  <2>3. CASE o # p
    BY <1>3, <2>3 DEF PiecesInv, PassedIsRight
  <2> QED
    BY <2>2, <2>3
<1>12. WrongIsBlamed'
  <2>1. SUFFICES ASSUME NEW o \in Pieces, hashing'[o] \in {"idle", "hashing"}, NEW b \in dirty[o]
                 PROVE  \/ onDisk[o][b] = "good" \/ dirtiers'[o] \cap Liars # {}
                        \/ \E j \in Senders : writing[j].p = o /\ writing[j].c = b
    BY <1>1 DEF WrongIsBlamed
  <2>2. o # p
    BY <1>3, <2>1
  <2> QED
    BY <1>3, <1>4, <2>1, <2>2 DEF PiecesInv, WrongIsBlamed
<1>13. RecordedAreLiars'
  BY <1>1 DEF PiecesInv, RecordedAreLiars
<1>14. FullPieceIsChecked'
  BY <1>1, <1>3 DEF PiecesInv, FullPieceIsChecked, AllDirty
<1> QED
  BY <1>5, <1>6, <1>8, <1>9, <1>10, <1>11, <1>12, <1>13, <1>14 DEF PiecesInv

LEMMA MarkKeeps ==
    ASSUME PiecesInv, NEW p \in Pieces, MarkInStorage(p)
    PROVE  PiecesInv'
<1>1. /\ hashing[p] \in {"pass", "fail"}
      /\ stored' = [stored EXCEPT ![p] = IF hashing[p] = "pass" THEN "yes" ELSE "no"]
      /\ UNCHANGED <<onDisk, dirty, writing, queuedHash, hashing, completion, dirtiers, recorded,
                     bannedIPs, asked>>
  BY DEF MarkInStorage, Marking
<1>2. /\ stored' \in [Pieces -> Known3] /\ (stored'[p] = "yes" <=> hashing[p] = "pass")
      /\ \A o \in Pieces : o # p => stored'[o] = stored[o]
  BY <1>1 DEF PiecesInv, Shapes, Known3
<1>3. Shapes' /\ Hashers' /\ WritesAreHad'
  BY <1>1, <1>2 DEF PiecesInv, Shapes, Hashers, WritesAreHad
<1>4. BusyIsQuiet' /\ UnaskedIsEmpty'
  BY <1>1 DEF PiecesInv, BusyIsQuiet, UnaskedIsEmpty, Busy, AllDirty, Writes
<1>5. PassedIsRight'
  <2>1. SUFFICES ASSUME NEW o \in Pieces
                 PROVE  /\ hashing[o] = "pass" \/ completion[o] = "yes" \/ stored'[o] = "yes" =>
                             HashCorrect(o) /\ Writes(o, writing) = {}
                        /\ stored'[o] = "yes" => completion[o] = "yes" \/ hashing[o] = "pass"
    BY <1>1 DEF PassedIsRight, HashCorrect
  <2> QED
    BY <1>2 DEF PiecesInv, PassedIsRight
<1>6. WrongIsBlamed' /\ RecordedAreLiars' /\ FullPieceIsChecked' /\ OnlyLiarsBanned'
  BY <1>1 DEF PiecesInv, WrongIsBlamed, RecordedAreLiars, FullPieceIsChecked, OnlyLiarsBanned, AllDirty, Writes
<1> QED
  BY <1>3, <1>4, <1>5, <1>6 DEF PiecesInv

\* The end of a mark: the piece has no chunk left, is not busy, and shows what the hash said.
LEMMA MarkedDoes ==
    ASSUME PiecesInv, NEW p \in Pieces, NEW refused \in BOOLEAN, PieceMarked(p, refused)
    PROVE  /\ hashing[p] \in {"pass", "fail"} /\ p \notin queuedHash
           /\ completion' \in [Pieces -> Known3]
           /\ completion'[p] = IF hashing[p] = "pass" THEN "yes" ELSE "no"
           /\ \A o \in Pieces : o # p => completion'[o] = completion[o]
           /\ dirty' \in [Pieces -> SUBSET {1, 2}] /\ dirty'[p] = {}
           /\ \A o \in Pieces : o # p => dirty'[o] = dirty[o]
           /\ hashing' \in [Pieces -> HashStates] /\ queuedHash' \subseteq queuedHash /\ Hashers'
           /\ hashing'[p] = "idle"
           /\ \A o \in Pieces : o # p =>
                \/ hashing'[o] = hashing[o]
                \/ hashing[o] = "idle" /\ hashing'[o] = "hashing" /\ o \in queuedHash \ queuedHash'
           /\ \A o \in queuedHash : o \in queuedHash' \/ hashing'[o] # "idle"
           /\ UNCHANGED <<onDisk, writing, stored, dirtiers, recorded, bannedIPs, asked>>
<1> DEFINE h == [hashing EXCEPT ![p] = "idle"]
<1>1. /\ hashing[p] \in {"pass", "fail"} /\ dirty' = PendAll(p, hashing[p] = "pass")
      /\ completion' = [completion EXCEPT ![p] = IF hashing[p] = "pass" THEN "yes" ELSE "no"]
      /\ StartPieceHashers(queuedHash, h)
      /\ UNCHANGED <<onDisk, writing, stored, dirtiers, recorded, bannedIPs, asked>>
  BY DEF PieceMarked, Marking
<1>2. /\ hashing \in [Pieces -> HashStates] /\ dirty \in [Pieces -> SUBSET {1, 2}]
      /\ completion \in [Pieces -> Known3] /\ queuedHash \subseteq Pieces
  BY DEF PiecesInv, Shapes
<1>3. p \notin queuedHash /\ (p \notin asked \/ AllDirty(p, dirty))
  BY <1>1 DEF PiecesInv, BusyIsQuiet, Busy
<1>4. /\ completion' \in [Pieces -> Known3]
      /\ completion'[p] = IF hashing[p] = "pass" THEN "yes" ELSE "no"
      /\ \A o \in Pieces : o # p => completion'[o] = completion[o]
  BY <1>1, <1>2 DEF Known3
<1>5. /\ dirty' \in [Pieces -> SUBSET {1, 2}] /\ dirty'[p] = {}
      /\ \A o \in Pieces : o # p => dirty'[o] = dirty[o]
  <2>1. CASE hashing[p] = "pass" \/ AllDirty(p, dirty)
    <3>1. dirty' = [dirty EXCEPT ![p] = {}]
      BY <1>1, <2>1 DEF PendAll
    <3> QED
      BY <1>2, <3>1
  <2>2. CASE ~(hashing[p] = "pass" \/ AllDirty(p, dirty))
    <3>1. dirty' = dirty
      BY <1>1, <2>2 DEF PendAll
    <3>2. dirty[p] = {}
      BY <1>3, <2>2 DEF PiecesInv, UnaskedIsEmpty
    <3> QED
      BY <1>2, <3>1, <3>2
  <2> QED
    BY <2>1, <2>2
<1>6. /\ h \in [Pieces -> HashStates] /\ h[p] = "idle"
      /\ \A o \in Pieces : o # p => h[o] = hashing[o]
  BY <1>2 DEF HashStates
<1> HIDE DEF h
<1>7. Cardinality({o \in Pieces : h[o] # "idle"}) <= PieceHashers
  <2> DEFINE less == {o \in Pieces : h[o] # "idle"}
             more == {o \in Pieces : hashing[o] # "idle"}
  <2>1. less \subseteq more
    BY <1>6
  <2>2. IsFiniteSet(more)
    BY ChunksAre, FS_Subset
  <2>3. Cardinality(more) <= PieceHashers
    BY DEF PiecesInv, Hashers
  <2> HIDE DEF less, more
  <2>4. Cardinality(less) <= Cardinality(more) /\ Cardinality(less) \in Nat /\ Cardinality(more) \in Nat
    BY <2>1, <2>2, FS_Subset, FS_CardinalityType
  <2>5. Cardinality(less) <= PieceHashers
    BY <2>3, <2>4, SwarmAssumption
  <2> QED
    BY <2>5 DEF less
<1>8. /\ hashing' \in [Pieces -> HashStates] /\ queuedHash' \subseteq queuedHash
      /\ \A o \in Pieces : \/ hashing'[o] = h[o]
                           \/ h[o] = "idle" /\ hashing'[o] = "hashing" /\ o \in queuedHash \ queuedHash'
      /\ \A o \in queuedHash : o \in queuedHash' \/ hashing'[o] # "idle"
      /\ Hashers'
  BY <1>1, <1>2, <1>6, <1>7, HashersStart
<1>9. /\ hashing'[p] = "idle"
      /\ \A o \in Pieces : o # p =>
           \/ hashing'[o] = hashing[o]
           \/ hashing[o] = "idle" /\ hashing'[o] = "hashing" /\ o \in queuedHash \ queuedHash'
  BY <1>3, <1>6, <1>8
<1> QED
  BY <1>1, <1>3, <1>4, <1>5, <1>8, <1>9

LEMMA MarkedKeeps ==
    ASSUME PiecesInv, NEW p \in Pieces, NEW refused \in BOOLEAN, PieceMarked(p, refused)
    PROVE  PiecesInv'
<1>1. /\ hashing[p] \in {"pass", "fail"} /\ p \notin queuedHash
      /\ completion' \in [Pieces -> Known3]
      /\ completion'[p] = IF hashing[p] = "pass" THEN "yes" ELSE "no"
      /\ \A o \in Pieces : o # p => completion'[o] = completion[o]
  BY MarkedDoes
<1>2. /\ dirty' \in [Pieces -> SUBSET {1, 2}] /\ dirty'[p] = {}
      /\ \A o \in Pieces : o # p => dirty'[o] = dirty[o]
      /\ UNCHANGED <<onDisk, writing, stored, dirtiers, recorded, bannedIPs, asked>>
  BY MarkedDoes
<1>3. /\ hashing' \in [Pieces -> HashStates] /\ queuedHash' \subseteq queuedHash /\ Hashers'
      /\ hashing'[p] = "idle"
      /\ \A o \in Pieces : o # p =>
           \/ hashing'[o] = hashing[o]
           \/ hashing[o] = "idle" /\ hashing'[o] = "hashing" /\ o \in queuedHash \ queuedHash'
      /\ \A o \in queuedHash : o \in queuedHash' \/ hashing'[o] # "idle"
  BY MarkedDoes
<1>4. Writes(p, writing) = {}
  BY <1>1 DEF PiecesInv, BusyIsQuiet, Busy
<1>5. \A o \in Pieces : Busy(o)' => Busy(o) /\ o # p
  BY <1>1, <1>3 DEF Busy
<1>6. Shapes'
  BY <1>1, <1>2, <1>3 DEF PiecesInv, Shapes
<1>7. WritesAreHad'
  <2>1. \A i \in Senders : writing[i].p # p
    BY <1>4 DEF Writes
  <2>2. \A i \in Senders : writing[i] # NoWrite => dirty'[writing[i].p] = dirty[writing[i].p]
    BY <1>2, <2>1, WriteUnderWay
  <2> QED
    BY <1>2, <2>2 DEF PiecesInv, WritesAreHad
<1>8. BusyIsQuiet'
  <2>1. SUFFICES ASSUME NEW o \in Pieces, Busy(o)'
                 PROVE  /\ Writes(o, writing) = {}
                        /\ o \notin asked \/ AllDirty(o, dirty')
                        /\ completion'[o] # "yes"
                        /\ o \in queuedHash' => hashing'[o] = "idle"
    BY <1>2 DEF BusyIsQuiet
  <2>2. /\ Busy(o) /\ o # p /\ dirty'[o] = dirty[o] /\ completion'[o] = completion[o]
    BY <1>1, <1>2, <1>5, <2>1
  <2> QED
    BY <1>3, <2>2 DEF PiecesInv, BusyIsQuiet, AllDirty
<1>9. UnaskedIsEmpty'
  BY <1>2 DEF PiecesInv, UnaskedIsEmpty
<1>10. PassedIsRight'
  <2>1. SUFFICES ASSUME NEW o \in Pieces
                 PROVE  /\ hashing'[o] = "pass" \/ completion'[o] = "yes" \/ stored[o] = "yes" =>
                             HashCorrect(o) /\ Writes(o, writing) = {}
                        /\ stored[o] = "yes" => completion'[o] = "yes" \/ hashing'[o] = "pass"
    BY <1>2 DEF PassedIsRight, HashCorrect
  <2>2. CASE o = p
    <3>1. completion[p] # "yes"
      BY <1>1 DEF PiecesInv, BusyIsQuiet, Busy
    <3> QED
      BY <1>1, <1>3, <2>2, <3>1 DEF PiecesInv, PassedIsRight
  <2>3. CASE o # p
    <3>1. completion'[o] = completion[o] /\ (hashing'[o] = "pass" <=> hashing[o] = "pass")
      BY <1>1, <1>3, <2>3
    <3> QED
      BY <3>1 DEF PiecesInv, PassedIsRight
  <2> QED
    BY <2>2, <2>3
<1>11. WrongIsBlamed'
  <2>1. SUFFICES ASSUME NEW o \in Pieces, hashing'[o] \in {"idle", "hashing"}, NEW b \in dirty'[o]
                 PROVE  \/ onDisk[o][b] = "good" \/ dirtiers[o] \cap Liars # {}
                        \/ \E j \in Senders : writing[j].p = o /\ writing[j].c = b
    BY <1>2 DEF WrongIsBlamed
  <2>2. o # p /\ b \in dirty[o]
    BY <1>2, <2>1
  <2>3. hashing[o] \in {"idle", "hashing"}
    BY <1>3, <2>1, <2>2
  <2> QED
    BY <2>2, <2>3 DEF PiecesInv, WrongIsBlamed
<1>12. FullPieceIsChecked'
  <2>1. SUFFICES ASSUME NEW o \in Pieces, AllDirty(o, dirty'), Writes(o, writing) = {}
                 PROVE  o \in queuedHash' \/ hashing'[o] # "idle"
    BY <1>2 DEF FullPieceIsChecked
  <2>2. o # p
    BY <1>2, <2>1, ChunksAre DEF AllDirty
  <2>3. o \in queuedHash \/ hashing[o] # "idle"
    BY <1>2, <2>1, <2>2 DEF PiecesInv, FullPieceIsChecked, AllDirty
  <2> QED
    BY <1>3, <2>2, <2>3
<1>13. RecordedAreLiars' /\ OnlyLiarsBanned'
  BY <1>2 DEF PiecesInv, RecordedAreLiars, OnlyLiarsBanned
<1> QED
  BY <1>3, <1>6, <1>7, <1>8, <1>9, <1>10, <1>11, <1>12, <1>13 DEF PiecesInv
-----------------------------------------------------------------------------
(* The start.                                                              *)

\* A torrent just opened, whose files are right wherever storage says so.
Fresh ==
    /\ onDisk \in [Pieces -> [{1, 2} -> Data]] /\ stored \in [Pieces -> Known3]
    /\ hashing \in [Pieces -> HashStates] /\ queuedHash \subseteq Pieces
    /\ \A p \in Pieces : p \in queuedHash => hashing[p] = "idle"
    /\ \A p \in Pieces : hashing[p] \in {"idle", "hashing"}
    /\ \A p \in Pieces : Busy(p) => completion[p] # "yes"
    /\ \A p \in Pieces : stored[p] = "yes" => HashCorrect(p)
    /\ dirty = [p \in Pieces |-> {}] /\ writing = [k \in Senders |-> NoWrite]
    /\ completion = stored /\ dirtiers = [p \in Pieces |-> {}] /\ recorded = {}
    /\ bannedIPs = {} /\ asked = {} /\ Hashers

LEMMA FreshIsSafe ==
    Fresh => PiecesInv
<1> SUFFICES ASSUME Fresh PROVE PiecesInv
  OBVIOUS
<1> USE DEF Fresh
<1>1. \A k \in Senders : writing[k] = NoWrite
  OBVIOUS
<1>2. \A p \in Pieces : dirty[p] = {} /\ Chunks(p) # {} /\ Writes(p, writing) = {}
  BY <1>1, ChunksAre DEF Writes
<1>3. Shapes
  BY ChunksAre DEF Shapes, HashStates
<1>4. WritesAreHad /\ UnaskedIsEmpty /\ WrongIsBlamed
  BY <1>1, <1>2 DEF WritesAreHad, UnaskedIsEmpty, WrongIsBlamed
<1>5. BusyIsQuiet
  BY <1>2 DEF BusyIsQuiet
<1>6. PassedIsRight
  BY <1>2 DEF PassedIsRight
<1>7. RecordedAreLiars /\ OnlyLiarsBanned /\ FullPieceIsChecked
  BY <1>2 DEF RecordedAreLiars, OnlyLiarsBanned, FullPieceIsChecked, AllDirty
<1> QED
  BY <1>3, <1>4, <1>5, <1>6, <1>7 DEF PiecesInv

LEMMA PiecesInvInit ==
    PiecesInit => PiecesInv
<1> SUFFICES ASSUME PiecesInit PROVE PiecesInv
  OBVIOUS
<1>1. PICK kept \in SUBSET Pieces :
        onDisk = [p \in Pieces |-> [c \in {1, 2} |-> IF p \in kept THEN "good" ELSE "none"]]
  BY DEF PiecesInit
<1>2. onDisk \in [Pieces -> [{1, 2} -> Data]]
  BY <1>1 DEF Data
<1>3. /\ stored \in [Pieces -> Known3] /\ \A p \in Pieces : stored[p] = "unknown"
  BY DEF PiecesInit, Known3
<1>4. /\ queuedHash = {p \in Pieces : p + PieceHashers <= PieceCount}
      /\ hashing = [p \in Pieces |-> IF p + PieceHashers <= PieceCount THEN "idle" ELSE "hashing"]
  BY DEF PiecesInit
<1>5. Hashers
  <2> DEFINE low == PieceCount - PieceHashers + 1
             first == IF low < 1 THEN 1 ELSE low
             S == {p \in Pieces : hashing[p] # "idle"}
  <2>1. first \in Int /\ PieceCount \in Int /\ PieceHashers \in Nat /\ PieceHashers >= 1
    BY SwarmAssumption
  <2>2. S \subseteq first .. PieceCount
    BY <1>4, SwarmAssumption DEF Pieces
  <2>3. IsFiniteSet(first .. PieceCount) /\ Cardinality(first .. PieceCount) <= PieceHashers
    <3>1. /\ IsFiniteSet(first .. PieceCount)
          /\ Cardinality(first .. PieceCount) = IF first > PieceCount THEN 0 ELSE PieceCount - first + 1
      <4> HIDE DEF first
      <4> QED
        BY <2>1, FS_Interval
    <3> QED
      BY <3>1, SwarmAssumption
  <2> HIDE DEF S, first
  <2>4. Cardinality(S) <= Cardinality(first .. PieceCount) /\ Cardinality(S) \in Nat
        /\ Cardinality(first .. PieceCount) \in Nat
    BY <2>2, <2>3, FS_Subset, FS_CardinalityType
  <2>5. Cardinality(S) <= PieceHashers
    BY <2>1, <2>3, <2>4
  <2> QED
    BY <2>5 DEF S, Hashers
<1>6. /\ hashing \in [Pieces -> HashStates] /\ queuedHash \subseteq Pieces
      /\ \A p \in Pieces : p \in queuedHash => hashing[p] = "idle"
      /\ \A p \in Pieces : hashing[p] \in {"idle", "hashing"}
  BY <1>4 DEF HashStates
<1>7. /\ dirty = [p \in Pieces |-> {}] /\ writing = [k \in Senders |-> NoWrite]
      /\ completion = stored /\ dirtiers = [p \in Pieces |-> {}] /\ recorded = {}
      /\ bannedIPs = {} /\ asked = {}
  BY DEF PiecesInit
<1> QED
  BY <1>2, <1>3, <1>5, <1>6, <1>7, FreshIsSafe DEF Fresh

\* A restart finds the files and what storage kept of them.
LEMMA RebootKeeps ==
    ASSUME PiecesInv, Reboot
    PROVE  PiecesInv'
<1> DEFINE q == {p \in Pieces : stored[p] = "unknown"}
           h == [p \in Pieces |-> "idle"]
<1>1. /\ dirty' = [p \in Pieces |-> {}] /\ writing' = [k \in Senders |-> NoWrite]
      /\ completion' = stored /\ dirtiers' = [p \in Pieces |-> {}] /\ recorded' = {}
      /\ bannedIPs' = {} /\ asked' = {} /\ StartPieceHashers(q, h)
      /\ UNCHANGED <<onDisk, stored>>
  BY DEF Reboot, Opened
<1>2. h \in [Pieces -> HashStates] /\ q \in SUBSET Pieces /\ \A p \in Pieces : h[p] = "idle"
  BY DEF HashStates
<1>3. Cardinality({p \in Pieces : h[p] # "idle"}) <= PieceHashers
  <2>1. {p \in Pieces : h[p] # "idle"} = {}
    BY <1>2
  <2> HIDE DEF h
  <2> QED
    BY <2>1, FS_EmptySet, SwarmAssumption
<1> HIDE DEF h, q
<1>4. /\ hashing' \in [Pieces -> HashStates] /\ queuedHash' \subseteq q
      /\ \A p \in Pieces : \/ hashing'[p] = h[p]
                           \/ h[p] = "idle" /\ hashing'[p] = "hashing" /\ p \in q \ queuedHash'
      /\ Hashers'
  BY <1>1, <1>2, <1>3, HashersStart
<1>5. \A p \in Pieces : Busy(p)' => p \in q
  BY <1>2, <1>4 DEF Busy
<1>6. onDisk \in [Pieces -> [{1, 2} -> Data]] /\ stored \in [Pieces -> Known3]
  BY DEF PiecesInv, Shapes
<1>7. \A p \in Pieces : stored[p] = "yes" => HashCorrect(p)'
  BY <1>1 DEF PiecesInv, PassedIsRight, HashCorrect
<1>8. Fresh'
  <2>1. \A p \in Pieces : Busy(p)' => completion'[p] # "yes"
    BY <1>1, <1>5 DEF q
  <2>2. \A p \in Pieces : p \in queuedHash' => hashing'[p] = "idle"
    BY <1>2, <1>4
  <2>3. \A p \in Pieces : hashing'[p] \in {"idle", "hashing"}
    BY <1>2, <1>4
  <2>4. queuedHash' \subseteq Pieces
    BY <1>2, <1>4
  <2> QED
    BY <1>1, <1>4, <1>6, <1>7, <2>1, <2>2, <2>3, <2>4 DEF Fresh
<1> QED
  BY <1>8, FreshIsSafe, PTL
-----------------------------------------------------------------------------
(* The theorems.                                                           *)

LEMMA PiecesInvNext ==
    PiecesInv /\ [PiecesNext]_pieceVars => PiecesInv'
<1> SUFFICES ASSUME PiecesInv, [PiecesNext]_pieceVars PROVE PiecesInv'
  OBVIOUS
<1>1. CASE UNCHANGED pieceVars
  BY <1>1, IdleKeeps DEF pieceVars
<1>2. ASSUME NEW p \in Pieces,
             \/ AskFor(p) \/ MarkInStorage(p)
             \/ \E fails \in BOOLEAN : FinishHash(p, fails) \/ PieceMarked(p, fails)
             \/ \E k \in Senders, c \in Chunks(p), d \in {"good", "bad"} : ReceiveChunk(k, p, c, d)
      PROVE  PiecesInv'
  BY <1>2, AskForKeeps, MarkKeeps, FinishHashKeeps, MarkedKeeps, ReceiveKeeps
<1>3. ASSUME NEW k \in Senders, ChunkWritten(k) \/ WriteFails(k) \/ SenderLeaves(k)
      PROVE  PiecesInv'
  <2>1. CASE SenderLeaves(k)
    BY <2>1, IdleKeeps DEF SenderLeaves
  <2> QED
    BY <1>3, <2>1, ChunkWrittenKeeps, WriteFailsKeeps
<1>4. CASE AllowDataDownload
  BY <1>4, IdleKeeps DEF AllowDataDownload
<1>5. CASE Reboot
  BY <1>5, RebootKeeps
<1> QED
  BY <1>1, <1>2, <1>3, <1>4, <1>5 DEF PiecesNext

\* The inductive invariant of a piece between the network and the disk: nothing is written to
\* a piece that is queued, hashed or marked (torrent.go, piece.go, peer.go).
THEOREM PiecesInvariant == PiecesSpec => []PiecesInv
<1> QED
  BY PiecesInvInit, PiecesInvNext, PTL DEF PiecesSpec

\* What the run checks for two pieces and two peers, for any number of both: what is called
\* complete is right, what is full is checked, who is banned lied (pieceHashed, receiveChunk,
\* smartban).
THEOREM PiecesStaySafe == PiecesSpec => []PiecesSafe
<1>1. PiecesInv => PiecesSafe
  <2> SUFFICES ASSUME PiecesInv PROVE PiecesSafe
    OBVIOUS
  <2>1. PiecesTypeOK
    <3>1. \A p \in Pieces : dirty[p] \subseteq Chunks(p) /\ dirtiers[p] \subseteq Senders
      BY DEF PiecesInv, Shapes
    <3>2. /\ hashing \in [Pieces -> {"idle", "hashing", "pass", "fail"}]
          /\ completion \in [Pieces -> {"unknown", "no", "yes"}]
          /\ stored \in [Pieces -> {"unknown", "no", "yes"}]
          /\ queuedHash \subseteq Pieces /\ asked \subseteq Pieces
      BY DEF PiecesInv, Shapes, HashStates, Known3
    <3> QED
      BY <3>1, <3>2 DEF PiecesInv, Hashers, PiecesTypeOK
  <2>2. CompleteIsGood
    BY DEF PiecesInv, PassedIsRight, CompleteIsGood
  <2> QED
    BY <2>1, <2>2 DEF PiecesInv, PiecesSafe
<1> QED
  BY <1>1, PiecesInvariant, PTL
-----------------------------------------------------------------------------
(* The refinement: a torrent's pieces are a PieceStore.                    *)

Good == {p \in Pieces : HashCorrect(p)}
Complete == {p \in Pieces : stored[p] = "yes"}
Shown == {p \in Pieces : completion[p] = "yes"}

\* Steps that change neither files nor marks do not show.
LEMMA UnseenStutters ==
    ASSUME UNCHANGED <<onDisk, stored, completion, ioFaults>>
    PROVE  UNCHANGED Store!storeVars
  BY DEF Store!storeVars, HashCorrect

\* The end of a write fills or spoils its piece, which was never verified.
LEMMA WrittenFills ==
    ASSUME PiecesInv, NEW k \in Senders, ChunkWritten(k)
    PROVE  Store!StoreNext
<1> DEFINE p == writing[k].p
           c == writing[k].c
<1>1. /\ writing[k] # NoWrite /\ onDisk' = [onDisk EXCEPT ![p][c] = writing[k].data]
      /\ UNCHANGED <<completion, stored, ioFaults>>
  BY DEF ChunkWritten
<1>2. p \in Pieces /\ completion[p] # "yes" /\ stored[p] # "yes"
  BY <1>1, WriteUnderWay
<1> HIDE DEF p, c
<1>3. \A o \in Pieces : o # p => onDisk'[o] = onDisk[o]
  BY <1>1, <1>2 DEF PiecesInv, Shapes
<1>4. \A o \in Pieces : o # p => (HashCorrect(o)' <=> HashCorrect(o))
  BY <1>3 DEF HashCorrect
<1>5. Good' \in {Good \cup {p}, Good \ {p}}
  <2>1. CASE p \in Good'
    <3>1. Good' = Good \cup {p}
      BY <1>2, <1>4, <2>1 DEF Good
    <3> QED
      BY <3>1
  <2>2. CASE p \notin Good'
    <3>1. Good' = Good \ {p}
      BY <1>2, <1>4, <2>2 DEF Good
    <3> QED
      BY <3>1
  <2> QED
    BY <2>1, <2>2
<1>6. Complete' = Complete /\ Shown' = Shown /\ p \notin Complete \cup Shown
  BY <1>1, <1>2 DEF Complete, Shown
<1>7. Store!Fill(p)
  BY <1>1, <1>5, <1>6 DEF Store!Fill, Good, Complete, Shown
<1> QED
  BY <1>2, <1>7 DEF Store!StoreNext

\* A mark in storage verifies the piece if it passed; what storage has as complete never fails.
LEMMA MarkVerifies ==
    ASSUME PiecesInv, NEW p \in Pieces, MarkInStorage(p)
    PROVE  [Store!StoreNext]_(Store!storeVars)
<1>1. /\ hashing[p] \in {"pass", "fail"}
      /\ stored' = [stored EXCEPT ![p] = IF hashing[p] = "pass" THEN "yes" ELSE "no"]
      /\ UNCHANGED <<onDisk, completion, ioFaults>>
  BY DEF MarkInStorage, Marking
<1>2. /\ \A o \in Pieces : o # p => stored'[o] = stored[o]
      /\ stored'[p] = IF hashing[p] = "pass" THEN "yes" ELSE "no"
  BY <1>1 DEF PiecesInv, Shapes
<1>3. Good' = Good /\ Shown' = Shown
  BY <1>1 DEF Good, Shown, HashCorrect
<1>4. CASE hashing[p] = "pass"
  <2>1. p \in Good /\ Complete' = Complete \cup {p}
    BY <1>2, <1>4 DEF PiecesInv, PassedIsRight, Good, Complete
  <2>2. Store!Verify(p)
    BY <1>1, <1>3, <2>1 DEF Store!Verify, Good, Complete, Shown
  <2> QED
    BY <2>2 DEF Store!StoreNext
<1>5. CASE hashing[p] = "fail"
  <2>1. stored[p] # "yes"
    BY <1>5 DEF PiecesInv, PassedIsRight, BusyIsQuiet, Busy
  <2>2. Complete' = Complete
    BY <1>2, <1>5, <2>1 DEF Complete
  <2>3. UNCHANGED Store!storeVars
    BY <1>1, <1>3, <2>2 DEF Store!storeVars, Good, Complete, Shown
  <2> QED
    BY <2>3
<1> QED
  BY <1>1, <1>4, <1>5

\* The end of a mark shows the piece if it passed.
LEMMA MarkedShows ==
    ASSUME PiecesInv, NEW p \in Pieces, NEW refused \in BOOLEAN, PieceMarked(p, refused)
    PROVE  [Store!StoreNext]_(Store!storeVars)
<1>1. /\ hashing[p] \in {"pass", "fail"}
      /\ completion'[p] = IF hashing[p] = "pass" THEN "yes" ELSE "no"
      /\ \A o \in Pieces : o # p => completion'[o] = completion[o]
      /\ UNCHANGED <<onDisk, stored>>
  BY MarkedDoes
<1>2. IF refused THEN ioFaults' = ioFaults + 1
      ELSE ioFaults' = ioFaults /\ stored[p] = IF hashing[p] = "pass" THEN "yes" ELSE "no"
  BY DEF PieceMarked, StorageTold
<1>3. Good' = Good /\ Complete' = Complete
  BY <1>1 DEF Good, Complete, HashCorrect
<1>4. CASE hashing[p] = "pass"
  <2>1. p \in Good /\ Shown' = Shown \cup {p}
    BY <1>1, <1>4 DEF PiecesInv, PassedIsRight, Good, Shown
  <2>2. CASE refused
    <3>1. Store!ShowUnkept(p)
      BY <1>2, <1>3, <2>1, <2>2 DEF Store!ShowUnkept, Good, Complete, Shown
    <3> QED
      BY <3>1 DEF Store!StoreNext
  <2>3. CASE ~refused
    <3>1. p \in Complete
      BY <1>2, <1>4, <2>3 DEF Complete
    <3>2. Store!Show(p)
      BY <1>2, <1>3, <2>1, <2>3, <3>1 DEF Store!Show, Good, Complete, Shown
    <3> QED
      BY <3>2 DEF Store!StoreNext
  <2> QED
    BY <2>2, <2>3
<1>5. CASE hashing[p] = "fail"
  <2>1. completion[p] # "yes"
    BY <1>5 DEF PiecesInv, BusyIsQuiet, Busy
  <2>2. Shown' = Shown
    BY <1>1, <1>5, <2>1 DEF Shown
  <2>3. CASE refused
    <3>1. Store!Fault
      BY <1>2, <1>3, <2>2, <2>3 DEF Store!Fault, Good, Complete, Shown
    <3> QED
      BY <3>1 DEF Store!StoreNext
  <2>4. CASE ~refused
    <3>1. UNCHANGED Store!storeVars
      BY <1>2, <1>3, <2>2, <2>4 DEF Store!storeVars, Good, Complete, Shown
    <3> QED
      BY <3>1
  <2> QED
    BY <2>3, <2>4
<1> QED
  BY <1>1, <1>4, <1>5

LEMMA StoreStep ==
    PiecesInv /\ [PiecesNext]_pieceVars => [Store!StoreNext]_(Store!storeVars)
<1> SUFFICES ASSUME PiecesInv, [PiecesNext]_pieceVars PROVE [Store!StoreNext]_(Store!storeVars)
  OBVIOUS
<1>1. ASSUME UNCHANGED <<onDisk, stored, completion>>, ioFaults' = ioFaults + 1
      PROVE  Store!StoreNext
  <2>1. Store!Fault
    BY <1>1 DEF Store!Fault, HashCorrect
  <2> QED
    BY <2>1 DEF Store!StoreNext
<1>2. CASE UNCHANGED pieceVars
  BY <1>2, UnseenStutters DEF pieceVars
<1>3. ASSUME NEW p \in Pieces, AskFor(p)
      PROVE  UNCHANGED Store!storeVars
  BY <1>3, UnseenStutters DEF AskFor
<1>4. ASSUME NEW p \in Pieces, NEW ioErr \in BOOLEAN, FinishHash(p, ioErr)
      PROVE  [Store!StoreNext]_(Store!storeVars)
  <2>1. UNCHANGED <<onDisk, stored, completion>> /\ ioFaults' = IF ioErr THEN ioFaults + 1 ELSE ioFaults
    BY <1>4 DEF FinishHash
  <2> QED
    BY <1>1, <2>1, UnseenStutters
<1>5. ASSUME NEW p \in Pieces, NEW k \in Senders, NEW c \in Chunks(p), NEW d \in {"good", "bad"},
             ReceiveChunk(k, p, c, d)
      PROVE  UNCHANGED Store!storeVars
  BY <1>5, UnseenStutters DEF ReceiveChunk
<1>6. ASSUME NEW k \in Senders, WriteFails(k)
      PROVE  Store!StoreNext
  BY <1>1, <1>6 DEF WriteFails
<1>7. ASSUME NEW k \in Senders, SenderLeaves(k)
      PROVE  UNCHANGED Store!storeVars
  BY <1>7, UnseenStutters DEF SenderLeaves
<1>8. CASE AllowDataDownload
  BY <1>8, UnseenStutters DEF AllowDataDownload
<1>9. CASE Reboot
  <2>1. completion' = stored /\ UNCHANGED <<onDisk, stored, ioFaults>>
    BY <1>9 DEF Reboot, Opened
  <2>2. Store!Restart
    BY <2>1 DEF Store!Restart, HashCorrect
  <2> QED
    BY <2>2 DEF Store!StoreNext
<1> QED
  BY <1>2, <1>3, <1>4, <1>5, <1>6, <1>7, <1>8, <1>9, MarkVerifies, MarkedShows, WrittenFills
     DEF PiecesNext

LEMMA StoreBegins ==
    PiecesInit => Store!StoreInit
<1> SUFFICES ASSUME PiecesInit PROVE Store!StoreInit
  OBVIOUS
<1>1. completion = stored /\ (\A p \in Pieces : stored[p] = "unknown") /\ ioFaults = 0
  BY DEF PiecesInit
<1> QED
  BY <1>1 DEF Store!StoreInit

\* The pieces of a torrent implement PieceStore, with a piece complete when storage says so
\* and shown when the cached completion does: whatever writes, hashes, marks and crashes
\* overlap, a piece is called complete only when it is right, and is not taken back.
THEOREM PiecesAreStored == PiecesSpec => StoresPieces
<1>1. PiecesSpec => Store!StoreInit /\ [][Store!StoreNext]_(Store!storeVars)
  BY PiecesInvariant, StoreBegins, StoreStep, PTL DEF PiecesSpec
<1> QED
  BY <1>1 DEF StoresPieces, Store!StoreSpec

-----------------------------------------------------------------------------
(* The announce to the DHT.                                                *)

DhtShape ==
  /\ unqueried \subseteq Entries /\ queriedAt \subseteq DhtNodes /\ nearest \subseteq DhtNodes /\ found \subseteq DhtNodes
  /\ query \in [Entries -> {"none", "asked", "deliver", "add"}]
  /\ loop \in {"check", "fill", "unlocked", "parked", "ended"}
  /\ ann \in {"setup", "waiting", "stopping", "announcing", "finished"}
  /\ offer \in BOOLEAN /\ woken \in BOOLEAN /\ stopping \in BOOLEAN /\ stoppedOp \in BOOLEAN
  /\ annClosed \in BOOLEAN /\ hasty \in BOOLEAN

(* The traversal has nothing under way and nothing left to ask. *)
Stalled == ~haveQuery(unqueried) /\ Outstanding = {}

(* Who stopped it: the announce, which then goes on, or whoever closed it. *)
StopOrder ==
  /\ stoppedOp => stopping /\ loop # "fill"
  /\ ann \in {"announcing", "finished"} => stoppedOp
  /\ ann \in {"stopping", "announcing", "finished"} => stopping /\ loop \in {"check", "ended"}
  /\ ann \in {"setup", "waiting"} /\ stopping => annClosed
  /\ ann # "announcing" => toTell = {}
  /\ ann \in {"setup", "waiting", "stopping"} => told = {}
  /\ loop = "ended" => stopping

(* An offer stands while the loop waits, unless nodes came since; once it is taken nothing is
   asked any more. *)
StallHolds ==
  /\ woken => loop = "unlocked"
  /\ offer /\ loop \in {"unlocked", "parked"} => Outstanding = {} /\ (woken \/ ~haveQuery(unqueried))
  /\ ann \in {"stopping", "announcing", "finished"} /\ ~annClosed /\ ~hasty => Stalled

(* Whoever answered with a token is among the nearest, is farther than all of K of them, or has
   its answer still in hand. *)
AnswersKept ==
  /\ \A e \in Entries : query[e] = "add" => e[1] \in found
  /\ \A n \in found \ Tokenless :
       \/ n \in nearest
       \/ Cardinality(nearest) >= KNearest /\ n > Farthest(nearest)
       \/ \E e \in Entries : query[e] = "add" /\ e[1] = n

(* What is being asked is not on the list any more, and its address is noted. *)
OnceAsked == \A e \in Outstanding : e \notin unqueried /\ e[1] \in queriedAt

DhtInv ==
  DhtShape /\ DhtTypeOK /\ NoSendAfterClose /\ StopOrder /\ StallHolds /\ AnswersKept /\ OnceAsked

-----------------------------------------------------------------------------
(* The farthest and the closest of a set, and what Push leaves of it. *)

\* Every finite set of numbers has a greatest one ...
LEMMA Greatest ==
  ASSUME NEW S \in SUBSET Nat, IsFiniteSet(S), S # {}
  PROVE  \E m \in S : \A x \in S : x <= m
<1> DEFINE above(p) == {o \in S : o > p}
           all == {above(p) : p \in S}
<1>1. all \subseteq FiniteSubsetsOf(S) /\ all # {}
  <2>1. \A p : above(p) \in SUBSET S /\ IsFiniteSet(above(p))
    BY FS_Subset
  <2> HIDE DEF above
  <2> QED BY <2>1 DEF FiniteSubsetsOf
<1>2. PICK X \in all : \A Y \in all : ~(<<Y, X>> \in StrictSubsetOrdering(S))
  <2> HIDE DEF all
  <2> QED BY <1>1, FS_StrictSubsetOrderingWellFounded, WFMin
<1>3. PICK m \in S : X = above(m)
  BY <1>2
<1>4. ASSUME NEW y \in S, y > m
      PROVE  FALSE
  <2>1. \A o \in S : o > y => o > m
    BY <1>4
  <2>2. above(y) \subseteq above(m)
    BY <2>1
  <2>3. y \in above(m) /\ ~(y > y)
    BY <1>4
  <2>4. y \notin above(y)
    BY <2>3
  <2>5. <<above(y), above(m)>> \in StrictSubsetOrdering(S)
    BY <2>2, <2>3, <2>4 DEF StrictSubsetOrdering
  <2> QED BY <1>2, <1>3, <2>5
<1>5. \A y \in S : y <= m
  BY <1>4
<1> QED BY <1>5

\* ... and every set of numbers a least one.
LEMMA LeastOf ==
  ASSUME NEW S \in SUBSET Nat, S # {}
  PROVE  \E m \in S : \A x \in S : m <= x
<1>1. PICK m \in S : \A y \in S : ~(<<y, m>> \in OpToRel(<, Nat))
  BY NatLessThanWellFounded, WFMin
<1>2. \A y \in S : ~(y < m)
  BY <1>1 DEF OpToRel
<1> QED BY <1>2

LEMMA FarthestIs ==
  ASSUME NEW S \in SUBSET DhtNodes, S # {}
  PROVE  Farthest(S) \in S /\ \A m \in S : m <= Farthest(S)
<1>1. S \in SUBSET Nat /\ IsFiniteSet(S)
  BY DhtAssumption, FS_Subset
<1>2. \E n \in S : \A m \in S : m <= n
  BY <1>1, Greatest
<1> QED BY <1>2 DEF Farthest

LEMMA ClosestIs ==
  ASSUME NEW U \in SUBSET Entries, U # {}
  PROVE  /\ Closest(U) \in U
         /\ \A f \in U : (f[2] => Closest(U)[2]) /\ (f[2] = Closest(U)[2] => Closest(U)[1] <= f[1])
<1> DEFINE V == IF \E f \in U : f[2] THEN {f \in U : f[2]} ELSE U
           D == {f[1] : f \in V}
<1>1. \A f \in Entries : f[1] \in Nat /\ f[2] \in BOOLEAN
  BY DhtAssumption DEF Entries
<1>2. V \subseteq U /\ V # {} /\ \A f \in U : /\ \A g \in V : f[2] => g[2]
                                              /\ \A g \in V : f[2] = g[2] => f \in V
  BY <1>1
<1> HIDE DEF V
<1>3. D \in SUBSET Nat /\ D # {}
  BY <1>1, <1>2
<1>4. PICK m \in D : \A x \in D : m <= x
  <2> HIDE DEF D
  <2> QED BY <1>3, LeastOf
<1>5. PICK e \in V : e[1] = m
  BY <1>4
<1>6. e \in U /\ \A f \in U : (f[2] => e[2]) /\ (f[2] = e[2] => e[1] <= f[1])
  BY <1>2, <1>4, <1>5
<1> QED BY <1>6 DEF Closest

\* Push: the K closest of those it held and the new one.
LEMMA PushedOf ==
  ASSUME nearest \subseteq DhtNodes, Cardinality(nearest) <= KNearest, NEW n \in DhtNodes
  PROVE  LET N == PushNearest(n) IN
         /\ N \subseteq nearest \cup ({n} \ Tokenless) /\ Cardinality(N) <= KNearest
         /\ \A m \in (nearest \cup {n}) \ Tokenless :
              m \in N \/ (Cardinality(N) >= KNearest /\ m > Farthest(N))
         /\ Cardinality(nearest) >= KNearest =>
              Cardinality(N) >= KNearest /\ Farthest(N) <= Farthest(nearest)
<1> DEFINE S == IF n \in Tokenless THEN nearest ELSE nearest \cup {n}
           N == PushNearest(n)
<1>1. IsFiniteSet(nearest) /\ Cardinality(nearest) \in Nat /\ KNearest \in Nat \ {0}
  BY DhtAssumption, FS_Subset, FS_CardinalityType
<1>2. /\ S \in SUBSET DhtNodes /\ IsFiniteSet(S) /\ Cardinality(S) \in Nat
      /\ S = nearest \/ (S = nearest \cup {n} /\ Cardinality(S) = Cardinality(nearest) + 1)
      /\ (nearest \cup {n}) \ Tokenless \subseteq S /\ S \subseteq nearest \cup ({n} \ Tokenless)
  <2>1. CASE n \in Tokenless \/ n \in nearest
    BY <1>1, <2>1
  <2>2. CASE n \notin Tokenless /\ n \notin nearest
    BY <1>1, <2>2, FS_AddElement, FS_CardinalityType
  <2> QED BY <2>1, <2>2
<1>3. N = IF Cardinality(S) > KNearest THEN S \ {Farthest(S)} ELSE S
  BY DEF PushNearest
<1>4. nearest # {} => Farthest(nearest) \in nearest /\ \A m \in nearest : m <= Farthest(nearest)
  BY FarthestIs
<1>5. Cardinality(nearest) >= KNearest => nearest # {}
  BY <1>1, FS_EmptySet
<1> HIDE DEF S, N
<1>6. CASE ~(Cardinality(S) > KNearest)
  <2>1. N = S /\ Cardinality(N) <= KNearest
    BY <1>1, <1>2, <1>3, <1>6
  <2>2. Cardinality(nearest) >= KNearest => N = nearest
    BY <1>1, <1>2, <1>6, <2>1
  <2>3. Cardinality(nearest) >= KNearest => Cardinality(N) >= KNearest /\ Farthest(N) <= Farthest(nearest)
    <3>1. nearest # {} => Farthest(nearest) \in Nat
      BY <1>4, DhtAssumption
    <3> QED BY <1>5, <2>2, <3>1
  <2> QED BY <1>2, <2>1, <2>3 DEF N
<1>7. CASE Cardinality(S) > KNearest
  <2>1. S = nearest \cup {n} /\ Cardinality(S) = KNearest + 1 /\ Cardinality(nearest) = KNearest /\ S # {}
    BY <1>1, <1>2, <1>7
  <2>2. Farthest(S) \in S /\ \A m \in S : m <= Farthest(S)
    BY <1>2, <2>1, FarthestIs
  <2>3. N = S \ {Farthest(S)} /\ Cardinality(N) = KNearest
    <3>1. N = S \ {Farthest(S)}
      BY <1>3, <1>7
    <3>2. Cardinality(S \ {Farthest(S)}) = Cardinality(S) - 1
      BY <1>2, <2>2, FS_RemoveElement
    <3> QED BY <1>1, <2>1, <3>1, <3>2
  <2>4. N \in SUBSET DhtNodes /\ N # {}
    BY <1>1, <1>2, <2>3, FS_EmptySet
  <2>5. Farthest(N) \in N /\ \A m \in N : m <= Farthest(N)
    BY <2>4, FarthestIs
  <2>6. \A m \in S : m \in Nat
    BY <1>2, DhtAssumption
  <2>7. Farthest(S) > Farthest(N)
    BY <2>2, <2>3, <2>5, <2>6
  <2>8. Farthest(N) <= Farthest(nearest)
    <3>1. CASE Farthest(N) \in nearest
      BY <1>4, <3>1
    <3>2. CASE Farthest(N) = n
      <4>1. Farthest(S) \in nearest
        BY <2>1, <2>2, <2>6, <2>7, <3>2, <2>3
      <4>2. Farthest(S) <= Farthest(nearest) /\ Farthest(nearest) \in Nat
        BY <1>4, <2>1, <2>6, <4>1
      <4> QED BY <2>2, <2>5, <2>6, <2>7, <4>2, <2>3
    <3> QED BY <2>1, <2>3, <2>5, <3>1, <3>2
  <2>9. \A m \in S : m \in N \/ m > Farthest(N)
    BY <2>3, <2>7
  <2>10. N \subseteq nearest \cup ({n} \ Tokenless)
    BY <1>2, <2>3
  <2>11. Cardinality(N) <= KNearest /\ Cardinality(N) >= KNearest
    BY <1>1, <2>3
  <2> QED BY <1>2, <2>8, <2>9, <2>10, <2>11 DEF N
<1> QED BY <1>6, <1>7

-----------------------------------------------------------------------------
(* The steps. *)

LEMMA OutstandingFinite ==
  IsFiniteSet(Outstanding) /\ Cardinality(Outstanding) \in Nat /\ IsFiniteSet(Outstanding') /\ Cardinality(Outstanding') \in Nat
<1>1. IsFiniteSet(BOOLEAN)
  <2>1. BOOLEAN = {TRUE} \cup {FALSE}
    OBVIOUS
  <2>2. \A b : IsFiniteSet({b})
    BY FS_Singleton
  <2>3. ASSUME NEW a, NEW b
        PROVE  IsFiniteSet({a} \cup {b})
    BY <2>2, FS_Union
  <2> QED BY <2>1, <2>3, Zenon
<1>2. IsFiniteSet(Entries)
  BY <1>1, DhtAssumption, FS_Product DEF Entries
<1>3. Outstanding \in SUBSET Entries /\ Outstanding' \in SUBSET Entries
  BY DEF Outstanding
<1> QED BY <1>2, <1>3, FS_Subset, FS_CardinalityType

\* What is not asked any more makes room.
LEMMA FewerOut ==
  ASSUME Cardinality(Outstanding) <= Alpha, Outstanding' \subseteq Outstanding
  PROVE  Cardinality(Outstanding') <= Alpha
<1>1. Cardinality(Outstanding') <= Cardinality(Outstanding)
  BY OutstandingFinite, FS_Subset
<1> QED BY <1>1, OutstandingFinite, DhtAssumption

LEMMA HaveQueryOf ==
  ASSUME unqueried' = unqueried, nearest' = nearest
  PROVE  haveQuery(unqueried)' <=> haveQuery(unqueried)
  BY DEF haveQuery

LEMMA SameAnswers ==
  ASSUME AnswersKept, nearest' = nearest, found' = found,
         \A e \in Entries : query'[e] = "add" <=> query[e] = "add"
  PROVE  AnswersKept'
  BY DEF AnswersKept

\* The announce's own steps, which ask nothing.
AskedSame == unqueried' = unqueried /\ query' = query /\ nearest' = nearest /\ found' = found /\ queriedAt' = queriedAt

LEMMA AnnounceStep ==
  ASSUME DhtInv, \/ BeginTelling \/ FinishAnnounce \/ CloseAnnounce \/ StoppedSets
                 \/ \E n \in DhtNodes : Tell(n) \/ GiveUpTelling(n)
  PROVE  DhtInv'
<1>. USE DEF DhtInv
<1>1. AskedSame /\ loop' = loop /\ offer' = offer /\ woken' = woken /\ hasty' = hasty
  BY DEF BeginTelling, FinishAnnounce, CloseAnnounce, StoppedSets, Tell, GiveUpTelling, AskedSame
<1>2. DhtShape'
  <2>1. /\ stopping' \in BOOLEAN /\ stoppedOp' \in BOOLEAN /\ annClosed' \in BOOLEAN
        /\ ann' \in {"setup", "waiting", "stopping", "announcing", "finished"}
    <3>1. CASE BeginTelling \/ FinishAnnounce \/ CloseAnnounce \/ StoppedSets
      BY <3>1 DEF DhtShape, BeginTelling, FinishAnnounce, CloseAnnounce, StoppedSets
    <3>2. ASSUME NEW n \in DhtNodes, Tell(n) \/ GiveUpTelling(n)
          PROVE  stopping' = stopping /\ stoppedOp' = stoppedOp /\ annClosed' = annClosed /\ ann' = ann
      BY <3>2 DEF Tell, GiveUpTelling
    <3> QED BY <3>1, <3>2 DEF DhtShape
  <2> QED BY <1>1, <2>1 DEF DhtShape, AskedSame
<1>3. Outstanding' = Outstanding /\ (haveQuery(unqueried)' <=> haveQuery(unqueried))
  BY <1>1, HaveQueryOf DEF AskedSame, Outstanding
<1>4. told' \cup toTell' \subseteq nearest
  BY DEF BeginTelling, FinishAnnounce, CloseAnnounce, StoppedSets, Tell, GiveUpTelling, DhtTypeOK
<1>5. DhtTypeOK'
  BY <1>1, <1>3, <1>4 DEF DhtTypeOK, AskedSame
<1>6. StopOrder'
  <2>1. CASE BeginTelling
    BY <2>1 DEF BeginTelling, StopOrder
  <2>2. CASE FinishAnnounce \/ CloseAnnounce
    BY <2>2 DEF FinishAnnounce, CloseAnnounce, StopOrder, DhtShape
  <2>3. CASE StoppedSets
    BY <2>3 DEF StoppedSets, StopOrder
  <2>4. ASSUME NEW n \in DhtNodes, Tell(n) \/ GiveUpTelling(n)
        PROVE  StopOrder'
    BY <2>4 DEF Tell, GiveUpTelling, StopOrder, DhtShape
  <2> QED BY <2>1, <2>2, <2>3, <2>4
<1>7. NoSendAfterClose'
  BY <1>3 DEF NoSendAfterClose, BeginTelling, FinishAnnounce, CloseAnnounce, StoppedSets, Tell, GiveUpTelling
<1>8. StallHolds'
  BY <1>1, <1>3 DEF StallHolds, Stalled, BeginTelling, FinishAnnounce, CloseAnnounce, StoppedSets, Tell, GiveUpTelling
<1>9. AnswersKept'
  BY <1>1, SameAnswers DEF AskedSame
<1>10. OnceAsked'
  BY <1>1, <1>3 DEF OnceAsked, AskedSame
<1>. QED BY <1>2, <1>5, <1>6, <1>7, <1>8, <1>9, <1>10

LEMMA LoopStep ==
  ASSUME DhtInv, LookOp \/ UnlockOp \/ RunEnds \/ ParkOp \/ TakeStall
  PROVE  DhtInv'
<1>. USE DEF DhtInv
<1>1. AskedSame /\ told' = told /\ toTell' = toTell /\ stoppedOp' = stoppedOp /\ annClosed' = annClosed
  BY DEF LookOp, UnlockOp, RunEnds, ParkOp, TakeStall, AskedSame
<1>2. DhtShape'
  BY <1>1 DEF DhtShape, AskedSame, LookOp, UnlockOp, RunEnds, ParkOp, TakeStall
<1>3. Outstanding' = Outstanding /\ (haveQuery(unqueried)' <=> haveQuery(unqueried))
  BY <1>1, HaveQueryOf DEF AskedSame, Outstanding
<1>4. DhtTypeOK' /\ NoSendAfterClose'
  BY <1>1, <1>3 DEF DhtTypeOK, AskedSame, NoSendAfterClose
<1>5. StopOrder'
  <2>1. CASE LookOp
    BY <1>1, <2>1 DEF LookOp, StopOrder
  <2>2. CASE UnlockOp \/ RunEnds
    BY <1>1, <2>2 DEF UnlockOp, RunEnds, StopOrder
  <2>3. CASE ParkOp
    BY <1>1, <2>3 DEF ParkOp, StopOrder
  <2>4. CASE TakeStall
    BY <1>1, <2>4 DEF TakeStall, StopOrder
  <2> QED BY <2>1, <2>2, <2>3, <2>4
<1>6. StallHolds'
  <2>1. CASE LookOp
    BY <1>3, <2>1 DEF LookOp, StallHolds, Stalled
  <2>2. CASE UnlockOp
    BY <1>3, <2>2 DEF UnlockOp, StallHolds, Stalled, StopOrder
  <2>3. CASE RunEnds
    BY <1>3, <2>3 DEF RunEnds, StallHolds, Stalled
  <2>4. CASE ParkOp
    BY <1>3, <2>4 DEF ParkOp, StallHolds, Stalled
  <2>5. CASE TakeStall
    <3>1. ann = "waiting" /\ offer /\ loop' \in {"check", "ended"} /\ ~woken'
      BY <2>5 DEF TakeStall
    <3>2. CASE loop = "ended"
      BY <1>1, <3>1, <3>2 DEF StallHolds, StopOrder
    <3>3. CASE loop # "ended" /\ ~hasty'
      <4>1. loop \in {"unlocked", "parked"} /\ ~woken
        BY <2>5, <3>3 DEF TakeStall, StallHolds, DhtShape
      <4> QED BY <1>3, <3>1, <4>1 DEF StallHolds, Stalled
    <3>4. CASE hasty'
      BY <3>1, <3>4 DEF StallHolds
    <3> QED BY <3>2, <3>3, <3>4
  <2> QED BY <2>1, <2>2, <2>3, <2>4, <2>5
<1>7. AnswersKept'
  BY <1>1, SameAnswers DEF AskedSame
<1>8. OnceAsked'
  BY <1>1, <1>3 DEF OnceAsked, AskedSame
<1>. QED BY <1>2, <1>4, <1>5, <1>6, <1>7, <1>8

\* What stands while the queries run: nothing of the announce changes but its start.
AnnounceSame ==
  /\ offer' = offer /\ stopping' = stopping /\ stoppedOp' = stoppedOp /\ annClosed' = annClosed
  /\ told' = told /\ toTell' = toTell /\ hasty' = hasty

LEMMA SignalsTo ==
  ASSUME DhtInv, Signals(TRUE), loop # "fill"
  PROVE  /\ loop' \in {"check", "unlocked", "ended"} /\ woken' \in BOOLEAN
         /\ loop' = "check" \/ loop' = loop
         /\ loop' = "unlocked" => woken'
         /\ woken' => loop' = "unlocked"
         /\ loop \in {"check", "ended"} => loop' = loop
  BY DEF Signals, DhtInv, DhtShape, StallHolds

LEMMA StartingStep ==
  ASSUME DhtInv, AddStarting
  PROVE  DhtInv'
<1>. USE DEF DhtInv
<1>1. /\ AnnounceSame /\ queriedAt' = queriedAt /\ query' = query /\ nearest' = nearest /\ found' = found
      /\ ann = "setup" /\ ann' = "waiting" /\ loop # "fill" /\ Signals(TRUE)
  BY DEF AddStarting, AnnounceSame
<1>2. unqueried' \subseteq Entries
  <2>1. \A n \in Table \cup Bootstrap : <<n, TRUE>> \in Entries /\ <<n, FALSE>> \in Entries
    BY DhtAssumption DEF Entries
  <2> QED BY <2>1 DEF AddStarting, AddedOf, DhtShape
<1>3. DhtShape'
  BY <1>1, <1>2, SignalsTo DEF DhtShape, AnnounceSame
<1>4. Outstanding' = Outstanding
  BY <1>1 DEF Outstanding
<1>5. DhtTypeOK' /\ NoSendAfterClose'
  BY <1>1, <1>4 DEF DhtTypeOK, NoSendAfterClose, AnnounceSame
<1>6. StopOrder'
  BY <1>1, SignalsTo DEF StopOrder, AnnounceSame
<1>7. StallHolds'
  BY <1>1, <1>4, SignalsTo DEF StallHolds, AnnounceSame
<1>8. AnswersKept'
  BY <1>1, SameAnswers
<1>9. OnceAsked'
  BY <1>1, <1>4 DEF OnceAsked, AddStarting, AddedOf
<1>. QED BY <1>3, <1>5, <1>6, <1>7, <1>8, <1>9

LEMMA StartQueryStep ==
  ASSUME DhtInv, StartQuery
  PROVE  DhtInv'
<1>. USE DEF DhtInv
<1> DEFINE e == Closest(unqueried)
<1>1. /\ AnnounceSame /\ nearest' = nearest /\ found' = found /\ ann' = ann /\ loop' = loop /\ woken' = woken
      /\ loop = "fill" /\ unqueried # {} /\ Cardinality(Outstanding) < Alpha
  BY DEF StartQuery, AnnounceSame, MayStart, haveQuery
<1>2. e \in unqueried /\ e \in Entries /\ e[1] \in DhtNodes
  BY <1>1, ClosestIs DEF DhtShape, Entries
<1>3. /\ unqueried' = unqueried \ {e} /\ queriedAt' = queriedAt \cup {e[1]}
      /\ query' = [query EXCEPT ![e] = "asked"]
  BY DEF StartQuery
<1> HIDE DEF e
<1>4. DhtShape'
  BY <1>1, <1>2, <1>3 DEF DhtShape, AnnounceSame
<1>5. Outstanding' \subseteq Outstanding \cup {e}
  BY <1>2, <1>3 DEF Outstanding, DhtShape
<1>6. Cardinality(Outstanding') <= Alpha
  <2>1. IsFiniteSet(Outstanding \cup {e}) /\ Cardinality(Outstanding \cup {e}) <= Cardinality(Outstanding) + 1
    <3>1. /\ IsFiniteSet(Outstanding \cup {e})
          /\ Cardinality(Outstanding \cup {e}) = IF e \in Outstanding THEN Cardinality(Outstanding)
                                                 ELSE Cardinality(Outstanding) + 1
      BY OutstandingFinite, FS_AddElement
    <3> QED BY <3>1, OutstandingFinite
  <2>2. Cardinality(Outstanding') <= Cardinality(Outstanding \cup {e}) /\ Cardinality(Outstanding \cup {e}) \in Nat
    BY <1>5, <2>1, FS_Subset, FS_CardinalityType
  <2> QED BY <1>1, <2>1, <2>2, OutstandingFinite, DhtAssumption
<1>7. DhtTypeOK'
  BY <1>1, <1>6 DEF DhtTypeOK, AnnounceSame
<1>8. NoSendAfterClose' /\ StopOrder'
  BY <1>1 DEF NoSendAfterClose, StopOrder, AnnounceSame
<1>9. StallHolds'
  BY <1>1 DEF StallHolds, StopOrder, AnnounceSame
<1>10. AnswersKept'
  <2>1. query[e] # "add"
    BY <1>2 DEF OnceAsked, Outstanding
  <2>2. \A f \in Entries : query'[f] = "add" <=> query[f] = "add"
    BY <1>2, <1>3, <2>1 DEF DhtShape
  <2> QED BY <1>1, <2>2, SameAnswers
<1>11. OnceAsked'
  BY <1>2, <1>3, <1>5 DEF OnceAsked
<1>. QED BY <1>4, <1>7, <1>8, <1>9, <1>10, <1>11

LEMMA AnswerStep ==
  ASSUME DhtInv, NEW e \in Entries, AnswerOf(e) \/ NoAnswerOf(e) \/ DeliverPeers(e)
  PROVE  DhtInv'
<1>. USE DEF DhtInv
<1>1. /\ AnnounceSame /\ nearest' = nearest /\ ann' = ann /\ unqueried' = unqueried /\ queriedAt' = queriedAt
      /\ query[e] # "none"
      /\ \/ loop' = loop /\ woken' = woken
         \/ loop # "fill" /\ Signals(TRUE)
      /\ found' = IF DeliverPeers(e) THEN found \cup {e[1]} ELSE found
  BY DEF AnswerOf, NoAnswerOf, DeliverPeers, AnnounceSame, DhtShape
<1>2. \E q \in {"none", "deliver", "add"} : /\ query' = [query EXCEPT ![e] = q]
                                            /\ q = "add" => e[1] \in found'
                                            /\ query[e] = "add" => q = "add"
                                            /\ DeliverPeers(e) => q = "add"
  BY DEF AnswerOf, NoAnswerOf, DeliverPeers
<1>3. DhtShape'
  <2>1. e[1] \in DhtNodes
    BY DEF Entries
  <2>2. loop' \in {"check", "fill", "unlocked", "parked", "ended"} /\ woken' \in BOOLEAN
    BY <1>1, SignalsTo DEF DhtShape
  <2> QED BY <1>1, <1>2, <2>1, <2>2 DEF DhtShape, AnnounceSame
<1>4. Outstanding' \subseteq Outstanding /\ Outstanding # {} /\ e \in Outstanding
  BY <1>1, <1>2 DEF Outstanding, DhtShape
<1>5. DhtTypeOK'
  BY <1>1, <1>4, FewerOut DEF DhtTypeOK, AnnounceSame
<1>6. NoSendAfterClose'
  BY <1>1, <1>4 DEF NoSendAfterClose, AnnounceSame
<1>7. StopOrder'
  BY <1>1, SignalsTo DEF StopOrder, AnnounceSame
<1>8. StallHolds'
  <2>1. ~(offer /\ loop \in {"unlocked", "parked"})
        /\ ~(ann \in {"stopping", "announcing", "finished"} /\ ~annClosed /\ ~hasty)
    BY <1>4 DEF StallHolds, Stalled
  <2>2. (woken' => loop' = "unlocked") /\ ~(offer' /\ loop' \in {"unlocked", "parked"})
    <3>1. CASE loop' = loop /\ woken' = woken
      BY <1>1, <2>1, <3>1 DEF StallHolds, AnnounceSame
    <3>2. CASE loop # "fill" /\ Signals(TRUE)
      <4>1. /\ loop' \in {"check", "unlocked", "ended"} /\ (loop' = "check" \/ loop' = loop)
            /\ woken' => loop' = "unlocked"
        BY <3>2, SignalsTo
      <4> QED BY <1>1, <2>1, <4>1 DEF AnnounceSame
    <3> QED BY <1>1, <3>1, <3>2
  <2> QED BY <1>1, <2>1, <2>2 DEF StallHolds, AnnounceSame
<1>9. AnswersKept'
  <2>1. \A f \in Entries : query'[f] = "add" => f[1] \in found'
    BY <1>1, <1>2 DEF AnswersKept, DhtShape
  <2>2. \A f \in Entries : query[f] = "add" => query'[f] = "add"
    BY <1>2 DEF DhtShape
  <2>3. DeliverPeers(e) => query'[e] = "add"
    BY <1>2 DEF DhtShape
  <2> QED BY <1>1, <2>1, <2>2, <2>3 DEF AnswersKept
<1>10. OnceAsked'
  BY <1>1, <1>4 DEF OnceAsked
<1>. QED BY <1>3, <1>5, <1>6, <1>7, <1>8, <1>9, <1>10

LEMMA QueryOverStep ==
  ASSUME DhtInv, NEW e \in Entries, QueryOver(e)
  PROVE  DhtInv'
<1>. USE DEF DhtInv
<1>1. /\ AnnounceSame /\ ann' = ann /\ queriedAt' = queriedAt /\ found' = found
      /\ query[e] = "add" /\ query' = [query EXCEPT ![e] = "none"] /\ nearest' = PushNearest(e[1])
      /\ unqueried' = unqueried \cup AddedOf({<<m, TRUE>> : m \in KnowsOf[e[1]]})
      /\ loop # "fill" /\ Signals(TRUE)
  BY DEF QueryOver, AnnounceSame
<1>2. e[1] \in DhtNodes /\ e[1] \in found /\ nearest \subseteq DhtNodes /\ Cardinality(nearest) <= KNearest
  BY <1>1 DEF Entries, AnswersKept, DhtShape, DhtTypeOK
<1>3. /\ nearest' \subseteq nearest \cup ({e[1]} \ Tokenless) /\ Cardinality(nearest') <= KNearest
      /\ \A m \in (nearest \cup {e[1]}) \ Tokenless :
           m \in nearest' \/ (Cardinality(nearest') >= KNearest /\ m > Farthest(nearest'))
      /\ Cardinality(nearest) >= KNearest =>
           Cardinality(nearest') >= KNearest /\ Farthest(nearest') <= Farthest(nearest)
  BY <1>1, <1>2, PushedOf
<1>4. unqueried' \subseteq Entries
  <2>1. KnowsOf[e[1]] \subseteq DhtNodes
    BY <1>2, DhtAssumption
  <2>2. \A m \in KnowsOf[e[1]] : <<m, TRUE>> \in Entries
    BY <2>1 DEF Entries
  <2> QED BY <1>1, <2>2 DEF AddedOf, DhtShape
<1>5. DhtShape'
  BY <1>1, <1>2, <1>3, <1>4, SignalsTo DEF DhtShape, AnnounceSame
<1>6. Outstanding' \subseteq Outstanding /\ e \in Outstanding
  BY <1>1 DEF Outstanding, DhtShape
<1>7. ~stoppedOp /\ ~(ann \in {"announcing", "finished"})
  BY <1>6 DEF NoSendAfterClose, StopOrder
<1>8. DhtTypeOK'
  <2>1. told' \cup toTell' \subseteq nearest'
    BY <1>1, <1>7 DEF StopOrder, DhtShape, AnnounceSame
  <2>2. nearest' \subseteq found' \ Tokenless
    BY <1>1, <1>2, <1>3 DEF DhtTypeOK
  <2> QED BY <1>3, <1>6, <2>1, <2>2, FewerOut DEF DhtTypeOK
<1>9. NoSendAfterClose' /\ StopOrder'
  BY <1>1, <1>7, SignalsTo DEF NoSendAfterClose, StopOrder, AnnounceSame
<1>10. StallHolds'
  BY <1>1, <1>6, SignalsTo DEF StallHolds, Stalled, AnnounceSame
<1>11. AnswersKept'
  <2>1. \A f \in Entries : query'[f] = "add" => f[1] \in found'
    BY <1>1 DEF AnswersKept, DhtShape
  <2>2. ASSUME NEW n \in found' \ Tokenless
        PROVE  \/ n \in nearest'
               \/ Cardinality(nearest') >= KNearest /\ n > Farthest(nearest')
               \/ \E f \in Entries : query'[f] = "add" /\ f[1] = n
    <3>1. CASE n \in nearest \/ n = e[1]
      BY <1>3, <2>2, <3>1
    <3>2. CASE Cardinality(nearest) >= KNearest /\ n > Farthest(nearest)
      <4>1. nearest # {} /\ nearest' # {} /\ nearest' \in SUBSET DhtNodes
        <5>1. Cardinality({}) = 0 /\ KNearest \in Nat \ {0}
          BY FS_EmptySet, DhtAssumption
        <5>2. nearest # {}
          BY <3>2, <5>1
        <5>3. nearest' \in SUBSET DhtNodes
          BY <1>3, <1>5 DEF DhtShape
        <5> QED BY <1>3, <3>2, <5>1, <5>2, <5>3
      <4>2. Farthest(nearest) \in Nat /\ Farthest(nearest') \in Nat /\ n \in Nat
        BY <1>2, <2>2, <1>1, <4>1, FarthestIs, DhtAssumption DEF DhtShape
      <4> QED BY <1>3, <3>2, <4>2
    <3>3. ASSUME NEW f \in Entries, query[f] = "add", f[1] = n, n # e[1]
          PROVE  query'[f] = "add"
      BY <1>1, <3>3 DEF DhtShape
    <3> QED BY <1>1, <2>2, <3>1, <3>2, <3>3 DEF AnswersKept
  <2> QED BY <2>1, <2>2 DEF AnswersKept
<1>12. OnceAsked'
  BY <1>1, <1>6 DEF OnceAsked, AddedOf, Outstanding, DhtShape
<1>. QED BY <1>5, <1>8, <1>9, <1>10, <1>11, <1>12

LEMMA FreshStart == (DhtFresh => DhtInv) /\ (DhtInv /\ AnnounceAgain => DhtInv')
<1>1. ASSUME DhtFresh
      PROVE  DhtInv
  <2>1. Outstanding = {} /\ DhtShape
    BY <1>1 DEF DhtFresh, Outstanding, DhtShape
  <2>2. Cardinality({}) = 0 /\ Alpha \in Nat /\ KNearest \in Nat
    BY FS_EmptySet, DhtAssumption
  <2>3. DhtTypeOK
    BY <1>1, <2>1, <2>2 DEF DhtFresh, DhtTypeOK
  <2>4. NoSendAfterClose /\ StopOrder /\ StallHolds
    BY <1>1, <2>1 DEF DhtFresh, NoSendAfterClose, StopOrder, StallHolds
  <2>5. AnswersKept /\ OnceAsked
    BY <1>1, <2>1 DEF DhtFresh, AnswersKept, OnceAsked
  <2> QED BY <2>1, <2>3, <2>4, <2>5 DEF DhtInv
<1>2. ASSUME AnnounceAgain
      PROVE  DhtInv'
  <2>1. Outstanding' = {} /\ DhtShape'
    BY <1>2 DEF AnnounceAgain, Outstanding, DhtShape
  <2>2. Cardinality({}) = 0 /\ Alpha \in Nat /\ KNearest \in Nat
    BY FS_EmptySet, DhtAssumption
  <2>3. DhtTypeOK'
    BY <1>2, <2>1, <2>2 DEF AnnounceAgain, DhtTypeOK
  <2>4. (NoSendAfterClose /\ StopOrder /\ StallHolds)'
    BY <1>2, <2>1 DEF AnnounceAgain, NoSendAfterClose, StopOrder, StallHolds
  <2>5. (AnswersKept /\ OnceAsked)'
    BY <1>2, <2>1 DEF AnnounceAgain, AnswersKept, OnceAsked
  <2> QED BY <2>1, <2>3, <2>4, <2>5 DEF DhtInv
<1> QED BY <1>1, <1>2

\* operation.go run and startQuery, announce.go: the invariant, for any nodes, whatever they
\* answer or leave unanswered, and whenever the announce is closed.
THEOREM DhtInvariant == DhtSpec => []DhtInv
<1>1. DhtInit => DhtInv
  BY FreshStart DEF DhtInit
<1>2. DhtInv /\ [DhtNext]_dhtVars => DhtInv'
  <2> SUFFICES ASSUME DhtInv, [DhtNext]_dhtVars
               PROVE  DhtInv'
    OBVIOUS
  <2>1. CASE DhtNext
    BY <2>1, AnnounceStep, LoopStep, StartingStep, StartQueryStep, AnswerStep, QueryOverStep,
       FreshStart DEF DhtNext
  <2>2. CASE UNCHANGED dhtVars
    <3>1. Outstanding' = Outstanding /\ DhtShape' /\ (haveQuery(unqueried)' <=> haveQuery(unqueried))
      BY <2>2, HaveQueryOf DEF dhtVars, Outstanding, DhtShape, DhtInv
    <3> QED
      BY <2>2, <3>1 DEF dhtVars, DhtInv, DhtTypeOK, NoSendAfterClose, StopOrder, StallHolds, Stalled,
                        AnswersKept, OnceAsked
  <2> QED BY <2>1, <2>2
<1> QED BY <1>1, <1>2, PTL DEF DhtSpec

\* announce.go, operation.go: for any nodes, no query can send on a channel that was closed, and
\* an announce nobody closed tells the K nearest that answered, with no nearer node it heard of
\* left unasked.
THEOREM DhtStaysSafe == DhtSpec => []DhtSafe
<1>1. ASSUME DhtInv
      PROVE  DhtSafe
  <2>. USE <1>1 DEF DhtInv
  <2>1. ASSUME ann \in {"announcing", "finished"}, ~annClosed, ~hasty
        PROVE  /\ Cardinality(nearest) >= KNearest \/ unqueried = {}
               /\ \A e \in unqueried : e[2] => e[1] > Farthest(nearest)
               /\ \A n \in found \ Tokenless : n \in nearest \/ (nearest # {} /\ n > Farthest(nearest))
    <3>1. ~haveQuery(unqueried) /\ Outstanding = {}
      BY <2>1 DEF StallHolds, Stalled
    <3>2. \/ unqueried = {}
          \/ /\ unqueried # {} /\ Cardinality(nearest) >= KNearest
             /\ ~(Closest(unqueried)[2] /\ Closest(unqueried)[1] <= Farthest(nearest))
      BY <3>1 DEF haveQuery
    <3>3. Cardinality(nearest) >= KNearest => nearest # {}
      <4>1. Cardinality({}) = 0 /\ KNearest \in Nat \ {0}
        BY FS_EmptySet, DhtAssumption
      <4> QED BY <4>1
    <3>4. nearest # {} => Farthest(nearest) \in Nat
      BY FarthestIs, DhtAssumption DEF DhtShape
    <3>5. ASSUME NEW e \in unqueried, e[2]
          PROVE  e[1] > Farthest(nearest)
      <4>1. e[1] \in Nat /\ Closest(unqueried)[1] \in Nat /\ e[2] \in BOOLEAN /\ Closest(unqueried)[2] \in BOOLEAN
        <5>1. \A f \in unqueried : f[1] \in Nat /\ f[2] \in BOOLEAN
          BY DhtAssumption DEF DhtShape, Entries
        <5>2. Closest(unqueried) \in unqueried
          BY ClosestIs DEF DhtShape
        <5> QED BY <5>1, <5>2
      <4>2. Closest(unqueried)[2] /\ Closest(unqueried)[1] <= e[1]
        BY <3>5, <4>1, ClosestIs DEF DhtShape
      <4>3. Closest(unqueried)[1] > Farthest(nearest) /\ Farthest(nearest) \in Nat
        BY <3>2, <3>3, <3>4, <4>1, <4>2
      <4> QED BY <4>1, <4>2, <4>3
    <3>6. \A n \in found \ Tokenless : n \in nearest \/ (nearest # {} /\ n > Farthest(nearest))
      <4>1. \A e \in Entries : query[e] # "add"
        BY <3>1 DEF Outstanding
      <4> QED BY <3>3, <4>1 DEF AnswersKept
    <3> QED BY <3>2, <3>5, <3>6
  <2>2. ToldTheNearest
    BY <2>1 DEF ToldTheNearest
  <2> QED BY <2>2 DEF DhtSafe
<1> QED BY <1>1, DhtInvariant, PTL
=============================================================================
