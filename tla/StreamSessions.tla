--------------------------- MODULE StreamSessions ---------------------------
(***************************************************************************)
(* The stream sessions of one episode: internal/transcode/hls.go (type     *)
(* Manager) and the handlers of internal/server/stream.go that open, read  *)
(* and close a session and hold the download queue while it is watched.    *)
(*                                                                         *)
(* Sessions of an episode share an id, hence the entry of m.sessions, the  *)
(* directory and the hold, but not the source they read. A Client is one   *)
(* page of a player: it opens, watches, and closes or vanishes. The reaper *)
(* discards a session nobody has touched for sessionIdle. A step is one    *)
(* critical section of m.mu, one filesystem call or one call of the queue. *)
(* What a session's encoder does is the subject of EncoderPass.            *)
(***************************************************************************)
EXTENDS Integers, FiniteSets

CONSTANTS
    Clients,      \* pages of a player open at the same time
    Sources,      \* what the episode can be read from
    reaper,       \* the goroutine running Reap
    MaxSessions   \* bound: Session objects of a behaviour

ASSUME ReaperAssumption == reaper \notin Clients
ASSUME SessionsAssumption == MaxSessions \in Nat
ASSUME PagesAssumption == IsFiniteSet(Clients)

VARIABLES
    mapped,    \* the object m.sessions holds for the id, 0 when none
    sessions,  \* the Session objects
    created,   \* how many there have been
    dir,       \* the episode's directory exists
    held,      \* the id is in the queue's watching set
    actors     \* where each client and the reaper stand

sessVars == <<mapped, sessions, created, dir, held, actors>>

Objects == 1 .. MaxSessions
Actors == Clients \union {reaper}
NoSession == [source |-> "none", refs |-> 0, closed |-> FALSE, idle |-> FALSE, encoder |-> FALSE]

\* mine is the object a client's open returned, ends the object an actor is tearing
\* down, then where it goes on afterwards.
Away == [pc |-> "away", source |-> "none", mine |-> 0, ends |-> 0, then |-> "away"]

SessInit ==
    /\ mapped = 0
    /\ sessions = [o \in Objects |-> NoSession]
    /\ created = 0
    /\ dir = FALSE /\ held = FALSE
    /\ actors = [a \in Actors |-> Away]

SessGoto(a, pc) == actors' = [actors EXCEPT ![a].pc = pc]
Reads(o, source) == o # 0 /\ sessions[o].source = source
Touch(o) == [sessions[o] EXCEPT !.idle = FALSE]

----------------------------------------------------------------------------
(* Opening: streamOpen and OpenProbing.                                    *)

\* An open session on the same source is shared.
OpenShared(c, source) ==
    /\ actors[c].pc = "away" /\ Reads(mapped, source)
    /\ sessions' = [sessions EXCEPT ![mapped] = [Touch(mapped) EXCEPT !.refs = sessions[mapped].refs + 1]]
    /\ actors' = [actors EXCEPT ![c] = [Away EXCEPT !.pc = "hold", !.mine = mapped]]
    /\ UNCHANGED <<mapped, created, dir, held>>

\* Otherwise one on another source is discarded before the probe.
OpenFresh(c, source) ==
    /\ actors[c].pc = "away" /\ ~Reads(mapped, source)
    /\ actors' = [actors EXCEPT ![c] =
            [Away EXCEPT !.source = source, !.then = "probe",
                         !.pc = IF mapped # 0 THEN "discard" ELSE "probe"]]
    /\ UNCHANGED <<mapped, sessions, created, dir, held>>

\* The probe answers, or fails and the open with it.
Probe(c, ok) ==
    /\ actors[c].pc = "probe" /\ (ok => created < MaxSessions)
    /\ actors' = [actors EXCEPT ![c] = IF ok THEN [actors[c] EXCEPT !.pc = "mkdir"] ELSE Away]
    /\ UNCHANGED <<mapped, sessions, created, dir, held>>

MkdirAll(c) ==
    /\ actors[c].pc = "mkdir"
    /\ dir' = TRUE
    /\ SessGoto(c, "publish")
    /\ UNCHANGED <<mapped, sessions, created, held>>

\* Another open won on the same source: its session is kept, both counted.
PublishShared(c) ==
    /\ actors[c].pc = "publish" /\ Reads(mapped, actors[c].source)
    /\ sessions' = [sessions EXCEPT ![mapped].refs = sessions[mapped].refs + 1]
    /\ actors' = [actors EXCEPT ![c] = [Away EXCEPT !.pc = "hold", !.mine = mapped]]
    /\ UNCHANGED <<mapped, created, dir, held>>

\* Variant: the session that was replaced is not discarded.
PublishFreshForgets(c) ==
    /\ actors[c].pc = "publish" /\ ~Reads(mapped, actors[c].source) /\ created < MaxSessions
    /\ created' = created + 1
    /\ mapped' = created + 1
    /\ sessions' = [sessions EXCEPT ![created + 1] =
                        [NoSession EXCEPT !.source = actors[c].source, !.refs = 1]]
    /\ actors' = [actors EXCEPT ![c] = [Away EXCEPT !.mine = created + 1, !.pc = "hold"]]
    /\ UNCHANGED <<dir, held>>

\* The newest source wins; a session it replaced is discarded before the open returns.
PublishFresh(c) ==
    /\ actors[c].pc = "publish" /\ ~Reads(mapped, actors[c].source) /\ created < MaxSessions
    /\ created' = created + 1
    /\ mapped' = created + 1
    /\ sessions' = [sessions EXCEPT ![created + 1] =
                        [NoSession EXCEPT !.source = actors[c].source, !.refs = 1]]
    /\ actors' = [actors EXCEPT ![c] =
            [Away EXCEPT !.mine = created + 1, !.then = "hold", !.ends = mapped,
                         !.pc = IF mapped = 0 THEN "hold" ELSE "stop"]]
    /\ UNCHANGED <<dir, held>>

\* holdWhileWatching decides from the line and the file whether the queue must wait.
Hold(c, wanted) ==
    /\ actors[c].pc = "hold"
    /\ held' = (held \/ wanted)
    /\ actors' = [actors EXCEPT ![c] = [Away EXCEPT !.pc = "watching", !.mine = actors[c].mine]]
    /\ UNCHANGED <<mapped, sessions, created, dir>>

----------------------------------------------------------------------------
(* Watching: requests name the id and reach whatever session it has.       *)

Request(c) ==
    /\ actors[c].pc = "watching" /\ mapped # 0
    /\ sessions' = [sessions EXCEPT ![mapped] = Touch(mapped)]
    /\ UNCHANGED <<mapped, created, dir, held, actors>>

\* A request, or one that reached a session before it was unlinked, starts the encoder.
StartEncoder(o) ==
    /\ o <= created /\ ~sessions[o].closed /\ ~sessions[o].encoder /\ dir
    /\ \E c \in Clients : actors[c].pc = "watching"
    /\ sessions' = [sessions EXCEPT ![o].encoder = TRUE]
    /\ UNCHANGED <<mapped, created, dir, held, actors>>

\* A killed browser never says it stopped.
Vanish(c) ==
    /\ actors[c].pc = "watching"
    /\ SessGoto(c, "gone")
    /\ UNCHANGED <<mapped, sessions, created, dir, held>>

SessionIdle ==
    /\ mapped # 0 /\ ~sessions[mapped].idle
    /\ sessions' = [sessions EXCEPT ![mapped].idle = TRUE]
    /\ UNCHANGED <<mapped, created, dir, held, actors>>

----------------------------------------------------------------------------
(* Closing: streamClose and Manager.Close, Reap, and the shared teardown.  *)

\* One hold less; the last one unlinks the session.
Close(c) ==
    /\ actors[c].pc = "watching"
    /\ IF mapped = 0
       THEN actors' = [actors EXCEPT ![c] = Away] /\ UNCHANGED <<mapped, sessions>>
       ELSE LET last == sessions[mapped].refs <= 1
            IN /\ sessions' = [sessions EXCEPT ![mapped] =
                       [sessions[mapped] EXCEPT !.refs = sessions[mapped].refs - 1, !.closed = last]]
               /\ mapped' = IF last THEN 0 ELSE mapped
               /\ actors' = [actors EXCEPT ![c] =
                       IF last THEN [Away EXCEPT !.pc = "stop", !.ends = mapped, !.then = "release"]
                       ELSE Away]
    /\ UNCHANGED <<created, dir, held>>

\* Variant: the reaper spares a session that still counts holders.
ListStaleUnheld ==
    /\ actors[reaper].pc = "away" /\ mapped # 0 /\ sessions[mapped].idle
    /\ sessions[mapped].refs = 0
    /\ actors' = [actors EXCEPT ![reaper] = [Away EXCEPT !.pc = "discard", !.then = "release"]]
    /\ UNCHANGED <<mapped, sessions, created, dir, held>>

\* Reap finds the session idle and lists its id; it discards it after the unlock.
ListStale ==
    /\ actors[reaper].pc = "away" /\ mapped # 0 /\ sessions[mapped].idle
    /\ actors' = [actors EXCEPT ![reaper] = [Away EXCEPT !.pc = "discard", !.then = "release"]]
    /\ UNCHANGED <<mapped, sessions, created, dir, held>>

\* discard: unlink whatever the id has now.
Discard(a) ==
    /\ actors[a].pc = "discard"
    /\ mapped' = 0
    /\ actors' = [actors EXCEPT ![a].ends = mapped,
                                ![a].pc = IF mapped = 0 THEN actors[a].then ELSE "stop"]
    /\ UNCHANGED <<sessions, created, dir, held>>

\* discardSession and teardown: mark and stop; nothing reads the object's rest again.
Stop(a) ==
    /\ actors[a].pc = "stop"
    /\ sessions' = [sessions EXCEPT ![actors[a].ends] = [NoSession EXCEPT !.closed = TRUE]]
    /\ SessGoto(a, "owner")
    /\ UNCHANGED <<mapped, created, dir, held>>

\* Who owns the directory now: a closed session that was replaced meanwhile leaves it, and
\* its Close reports false, so the hold stays too.
Owner(a) ==
    /\ actors[a].pc = "owner"
    /\ actors' = [actors EXCEPT ![a] =
            IF mapped = 0 THEN [actors[a] EXCEPT !.pc = "remove"]
            ELSE IF a \in Clients /\ actors[a].then = "release" THEN Away
            ELSE [actors[a] EXCEPT !.pc = actors[a].then, !.ends = 0]]
    /\ UNCHANGED <<mapped, sessions, created, dir, held>>

RemoveAll(a) ==
    /\ actors[a].pc = "remove"
    /\ dir' = FALSE
    /\ actors' = [actors EXCEPT ![a].pc = actors[a].then, ![a].ends = 0]
    /\ UNCHANGED <<mapped, sessions, created, held>>

\* Downloader.Release, from streamClose after a true Close and from SessionIdle.
Release(a) ==
    /\ actors[a].pc = "release"
    /\ held' = FALSE
    /\ actors' = [actors EXCEPT ![a] = Away]
    /\ UNCHANGED <<mapped, sessions, created, dir>>

----------------------------------------------------------------------------
Teardown(a) == Discard(a) \/ Stop(a) \/ Owner(a) \/ RemoveAll(a) \/ Release(a)

Opening(c) ==
    \/ \E ok \in BOOLEAN : Probe(c, ok)
    \/ MkdirAll(c) \/ PublishShared(c) \/ PublishFresh(c)
    \/ \E wanted \in BOOLEAN : Hold(c, wanted)

SessNext ==
    \/ \E c \in Clients, source \in Sources : OpenShared(c, source) \/ OpenFresh(c, source)
    \/ \E c \in Clients : Opening(c) \/ Request(c) \/ Vanish(c) \/ Close(c)
    \/ \E o \in Objects : StartEncoder(o)
    \/ \E a \in Actors : Teardown(a)
    \/ SessionIdle \/ ListStale

SessSpec == SessInit /\ [][SessNext]_sessVars

\* Goroutines run, the reaper's ticker fires, and a session nobody touches grows idle.
\* Nothing is assumed of the players.
SessFairness ==
    /\ \A a \in Actors : WF_sessVars(Teardown(a))
    /\ WF_sessVars(SessionIdle) /\ WF_sessVars(ListStale)

SessFairSpec == SessSpec /\ SessFairness

----------------------------------------------------------------------------
(* Properties.                                                             *)

SessionRecord == [source : Sources \union {"none"}, refs : 0 .. Cardinality(Clients),
                  closed : BOOLEAN, idle : BOOLEAN, encoder : BOOLEAN]
ActorRecord == [pc : {"away", "discard", "probe", "mkdir", "publish", "hold", "watching",
                      "gone", "stop", "owner", "remove", "release"},
                source : Sources \union {"none"}, mine : 0 .. MaxSessions,
                ends : 0 .. MaxSessions, then : {"away", "probe", "hold", "release"}]

\* Every variable holds a value of its type, and the session the id leads to is open and
\* held by somebody.
SessTypeOK ==
    /\ mapped \in 0 .. created /\ created \in 0 .. MaxSessions
    /\ sessions \in [Objects -> SessionRecord] /\ actors \in [Actors -> ActorRecord]
    /\ dir \in BOOLEAN /\ held \in BOOLEAN
    /\ mapped # 0 => ~sessions[mapped].closed /\ sessions[mapped].refs >= 1

Settled == \A a \in Actors : actors[a].pc \in {"away", "watching", "gone"}
Watched == \E c \in Clients : actors[c].pc \notin {"away", "gone"}

\* As long as one source has been opened, the session counts exactly the pages that were
\* given it, opens that raced each other to create it included: the close that ends it is
\* the last one.
RefsAreHolders ==
    mapped = 1 /\ created = 1 =>
        sessions[1].refs = Cardinality({c \in Clients : actors[c].mine = 1})

\* An encoder runs only for the session the id leads to or for one somebody is about to
\* stop: a replaced, reaped or closed session never leaves its encoder running on.
EncoderIsOwned ==
    \A o \in Objects : sessions[o].encoder =>
        \/ o = mapped
        \/ \E a \in Actors : actors[a].ends = o /\ actors[a].pc = "stop"

\* When nothing is under way and the episode has no session, its directory is gone:
\* whichever of two racing teardowns looks last removes it.
DirectoryCleaned == Settled /\ mapped = 0 => ~dir

\* The state of the sessions at every moment: the four above.
SessSafe == SessTypeOK /\ RefsAreHolders /\ EncoderIsOwned /\ DirectoryCleaned

\* A session whose pages have all gone away without closing it is ended by the reaper,
\* encoder included, unless a page comes back.
AbandonedEnds ==
    ~Watched ~> Watched \/ (mapped = 0 /\ \A o \in Objects : ~sessions[o].encoder)

\* queue.go of Hold: "a vanished session cannot hold it forever". With no session left and
\* nobody on the way to one, the queue is not held for the episode.
HoldEndsWithSession == Settled /\ ~Watched /\ mapped = 0 => ~held

\* hls.go of Session.refs: "closing once mustn't stop what another watches". A close ends a
\* session only when no other page is still watching the one its open returned.
CloseSparesOthers ==
    [][\A c, d \in Clients :
         /\ c # d /\ actors[c].pc = "watching" /\ actors'[c].pc = "stop"
         /\ actors[d].pc = "watching"
         => actors[d].mine # actors'[c].ends]_sessVars
=============================================================================
