------------------------------ MODULE MCSessions ------------------------------
(* Stream sessions, and the client's waits on the engine: they share no state, so a behaviour
   picks one of them and runs it alone. *)
EXTENDS StreamSessions, EngineClient

VARIABLE part
sessionsVars == <<part, sessVars, clientVars>>

SessionsInit == part \in {"sessions", "client"} /\ SessInit /\ ClientInit

SessionsNext ==
  /\ part' = part
  /\ \/ part = "sessions" /\ SessNext /\ UNCHANGED clientVars
     \/ part = "client" /\ ClientNext /\ UNCHANGED sessVars

(* The fairness each component's own specification states, for the one that runs. *)
SessionsFairness ==
  /\ \A a \in Actors : WF_sessVars(part = "sessions" /\ Teardown(a))
  /\ WF_sessVars(part = "sessions" /\ SessionIdle) /\ WF_sessVars(part = "sessions" /\ ListStale)
  /\ WF_clientVars(part = "client" /\ PollLive) /\ WF_clientVars(part = "client" /\ PollHold)

SessionsSpec == SessionsInit /\ [][SessionsNext]_sessionsVars /\ SessionsFairness
=============================================================================
