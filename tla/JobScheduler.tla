---------------------------- MODULE JobScheduler ----------------------------
(***************************************************************************)
(* One entry of the scheduler of internal/jobs/jobs.go: the goroutine that *)
(* runs the job on its interval (loop), the requests that run it by hand   *)
(* (Trigger, RunAs) and the lock they share (claim, finish). Entries share *)
(* nothing but the scheduler's context, so one stands for all.             *)
(*                                                                         *)
(* Time is counted in ticks and kept relative to now: left is what remains *)
(* of the loop's timer (nextRun - now), since is the age of the last run   *)
(* the loop began, counted no further than Every.                          *)
(***************************************************************************)
EXTENDS Integers, FiniteSets

CONSTANTS
    Callers,         \* request goroutines that may run the job by hand
    Every,           \* the job's interval
    MaxWait,         \* the six hours of backoff
    MaxConsecutive   \* bound: failures are counted no further than this

ASSUME CallersAssumption == "loop" \notin Callers
ASSUME TimesAssumption == Every \in Nat \ {0} /\ MaxWait \in Nat
\* From five failures on they all mean the same wait.
ASSUME ConsecutiveAssumption == MaxConsecutive \in Nat /\ MaxConsecutive >= 5

VARIABLES
    running,      \* e.running
    consecutive,  \* e.consecutive
    pc,           \* where the loop is
    left,         \* time left on the loop's timer
    inRun,        \* the goroutines inside the job's function
    since,        \* time since the loop last began a run, at most Every
    done          \* the scheduler's context is cancelled

vars == <<running, consecutive, pc, left, inRun, since, done>>

Goroutines == Callers \cup {"loop"}

Least(a, b) == IF a <= b THEN a ELSE b

Most(a, b) == IF a >= b THEN a ELSE b

\* Variant for mutation: the cap applies to a job with a longer interval too.
backoffUnfloored(base, failures) ==
    Least(base * <<2, 4, 8, 16, 32>>[Least(failures, 5)], MaxWait)

\* Called with failures > 0 only.
backoff(base, failures) ==
    Most(Least(base * <<2, 4, 8, 16, 32>>[Least(failures, 5)], MaxWait), base)

\* A job with OnStart begins with execute, any other with its first wait.
Init ==
    /\ running = FALSE /\ consecutive = 0 /\ inRun = {}
    /\ pc \in {"execute", "schedule"}
    /\ left = 0 /\ since = Every
    /\ done = FALSE

\* Variant for mutation: running is not looked at.
claimUnlocked(g) ==
    /\ running' = TRUE
    /\ inRun' = inRun \cup {g}

\* claim, and the call of the job's function that follows it
claim(g) ==
    /\ ~running
    /\ running' = TRUE
    /\ inRun' = inRun \cup {g}

\* finish, once the function returned or panicked, with or without an error
finish(g) ==
    /\ g \in inRun
    /\ inRun' = inRun \ {g}
    /\ running' = FALSE
    /\ consecutive' \in {0, Least(consecutive + 1, MaxConsecutive)}

-----------------------------------------------------------------------------

LoopWait ==
    /\ pc = "schedule"
    /\ left' = IF consecutive > 0 THEN backoff(Every, consecutive) ELSE Every
    /\ pc' = "sleep"
    /\ UNCHANGED <<running, consecutive, inRun, since, done>>

LoopTimer ==
    /\ pc = "sleep" /\ left = 0
    /\ pc' = "execute"
    /\ UNCHANGED <<running, consecutive, left, inRun, since, done>>

LoopExecute ==
    /\ pc = "execute"
    /\ claim("loop")
    /\ pc' = "run" /\ since' = 0
    /\ UNCHANGED <<consecutive, left, done>>

\* Variant for mutation: the loop returns on the error of execute.
LoopGivesUp ==
    /\ pc = "execute" /\ running
    /\ pc' = "ended"
    /\ UNCHANGED <<running, consecutive, left, inRun, since, done>>

\* execute answers ErrRunning, which the loop does not look at: it waits again.
LoopSkips ==
    /\ pc = "execute" /\ running
    /\ pc' = "schedule"
    /\ UNCHANGED <<running, consecutive, left, inRun, since, done>>

LoopFinish ==
    /\ pc = "run"
    /\ finish("loop")
    /\ pc' = "schedule"
    /\ UNCHANGED <<left, since, done>>

\* case <-ctx.Done()
LoopEnds ==
    /\ pc = "sleep" /\ done
    /\ pc' = "ended"
    /\ UNCHANGED <<running, consecutive, left, inRun, since, done>>

\* Trigger or RunAs; a job already running answers ErrRunning and nothing starts.
RunAs(g) ==
    /\ claim(g)
    /\ UNCHANGED <<consecutive, pc, left, since, done>>

ManualFinish(g) ==
    /\ finish(g)
    /\ UNCHANGED <<pc, left, since, done>>

Tick ==
    /\ left' = IF left > 0 THEN left - 1 ELSE 0
    /\ since' = Least(since + 1, Every)
    /\ UNCHANGED <<running, consecutive, pc, inRun, done>>

Shutdown ==
    /\ ~done
    /\ done' = TRUE
    /\ UNCHANGED <<running, consecutive, pc, left, inRun, since>>

LoopStep == LoopWait \/ LoopTimer \/ LoopExecute \/ LoopSkips \/ LoopEnds

Next ==
    \/ LoopStep \/ LoopFinish
    \/ \E g \in Callers : RunAs(g) \/ ManualFinish(g)
    \/ Tick \/ Shutdown

Spec == Init /\ [][Next]_vars

\* The loop is scheduled, time passes and a job's function returns.
Fairness ==
    /\ WF_vars(LoopStep) /\ WF_vars(Tick) /\ WF_vars(LoopFinish)
    /\ \A g \in Callers : WF_vars(ManualFinish(g))

FairSpec == Spec /\ Fairness

-----------------------------------------------------------------------------
(* Properties.                                                             *)

\* Every variable has its type.
TypeOK ==
    /\ running \in BOOLEAN /\ done \in BOOLEAN
    /\ consecutive \in 0..MaxConsecutive
    /\ pc \in {"schedule", "sleep", "execute", "run", "ended"}
    /\ left \in Nat /\ since \in 0..Every
    /\ inRun \subseteq Goroutines

\* RunAs: "a manual variant never overlaps the scheduled one". At most one
\* goroutine is inside the job, and running is set for as long as it is.
RunsNeverOverlap ==
    /\ \A g, h \in inRun : g = h
    /\ running <=> inRun # {}

\* backoff: "a daily job that fails must not run four times a day". Two runs
\* the loop begins are at least the job's interval apart, whatever failed,
\* was skipped or was run by hand between them.
LoopKeepsInterval ==
    [][pc = "execute" /\ pc' = "run" => since = Every]_vars

\* backoff: "Capped". The loop never sleeps longer than the cap or, for a job
\* whose interval is longer still, than that interval.
WaitCapped == left <= Most(MaxWait, Every)

\* Until the scheduler stops, the job runs again and again: neither failures
\* nor manual runs that were in the way when its time came end its loop.
KeepsRunning == <>done \/ []<>(inRun # {})
=============================================================================
