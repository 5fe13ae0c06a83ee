------------------------ MODULE DownloadQueueProofs ------------------------
(* What holds of the download queue for any episodes, clients and bounds.  *)
EXTENDS DownloadQueue, TLAPS

\* The columns each statement of store/queue.go writes leave a row.
LEMMA RowTypes ==
    ASSUME NEW r \in Row, NEW p \in Releases \cup {NoRelease}, NEW t \in Int, NEW n \in Nat
    PROVE  /\ NoRow \in Row
           /\ [NoRow EXCEPT !.state = "pending", !.queuedAt = t] \in Row
           /\ [r EXCEPT !.state = IF @ = "failed" THEN "pending" ELSE @,
                        !.attempts = 0, !.waiting = FALSE] \in Row
           /\ [r EXCEPT !.pick = p, !.attempts = 0, !.waiting = FALSE,
                        !.state = IF @ = "failed" THEN "pending" ELSE @] \in Row
           /\ [r EXCEPT !.queuedAt = t, !.waiting = FALSE] \in Row
           /\ [r EXCEPT !.state = "pending", !.attempts = n,
                        !.waiting = TRUE, !.queuedAt = t] \in Row
           /\ \A s \in {"pending", "active", "failed"} : [r EXCEPT !.state = s] \in Row
           /\ [r EXCEPT !.waiting = FALSE] \in Row
<1>1. NoRow \in Row
  BY DEF NoRow, Row
<1>2. [NoRow EXCEPT !.state = "pending", !.queuedAt = t] \in Row
  BY <1>1 DEF Row
<1>3. [r EXCEPT !.state = IF @ = "failed" THEN "pending" ELSE @,
                !.attempts = 0, !.waiting = FALSE] \in Row
  BY DEF Row
<1>4. [r EXCEPT !.pick = p, !.attempts = 0, !.waiting = FALSE,
                !.state = IF @ = "failed" THEN "pending" ELSE @] \in Row
  BY DEF Row
<1>5. [r EXCEPT !.queuedAt = t, !.waiting = FALSE] \in Row
  BY DEF Row
<1>6. [r EXCEPT !.state = "pending", !.attempts = n, !.waiting = TRUE, !.queuedAt = t] \in Row
  BY DEF Row
<1>7. \A s \in {"pending", "active", "failed"} : [r EXCEPT !.state = s] \in Row
  BY DEF Row
<1>8. [r EXCEPT !.waiting = FALSE] \in Row
  BY DEF Row
<1> QED
  BY <1>1, <1>2, <1>3, <1>4, <1>5, <1>6, <1>7, <1>8

\* The statements of store/queue.go leave a table of rows.
LEMMA TableTypes ==
    ASSUME rows \in [Episodes -> Row], clock \in Nat
    PROVE  /\ \A E \in SUBSET Episodes : Enqueue(E) \in [Episodes -> Row]
           /\ \A E \in SUBSET Episodes : Dequeue(E) \in [Episodes -> Row]
           /\ \A e \in Episodes, r \in Releases \cup {NoRelease} :
                 SetQueuedRelease(e, r) \in [Episodes -> Row]
           /\ \A e \in Episodes : promote(e) => rows' \in [Episodes -> Row]
           /\ \A e \in Episodes : RequeueActive(e) \in [Episodes -> Row]
           /\ \A e \in Episodes : Defer(e) \in [Episodes -> Row]
           /\ \A e \in Episodes, failed \in BOOLEAN :
                 FinishQueued(e, failed) \in [Episodes -> Row]
           /\ ResetActive \in [Episodes -> Row]
<1>0. /\ clock \in Int /\ NoRelease \in Releases \cup {NoRelease} /\ 0 \in Nat /\ 0 \in Int
      /\ \A e \in Episodes : rows[e] \in Row
  OBVIOUS
<1>1. \A E \in SUBSET Episodes : Enqueue(E) \in [Episodes -> Row]
  <2>1. ASSUME NEW e \in Episodes
        PROVE  /\ [NoRow EXCEPT !.state = "pending", !.queuedAt = clock] \in Row
               /\ [rows[e] EXCEPT !.state = IF @ = "failed" THEN "pending" ELSE @,
                                  !.attempts = 0, !.waiting = FALSE] \in Row
    BY <1>0, RowTypes
  <2> QED
    BY <1>0, <2>1 DEF Enqueue
<1>2. \A E \in SUBSET Episodes : Dequeue(E) \in [Episodes -> Row]
  BY DEF Dequeue, Row, NoRow
<1>3. \A e \in Episodes, r \in Releases \cup {NoRelease} :
        SetQueuedRelease(e, r) \in [Episodes -> Row]
  <2> SUFFICES ASSUME NEW e \in Episodes, NEW r \in Releases \cup {NoRelease}
               PROVE  SetQueuedRelease(e, r) \in [Episodes -> Row]
    OBVIOUS
  <2>1. [rows[e] EXCEPT !.pick = r, !.attempts = 0, !.waiting = FALSE,
                        !.state = IF @ = "failed" THEN "pending" ELSE @] \in Row
    BY <1>0, RowTypes
  <2> QED
    BY <1>0, <2>1 DEF SetQueuedRelease
<1>4. \A e \in Episodes : promote(e) => rows' \in [Episodes -> Row]
  <2> SUFFICES ASSUME NEW e \in Episodes, NEW oldest \in Oldest,
                      rows' = Promoted(e, oldest)
               PROVE  rows' \in [Episodes -> Row]
    BY DEF promote
  <2>1. oldest - 1 \in Int
    <3>1. oldest \in Int
      BY DEF Oldest, Queued, Row
    <3> QED
      BY <3>1
  <2>2. [rows[e] EXCEPT !.queuedAt = oldest - 1, !.waiting = FALSE] \in Row
    BY <1>0, <2>1, RowTypes
  <2> QED
    BY <1>0, <2>2 DEF Promoted
<1>5. \A e \in Episodes : RequeueActive(e) \in [Episodes -> Row]
  BY DEF RequeueActive, Row
<1>6. \A e \in Episodes : Defer(e) \in [Episodes -> Row]
  <2> SUFFICES ASSUME NEW e \in Episodes
               PROVE  Defer(e) \in [Episodes -> Row]
    OBVIOUS
  <2>1. rows[e].attempts + 1 \in Nat
    BY <1>0 DEF Row
  <2>2. [rows[e] EXCEPT !.state = "pending", !.attempts = @ + 1,
                        !.waiting = TRUE, !.queuedAt = clock] \in Row
    BY <1>0, <2>1, RowTypes
  <2> QED
    BY <1>0, <2>2 DEF Defer
<1>7. \A e \in Episodes, failed \in BOOLEAN : FinishQueued(e, failed) \in [Episodes -> Row]
  BY DEF FinishQueued, Row, NoRow
<1>8. ResetActive \in [Episodes -> Row]
  BY DEF ResetActive, Row
<1> QED
  BY <1>1, <1>2, <1>3, <1>4, <1>5, <1>6, <1>7, <1>8

\* What a request assigns to its own place leaves a client.
LEMMA ClientTypes ==
    ASSUME NEW k \in Client, NEW pc \in ClientPCs, NEW E \in SUBSET Episodes,
           NEW r \in Releases \cup {NoRelease}, NEW b \in BOOLEAN, NEW d \in BOOLEAN
    PROVE  /\ Idle \in Client
           /\ [k EXCEPT !.pc = pc] \in Client
           /\ [k EXCEPT !.pc = pc, !.seen = b] \in Client
           /\ [k EXCEPT !.seen = b, !.pc = pc] \in Client
           /\ [k EXCEPT !.pc = pc, !.resume = b] \in Client
           /\ [k EXCEPT !.pc = pc, !.eps = E] \in Client
           /\ [k EXCEPT !.pc = pc, !.eps = E, !.resume = b] \in Client
           /\ [k EXCEPT !.pc = pc, !.eps = E, !.pick = r, !.resume = b] \in Client
           /\ [k EXCEPT !.pc = pc, !.resume = b, !.seen = d] \in Client
           /\ [k EXCEPT !.seen = b] \in Client
<1>1. Idle \in Client
  BY DEF Idle, Client, ClientPCs
<1>2. [k EXCEPT !.pc = pc] \in Client /\ [k EXCEPT !.seen = b] \in Client
  BY DEF Client
<1>3. [k EXCEPT !.pc = pc, !.seen = b] \in Client /\ [k EXCEPT !.seen = b, !.pc = pc] \in Client
  BY DEF Client
<1>4. [k EXCEPT !.pc = pc, !.resume = b] \in Client /\ [k EXCEPT !.pc = pc, !.eps = E] \in Client
  BY DEF Client
<1>5. [k EXCEPT !.pc = pc, !.eps = E, !.resume = b] \in Client
  BY DEF Client
<1>6. [k EXCEPT !.pc = pc, !.eps = E, !.pick = r, !.resume = b] \in Client
  BY DEF Client
<1>7. [k EXCEPT !.pc = pc, !.resume = b, !.seen = d] \in Client
  BY DEF Client
<1> QED
  BY <1>1, <1>2, <1>3, <1>4, <1>5, <1>6, <1>7

\* What the worker and the requests assign to its place leaves a worker.
LEMMA WorkerTypes ==
    ASSUME NEW w \in Worker, NEW pc \in WorkerPCs, NEW e \in Episodes, NEW n \in Nat,
           NEW r \in Releases \cup {NoRelease}, NEW b \in BOOLEAN,
           NEW p \in {"no", "user", "other"}, NEW o \in Outcomes
    PROVE  /\ Rest(pc) \in Worker
           /\ [w EXCEPT !.pc = pc] \in Worker
           /\ [w EXCEPT !.stopped = b] \in Worker
           /\ [w EXCEPT !.pausedBy = p] \in Worker
           /\ [w EXCEPT !.pc = pc, !.stopped = b] \in Worker
           /\ [w EXCEPT !.pc = pc, !.outcome = o] \in Worker
           /\ [Rest(pc) EXCEPT !.ep = e, !.pick = r, !.attempts = n] \in Worker
<1>1. Rest(pc) \in Worker
  BY DEF Rest, Worker, Outcomes
<1>2. [w EXCEPT !.pc = pc] \in Worker /\ [w EXCEPT !.stopped = b] \in Worker
  BY DEF Worker
<1>3. [w EXCEPT !.pausedBy = p] \in Worker /\ [w EXCEPT !.pc = pc, !.stopped = b] \in Worker
  BY DEF Worker
<1>4. [w EXCEPT !.pc = pc, !.outcome = o] \in Worker
  BY DEF Worker
<1>5. [Rest(pc) EXCEPT !.ep = e, !.pick = r, !.attempts = n] \in Worker
  BY <1>1 DEF Worker
<1> QED
  BY <1>1, <1>2, <1>3, <1>4, <1>5

\* A request's own place in clients is all it changes there.
LEMMA BecomeTypes ==
    ASSUME clients \in [Clients -> Client], NEW c \in Clients
    PROVE  /\ clients[c] \in Client
           /\ \A k \in Client : Become(c, k) => clients' \in [Clients -> Client]
           /\ \A pc \in ClientPCs : Goto(c, pc) => clients' \in [Clients -> Client]
           /\ Finish(c) => clients' \in [Clients -> Client]
<1>1. clients[c] \in Client
  OBVIOUS
<1>2. \A k \in Client : Become(c, k) => clients' \in [Clients -> Client]
  BY DEF Become
<1>3. \A pc \in ClientPCs : Goto(c, pc) => clients' \in [Clients -> Client]
  <2> SUFFICES ASSUME NEW pc \in ClientPCs
               PROVE  [clients[c] EXCEPT !.pc = pc] \in Client
    BY <1>2 DEF Goto
  <2> QED
    BY <1>1 DEF Client
<1>4. Finish(c) => clients' \in [Clients -> Client]
  <2>1. Idle \in Client
    BY DEF Idle, Client, ClientPCs
  <2> QED
    BY <1>2, <2>1 DEF Finish
<1> QED
  BY <1>1, <1>2, <1>3, <1>4

\* What one request may name is a set of episodes.
LEMMA SelectionTypes == \A E \in Selections : E \subseteq Episodes
  BY DEF Selections, EpisodesOf

\* A request's first step keeps the types.
LEMMA RequestTypes ==
    ASSUME TypeOK, NEW c \in Clients, Request(c)
    PROVE  TypeOK'
<1> USE DEF TypeOK
<1>0. /\ clients[c] \in Client
      /\ \A pc \in {"wake", "stop", "mark", "unmark", "pick", "capture", "setPaused", "cancelStop"} :
            pc \in ClientPCs
      /\ \A r \in Releases : r \in Releases \cup {NoRelease}
      /\ {} \in SUBSET Episodes /\ TRUE \in BOOLEAN /\ FALSE \in BOOLEAN
      /\ \A e \in Episodes : {e} \in SUBSET Episodes
  BY DEF ClientPCs
<1>1. ASSUME NEW E \in Selections, Download(c, E)
      PROVE  TypeOK'
  <2>1. TableOK'
    BY <1>1, TableTypes, SelectionTypes DEF Download, TableOK
  <2>2. clients' \in [Clients -> Client]
    BY <1>0, <1>1, BecomeTypes DEF Download
  <2> QED
    BY <1>1, <2>1, <2>2 DEF Download, Spend, memory, MemoryOK, WorkerOK, CountersOK
<1>2. ASSUME NEW E \in Selections, Cancel(c, E)
      PROVE  TypeOK'
  <2>1. TableOK'
    BY <1>2, TableTypes, SelectionTypes DEF Cancel, TableOK
  <2>2. clients' \in [Clients -> Client]
    <3>1. [clients[c] EXCEPT !.pc = "cancelStop", !.eps = E] \in Client
      BY <1>0, SelectionTypes DEF Client
    <3> QED
      BY <1>2, <3>1, BecomeTypes DEF Cancel
  <2> QED
    BY <1>2, <2>1, <2>2 DEF Cancel, Spend, memory, MemoryOK, WorkerOK, CountersOK
<1>3. ASSUME NEW e \in Episodes, NEW r \in Releases, DownloadRelease(c, e, r)
      PROVE  TypeOK'
  <2>1. TableOK'
    BY <1>0, <1>3, TableTypes DEF DownloadRelease, TableOK
  <2>2. clients' \in [Clients -> Client]
    <3>1. [clients[c] EXCEPT !.pc = "pick", !.eps = {e}, !.pick = r, !.resume = TRUE] \in Client
      BY <1>0 DEF Client
    <3> QED
      BY <1>3, <3>1, BecomeTypes DEF DownloadRelease
  <2> QED
    BY <1>3, <2>1, <2>2 DEF DownloadRelease, Spend, memory, MemoryOK, WorkerOK, CountersOK
<1>4. ASSUME NEW e \in Episodes, Now(c, e)
      PROVE  TypeOK'
  <2>1. TableOK'
    BY <1>4, TableTypes DEF Now, TableOK
  <2>2. clients' \in [Clients -> Client]
    <3>1. [clients[c] EXCEPT !.pc = "capture", !.eps = {e}, !.resume = TRUE] \in Client
      BY <1>0 DEF Client
    <3> QED
      BY <1>4, <3>1, BecomeTypes DEF Now
  <2> QED
    BY <1>4, <2>1, <2>2 DEF Now, Spend, memory, MemoryOK, WorkerOK, CountersOK
<1>5. ASSUME NEW s \in Episodes, Hold(c, s)
      PROVE  TypeOK'
  <2>1. MemoryOK'
    BY <1>5 DEF Hold, MemoryOK
  <2>2. clients' \in [Clients -> Client]
    <3>1. [clients[c] EXCEPT !.pc = "stop", !.seen = TRUE] \in Client
      BY <1>0 DEF Client
    <3> QED
      BY <1>5, <3>1, BecomeTypes DEF Hold
  <2> QED
    BY <1>5, <2>1, <2>2 DEF Hold, Spend, table, TableOK, WorkerOK, CountersOK
<1>6. ASSUME NEW s \in Episodes, Release(c, s)
      PROVE  TypeOK'
  <2>1. MemoryOK'
    BY <1>6 DEF Release, MemoryOK
  <2>2. clients' \in [Clients -> Client]
    BY <1>0, <1>6, BecomeTypes DEF Release
  <2> QED
    BY <1>6, <2>1, <2>2 DEF Release, Spend, table, TableOK, WorkerOK, CountersOK
<1>7. ASSUME NEW p \in BOOLEAN, SetPaused(c, p)
      PROVE  TypeOK'
  <2>1. clients' \in [Clients -> Client]
    <3>1. (~p) \in BOOLEAN
      OBVIOUS
    <3>2. [clients[c] EXCEPT !.pc = "setPaused", !.resume = ~p] \in Client
      BY <1>0, <3>1, ClientTypes
    <3> QED
      BY <1>7, <3>2, BecomeTypes DEF SetPaused
  <2> QED
    BY <1>7, <2>1
    DEF SetPaused, Spend, table, memory, TableOK, MemoryOK, WorkerOK, CountersOK
<1>8. ASSUME NEW e \in Episodes, NEW run \in BOOLEAN, SetDownloadRunning(c, e, run)
      PROVE  TypeOK'
  <2>1. WorkerOK'
    BY <1>8 DEF SetDownloadRunning, WorkerOK, Worker
  <2>2. clients' \in [Clients -> Client]
    <3>1. [clients[c] EXCEPT !.pc = IF run THEN "unmark" ELSE "mark", !.eps = {e}] \in Client
      BY <1>0 DEF Client
    <3> QED
      BY <1>8, <3>1, BecomeTypes DEF SetDownloadRunning
  <2> QED
    BY <1>8, <2>1, <2>2
    DEF SetDownloadRunning, Spend, table, memory, TableOK, MemoryOK, CountersOK
<1> QED
  BY <1>1, <1>2, <1>3, <1>4, <1>5, <1>6, <1>7, <1>8 DEF Request

\* The later steps of a request keep the types.
LEMMA ProceedTypes ==
    ASSUME TypeOK, NEW c \in Clients, Proceed(c) \/ RequestFails(c)
    PROVE  TypeOK'
<1> USE DEF TypeOK
<1>0. /\ clients[c] \in Client /\ worker \in Worker
      /\ \A pc \in {"idle", "promote", "capture", "stop", "setting", "setPaused", "wake"} :
            pc \in ClientPCs
      /\ (~clients[c].resume) \in BOOLEAN
      /\ (Running /\ ~clients[c].resume) \in BOOLEAN
  BY DEF ClientPCs, WorkerOK
<1>1. ASSUME NEW e \in Episodes, ChooseRelease(c, e)
      PROVE  TypeOK'
  <2>1. TableOK'
    <3>1. clients[c].pick \in Releases \cup {NoRelease}
      BY <1>0 DEF Client
    <3> QED
      BY <1>1, <3>1, TableTypes DEF ChooseRelease, TableOK
  <2>2. clients' \in [Clients -> Client]
    BY <1>0, <1>1, BecomeTypes DEF ChooseRelease
  <2> QED
    BY <1>1, <2>1, <2>2 DEF ChooseRelease, memory, MemoryOK, WorkerOK, CountersOK
<1>2. ASSUME NEW e \in Episodes, Restart(c, e)
      PROVE  TypeOK'
  <2>1. TableOK'
    BY <1>2, TableTypes DEF Restart, TableOK
  <2>2. clients' \in [Clients -> Client]
    BY <1>0, <1>2, BecomeTypes DEF Restart
  <2> QED
    BY <1>2, <2>1, <2>2 DEF Restart, memory, MemoryOK, WorkerOK, CountersOK
<1>3. ASSUME CaptureCurrent(c)
      PROVE  TypeOK'
  <2> DEFINE stops == Running /\ (clients[c].pick = NoRelease => worker.ep \notin clients[c].eps)
  <2>1. clients' \in [Clients -> Client]
    <3>1. ASSUME NEW b \in BOOLEAN
          PROVE  [Idle EXCEPT !.pc = IF b THEN "stop" ELSE "setting",
                              !.resume = TRUE, !.seen = b] \in Client
      BY <1>0 DEF Idle, Client
    <3>2. stops \in BOOLEAN
      OBVIOUS
    <3>3. [Idle EXCEPT !.pc = IF stops THEN "stop" ELSE "setting",
                       !.resume = TRUE, !.seen = stops] \in Client
      BY <3>1, <3>2
    <3> QED
      BY <1>3, <3>3, BecomeTypes DEF CaptureCurrent
  <2> QED
    BY <1>3, <2>1 DEF CaptureCurrent, table, memory, TableOK, MemoryOK, WorkerOK, CountersOK
<1>4. ASSUME StopCurrent(c)
      PROVE  TypeOK'
  <2>1. WorkerOK'
    <3>1. (worker.stopped \/ clients[c].seen) \in BOOLEAN
      OBVIOUS
    <3> QED
      BY <1>4, <3>1 DEF StopCurrent, WorkerOK, Worker
  <2>2. clients' \in [Clients -> Client]
    <3>1. [clients[c] EXCEPT !.pc = "setting", !.seen = FALSE] \in Client
      BY <1>0 DEF Client
    <3> QED
      BY <1>4, <3>1, BecomeTypes DEF StopCurrent
  <2> QED
    BY <1>4, <2>1, <2>2 DEF StopCurrent, table, memory, TableOK, MemoryOK, CountersOK
<1>5. ASSUME ResumeSetting(c)
      PROVE  TypeOK'
  <2>1. clients' \in [Clients -> Client]
    BY <1>0, <1>5, BecomeTypes DEF ResumeSetting
  <2> QED
    BY <1>5, <2>1
    DEF ResumeSetting, table, memory, TableOK, MemoryOK, WorkerOK, CountersOK
<1>6. ASSUME SetPausedField(c)
      PROVE  TypeOK'
  <2>1. MemoryOK'
    BY <1>0, <1>6 DEF SetPausedField, MemoryOK
  <2>2. clients' \in [Clients -> Client]
    <3> DEFINE pc == IF clients[c].resume THEN "wake" ELSE IF Running THEN "stop" ELSE "idle"
    <3>1. pc \in ClientPCs
      BY <1>0
    <3>2. [clients[c] EXCEPT !.seen = Running /\ ~clients[c].resume, !.pc = pc] \in Client
      BY <1>0, <3>1 DEF Client
    <3> QED
      BY <1>6, <3>2, BecomeTypes DEF SetPausedField
  <2> QED
    BY <1>6, <2>1, <2>2 DEF SetPausedField, table, TableOK, WorkerOK, CountersOK
<1>7. ASSUME Wake(c)
      PROVE  TypeOK'
  <2>1. clients' \in [Clients -> Client]
    BY <1>7, BecomeTypes DEF Wake
  <2> QED
    BY <1>7, <2>1 DEF Wake, table, TableOK, MemoryOK, WorkerOK, CountersOK
<1>8. ASSUME CancelCurrent(c)
      PROVE  TypeOK'
  <2>1. WorkerOK'
    <3>1. (worker.stopped \/ (Running /\ worker.ep \in clients[c].eps)) \in BOOLEAN
      OBVIOUS
    <3> QED
      BY <1>8, <3>1 DEF CancelCurrent, WorkerOK, Worker
  <2>2. clients' \in [Clients -> Client]
    BY <1>8, BecomeTypes DEF CancelCurrent
  <2> QED
    BY <1>8, <2>1, <2>2 DEF CancelCurrent, table, memory, TableOK, MemoryOK, CountersOK
<1>9. ASSUME SetUserPaused(c)
      PROVE  TypeOK'
  <2>1. MemoryOK'
    BY <1>0, <1>9 DEF SetUserPaused, MemoryOK, Client
  <2>2. clients' \in [Clients -> Client]
    BY <1>9, BecomeTypes DEF SetUserPaused
  <2> QED
    BY <1>9, <2>1, <2>2 DEF SetUserPaused, table, TableOK, WorkerOK, CountersOK
<1>10. ASSUME RequestFails(c)
       PROVE  TypeOK'
  <2>1. clients' \in [Clients -> Client]
    BY <1>10, BecomeTypes DEF RequestFails
  <2> QED
    BY <1>10, <2>1
    DEF RequestFails, Fault, table, memory, TableOK, MemoryOK, WorkerOK, CountersOK
<1> QED
  BY <1>1, <1>2, <1>3, <1>4, <1>5, <1>6, <1>7, <1>8, <1>9, <1>10 DEF Proceed

\* Whatever the download came to, the worker's last write leaves a table.
LEMMA SettledTypes ==
    ASSUME TypeOK, worker.pc = "landed"
    PROVE  Settled \in [Episodes -> Row]
<1>1. worker.ep \in Episodes /\ worker.outcome \in Outcomes /\ worker.stopped \in BOOLEAN
  BY DEF TypeOK, WorkerOK, Worker
<1>2. /\ RequeueActive(worker.ep) \in [Episodes -> Row]
      /\ Defer(worker.ep) \in [Episodes -> Row]
      /\ FinishQueued(worker.ep, TRUE) \in [Episodes -> Row]
      /\ FinishQueued(worker.ep, FALSE) \in [Episodes -> Row]
  BY <1>1, TableTypes DEF TypeOK, TableOK
<1> QED
  BY <1>1, <1>2 DEF Settled, Outcomes

\* The worker's steps keep the types.
LEMMA WorkerStepTypes ==
    ASSUME TypeOK, WorkerStep \/ SettleFails \/ ClaimFails \/ ResetFails
    PROVE  TypeOK'
<1> USE DEF TypeOK
<1>0. /\ worker \in Worker
      /\ \A pc \in WorkerPCs : Rest(pc) \in Worker /\ Rest(pc).pc = pc
      /\ \A pc \in {"boot", "restore", "restorePaused", "check", "claim", "claimed",
                    "running", "landed", "timer", "wait"} : pc \in WorkerPCs
      /\ \A pc \in WorkerPCs : [worker EXCEPT !.pc = pc] \in Worker
  BY DEF WorkerOK, WorkerPCs, Rest, Worker, Outcomes
<1>1. ASSUME Boot \/ ResetFails
      PROVE  TypeOK'
  <2>1. TableOK'
    BY <1>1, TableTypes DEF Boot, ResetFails, TableOK
  <2>2. WorkerOK'
    BY <1>0, <1>1 DEF Boot, ResetFails, WorkerOK, Worker
  <2> QED
    BY <1>1, <2>1, <2>2 DEF Boot, ResetFails, Fault, memory, MemoryOK, CountersOK
<1>2. ASSUME ReadSetting \/ CheckHeld
      PROVE  TypeOK'
  <2>1. WorkerOK'
    BY <1>0, <1>2 DEF ReadSetting, CheckHeld, WorkerOK, Worker
  <2> QED
    BY <1>2, <2>1
    DEF ReadSetting, CheckHeld, table, memory, TableOK, MemoryOK, CountersOK
<1>3. ASSUME RestorePaused
      PROVE  TypeOK'
  <2>1. WorkerOK'
    BY <1>0, <1>3 DEF RestorePaused, WorkerOK, Worker
  <2> QED
    BY <1>3, <2>1 DEF RestorePaused, table, TableOK, MemoryOK, CountersOK
<1>4. ASSUME NEW e \in Episodes, NextQueued(e)
      PROVE  TypeOK'
  <2>1. TableOK'
    BY <1>4 DEF NextQueued, TableOK, Row
  <2>2. WorkerOK'
    <3>1. rows[e].pick \in Releases \cup {NoRelease} /\ rows[e].attempts \in Nat
      BY DEF TableOK, Row
    <3>2. ASSUME NEW w \in Worker, w.pc = "claimed"
          PROVE  LET v == [w EXCEPT !.ep = e, !.pick = rows[e].pick,
                                    !.attempts = rows[e].attempts]
                 IN  v \in Worker /\ v.pc = "claimed" /\ v.ep = e
      BY <3>1, <3>2 DEF Worker
    <3> QED
      BY <1>0, <1>4, <3>2 DEF NextQueued, WorkerOK
  <2> QED
    BY <1>4, <2>1, <2>2 DEF NextQueued, memory, MemoryOK, CountersOK
<1>5. ASSUME NothingQueued \/ ClaimFails
      PROVE  TypeOK'
  <2>1. WorkerOK'
    BY <1>0, <1>5 DEF NothingQueued, ClaimFails, WorkerOK
  <2>2. CountersOK'
    <3>1. setting' \in BOOLEAN /\ unseen' \in BOOLEAN
      BY <1>5 DEF NothingQueued, ClaimFails, CountersOK
    <3>2. ops' \in Nat /\ faults' \in Nat
      BY <1>5 DEF NothingQueued, ClaimFails, Fault, CountersOK
    <3> QED
      BY <3>1, <3>2 DEF CountersOK
  <2> QED
    BY <1>5, <2>1, <2>2 DEF NothingQueued, ClaimFails, table, memory, TableOK, MemoryOK
<1>6. ASSUME StartFlight
      PROVE  TypeOK'
  <2>1. WorkerOK'
    <3>1. held \in BOOLEAN
      BY DEF held
    <3> QED
      BY <1>0, <1>6, <3>1 DEF StartFlight, WorkerOK, Worker
  <2> QED
    BY <1>6, <2>1 DEF StartFlight, table, memory, TableOK, MemoryOK, CountersOK
<1>7. ASSUME NEW o \in Outcomes, Land(o)
      PROVE  TypeOK'
  <2>1. WorkerOK'
    BY <1>0, <1>7 DEF Land, Running, WorkerOK, Worker
  <2> QED
    BY <1>7, <2>1 DEF Land, table, memory, TableOK, MemoryOK, CountersOK
<1>8. ASSUME Settle \/ SettleFails
      PROVE  TypeOK'
  <2>1. TableOK'
    <3>1. worker.pc = "landed" /\ worker.ep \in Episodes
      BY <1>8 DEF Settle, SettleFails, WorkerOK
    <3> QED
      BY <1>8, <3>1, SettledTypes DEF Settle, SettleFails, TableOK
  <2>2. WorkerOK'
    BY <1>0, <1>8 DEF Settle, SettleFails, EndStep, WorkerOK
  <2>3. clients' \in [Clients -> Client]
    <3>1. \A c \in Clients : [clients[c] EXCEPT !.seen = FALSE] \in Client
      BY DEF Client
    <3> QED
      BY <1>8, <3>1 DEF Settle, SettleFails, EndStep
  <2> QED
    BY <1>8, <2>1, <2>2, <2>3 DEF Settle, SettleFails, Fault, memory, MemoryOK, CountersOK
<1>9. ASSUME SetTimer \/ Woken \/ IdleOver
      PROVE  TypeOK'
  <2>1. WorkerOK'
    BY <1>0, <1>9 DEF SetTimer, Woken, IdleOver, WorkerOK
  <2> QED
    BY <1>9, <2>1 DEF SetTimer, Woken, IdleOver, table, memory, TableOK, MemoryOK, CountersOK
<1> QED
  BY <1>1, <1>2, <1>3, <1>4, <1>5, <1>6, <1>7, <1>8, <1>9 DEF WorkerStep

\* Time, the engine and a crash keep the types.
LEMMA SurroundingsTypes ==
    ASSUME TypeOK, Tick \/ OtherPause \/ Crash \/ \E e \in Episodes : RetryDue(e)
    PROVE  TypeOK'
<1> USE DEF TypeOK
<1>1. ASSUME Tick
      PROVE  TypeOK'
  BY <1>1 DEF Tick, memory, TableOK, MemoryOK, WorkerOK, CountersOK
<1>2. ASSUME OtherPause
      PROVE  TypeOK'
  <2>1. WorkerOK'
    BY <1>2 DEF OtherPause, WorkerOK, Worker
  <2> QED
    BY <1>2, <2>1 DEF OtherPause, Fault, table, memory, TableOK, MemoryOK, CountersOK
<1>3. ASSUME Crash
      PROVE  TypeOK'
  <2>1. WorkerOK'
    BY <1>3 DEF Crash, WorkerOK, Rest, Worker, WorkerPCs, Outcomes
  <2>2. clients' \in [Clients -> Client]
    BY <1>3 DEF Crash, Idle, Client, ClientPCs
  <2> QED
    <3>1. TableOK'
      BY <1>3 DEF Crash, table, TableOK
    <3>2. MemoryOK'
      BY <1>3 DEF Crash, MemoryOK
    <3>3. CountersOK'
      <4>1. setting' \in BOOLEAN /\ unseen' \in BOOLEAN
        BY <1>3 DEF Crash, CountersOK
      <4>2. ops' \in Nat /\ faults' \in Nat
        BY <1>3 DEF Crash, Fault, CountersOK
      <4> QED
        BY <4>1, <4>2 DEF CountersOK
    <3> QED
      BY <2>1, <2>2, <3>1, <3>2, <3>3
<1>4. ASSUME NEW e \in Episodes, RetryDue(e)
      PROVE  TypeOK'
  <2>1. TableOK'
    <3>0. rows \in [Episodes -> Row] /\ rows[e] \in Row
      BY DEF TableOK
    <3>1. [rows[e] EXCEPT !.waiting = FALSE] \in Row
      BY <3>0 DEF Row
    <3>2. rows' = [rows EXCEPT ![e] = [rows[e] EXCEPT !.waiting = FALSE]]
      BY <1>4, <3>0 DEF RetryDue
    <3>3. rows' \in [Episodes -> Row]
      BY <3>0, <3>1, <3>2
    <3> QED BY <1>4, <3>3 DEF RetryDue, TableOK
  <2> QED
    BY <1>4, <2>1 DEF RetryDue, memory, MemoryOK, WorkerOK, CountersOK
<1> QED
  BY <1>1, <1>2, <1>3, <1>4

\* TypeOK is inductive.
LEMMA TypeInductive == TypeOK /\ [Next]_vars => TypeOK'
<1> SUFFICES ASSUME TypeOK, [Next]_vars
             PROVE  TypeOK'
  OBVIOUS
<1>1. CASE Next
  BY <1>1, RequestTypes, ProceedTypes, WorkerStepTypes, SurroundingsTypes
  DEF Next, Environment
<1>2. CASE UNCHANGED vars
  BY <1>2 DEF vars, TypeOK, TableOK, MemoryOK, WorkerOK, CountersOK
<1> QED
  BY <1>1, <1>2

\* A fresh process, with an empty table, has the types.
LEMMA TypeInitially ==
    ASSUME Init
    PROVE  TypeOK
<1>1. TableOK
  BY DEF Init, TableOK, Row, NoRow
<1>2. MemoryOK
  BY DEF Init, MemoryOK
<1>3. WorkerOK
  BY DEF Init, WorkerOK, Rest, Worker, WorkerPCs, Outcomes
<1>4. CountersOK
  BY DEF Init, CountersOK
<1>5. clients \in [Clients -> Client]
  BY DEF Init, Idle, Client, ClientPCs
<1> QED
  BY <1>1, <1>2, <1>3, <1>4, <1>5 DEF TypeOK

\* In every state every variable has its type: the table, the Downloader's
\* fields, the worker of Run and step, and the requests under way.
THEOREM TypeCorrect == Spec => []TypeOK
  BY TypeInitially, TypeInductive, PTL DEF Spec
-----------------------------------------------------------------------------
(* Safety.                                                                 *)

\* Neither a request nor a start makes a row active or adds a try to it.
Tamer(new) ==
    \A f \in Episodes : /\ new[f].state = "active" => rows[f].state = "active"
                        /\ new[f].attempts <= rows[f].attempts

\* The tries the worker read at its claim bound the row's own, which requests
\* only ever reset; they are what step compares with queueRetries.
ClaimCounts ==
    \A e \in Episodes : Claims(e) => /\ rows[e].attempts <= worker.attempts
                                     /\ worker.attempts <= queueRetries

\* PausedStaysDown and WatchedFirst in one: both rest on a stop on its way.
StandsDown ==
    Running /\ ~worker.stopped /\ (paused \/ watching \ {worker.ep} # {}) => AboutToStop

\* Only Now and Restart, which go on to SetPaused(false), write the setting late.
SettingResumes == \A c \in Clients : At(c, "setting") => clients[c].resume

\* The inductive invariant of the queue.
QueueInv == /\ TypeOK /\ ActiveIsClaimed /\ RetriesBounded /\ ClaimCounts
            /\ StandsDown /\ SettingResumes /\ NoLostWakeup

------------------------------------------------------------------------------
(* What the statements do to the rows.                                     *)

\* All statements but the claim and the deferral are tame.
LEMMA TameStatements ==
    ASSUME TypeOK
    PROVE  /\ \A E \in SUBSET Episodes : Tamer(Enqueue(E)) /\ Tamer(Dequeue(E))
           /\ \A e \in Episodes, r \in Releases \cup {NoRelease} : Tamer(SetQueuedRelease(e, r))
           /\ \A e \in Episodes : promote(e) => Tamer(rows')
           /\ \A e \in Episodes : Tamer(RequeueActive(e))
           /\ \A e \in Episodes, failed \in BOOLEAN : Tamer(FinishQueued(e, failed))
           /\ Tamer(ResetActive)
<1>0. rows \in [Episodes -> Row] /\ \A f \in Episodes : rows[f] \in Row
  BY DEF TypeOK, TableOK
<1>1. \A f \in Episodes : rows[f].attempts \in Nat
  BY <1>0 DEF Row
<1>2. \A f \in Episodes : 0 <= rows[f].attempts /\ rows[f].attempts <= rows[f].attempts
  BY <1>1
<1>3. ASSUME NEW E \in SUBSET Episodes
      PROVE  Tamer(Enqueue(E)) /\ Tamer(Dequeue(E))
  <2>1. ASSUME NEW f \in Episodes
        PROVE  /\ [NoRow EXCEPT !.state = "pending", !.queuedAt = clock].state = "pending"
               /\ [NoRow EXCEPT !.state = "pending", !.queuedAt = clock].attempts = 0
    BY DEF NoRow
  <2>2. ASSUME NEW f \in Episodes
        PROVE  LET r == [rows[f] EXCEPT !.state = IF @ = "failed" THEN "pending" ELSE @,
                                        !.attempts = 0, !.waiting = FALSE]
               IN  r.attempts = 0 /\ (r.state = "active" => rows[f].state = "active")
    BY <1>0 DEF Row
  <2>3. Tamer(Enqueue(E))
    BY <1>2, <2>1, <2>2 DEF Tamer, Enqueue
  <2>4. Tamer(Dequeue(E))
    BY <1>2 DEF Tamer, Dequeue, NoRow
  <2> QED
    BY <2>3, <2>4
<1>4. ASSUME NEW e \in Episodes, NEW r \in Releases \cup {NoRelease}
      PROVE  Tamer(SetQueuedRelease(e, r))
  <2>1. LET n == [rows[e] EXCEPT !.pick = r, !.attempts = 0, !.waiting = FALSE,
                                 !.state = IF @ = "failed" THEN "pending" ELSE @]
        IN  n.attempts = 0 /\ (n.state = "active" => rows[e].state = "active")
    BY <1>0 DEF Row
  <2> QED
    BY <1>0, <1>2, <2>1 DEF Tamer, SetQueuedRelease
<1>5. ASSUME NEW e \in Episodes, promote(e)
      PROVE  Tamer(rows')
  <2>1. PICK oldest \in Oldest : rows' = Promoted(e, oldest)
    BY <1>5 DEF promote
  <2>2. LET n == [rows[e] EXCEPT !.queuedAt = oldest - 1, !.waiting = FALSE]
        IN  n.attempts = rows[e].attempts /\ n.state = rows[e].state
    BY <1>0 DEF Row
  <2> QED
    BY <1>0, <1>2, <2>1, <2>2 DEF Tamer, Promoted
<1>6. \A e \in Episodes : Tamer(RequeueActive(e))
  BY <1>0, <1>2 DEF Tamer, RequeueActive, Row
<1>7. \A e \in Episodes, failed \in BOOLEAN : Tamer(FinishQueued(e, failed))
  BY <1>0, <1>2 DEF Tamer, FinishQueued, Row, NoRow
<1>8. Tamer(ResetActive)
  BY <1>0, <1>2 DEF Tamer, ResetActive, Row
<1> QED
  BY <1>3, <1>4, <1>5, <1>6, <1>7, <1>8

------------------------------------------------------------------------------
(* Requests.                                                               *)

\* All a request ever does to the worker is stop its flight or pause its
\* torrent, and it moves no other request.
Apart(c) ==
    /\ worker'.pc = worker.pc /\ worker'.ep = worker.ep
    /\ worker'.attempts = worker.attempts
    /\ worker.stopped => worker'.stopped
    /\ stranded' = stranded
    /\ \A d \in Clients \ {c} : clients'[d] = clients[d]

\* The requests as they begin keep to themselves and to tame statements.
LEMMA RequestApart ==
    ASSUME TypeOK, NEW c \in Clients, Request(c)
    PROVE  Apart(c) /\ Tamer(rows')
<1>0. worker \in Worker /\ clients \in [Clients -> Client]
  BY DEF TypeOK, WorkerOK
<1>1. rows' = rows => Tamer(rows')
  BY DEF TypeOK, TableOK, Row, Tamer
<1>2. ASSUME NEW E \in Selections, Download(c, E) \/ Cancel(c, E)
      PROVE  Apart(c) /\ Tamer(rows')
  <2>1. Tamer(rows')
    BY <1>2, TameStatements, SelectionTypes DEF Download, Cancel
  <2> QED
    BY <1>0, <1>2, <2>1 DEF Download, Cancel, Apart, Goto, Become
<1>3. ASSUME NEW e \in Episodes, NEW r \in Releases, DownloadRelease(c, e, r)
      PROVE  Apart(c) /\ Tamer(rows')
  <2>1. Tamer(rows')
    BY <1>3, TameStatements DEF DownloadRelease
  <2> QED
    BY <1>0, <1>3, <2>1 DEF DownloadRelease, Apart, Become
<1>4. ASSUME NEW e \in Episodes, Now(c, e)
      PROVE  Apart(c) /\ Tamer(rows')
  <2>1. Tamer(rows')
    BY <1>4, TameStatements DEF Now
  <2> QED
    BY <1>0, <1>4, <2>1 DEF Now, Apart, Become
<1>5. ASSUME NEW s \in Episodes, Hold(c, s) \/ Release(c, s)
      PROVE  Apart(c) /\ Tamer(rows')
  BY <1>0, <1>1, <1>5 DEF Hold, Release, Apart, Goto, Become, table
<1>6. ASSUME NEW p \in BOOLEAN, SetPaused(c, p)
      PROVE  Apart(c) /\ Tamer(rows')
  BY <1>0, <1>1, <1>6 DEF SetPaused, Apart, Become, table
<1>7. ASSUME NEW e \in Episodes, NEW run \in BOOLEAN, SetDownloadRunning(c, e, run)
      PROVE  Apart(c) /\ Tamer(rows')
  BY <1>0, <1>1, <1>7 DEF SetDownloadRunning, Apart, Become, table, Worker
<1> QED
  BY <1>2, <1>3, <1>4, <1>5, <1>6, <1>7 DEF Request

\* So do their later steps.
LEMMA ProceedApart ==
    ASSUME TypeOK, NEW c \in Clients, Proceed(c) \/ RequestFails(c)
    PROVE  Apart(c) /\ Tamer(rows')
<1>0. worker \in Worker /\ clients \in [Clients -> Client] /\ clients[c] \in Client
  BY DEF TypeOK, WorkerOK
<1>1. rows' = rows => Tamer(rows')
  BY DEF TypeOK, TableOK, Row, Tamer
<1>2. ASSUME NEW e \in Episodes, ChooseRelease(c, e)
      PROVE  Apart(c) /\ Tamer(rows')
  <2>1. clients[c].pick \in Releases \cup {NoRelease}
    BY <1>0 DEF Client
  <2>2. Tamer(rows')
    BY <1>2, <2>1, TameStatements DEF ChooseRelease
  <2> QED
    BY <1>0, <1>2, <2>2 DEF ChooseRelease, Apart, Goto, Become
<1>3. ASSUME NEW e \in Episodes, Restart(c, e)
      PROVE  Apart(c) /\ Tamer(rows')
  <2>1. Tamer(rows')
    BY <1>1, <1>3, TameStatements DEF Restart
  <2> QED
    BY <1>0, <1>3, <2>1 DEF Restart, Apart, Goto, Become
<1>4. ASSUME CaptureCurrent(c) \/ ResumeSetting(c) \/ SetPausedField(c) \/ Wake(c)
             \/ SetUserPaused(c) \/ RequestFails(c)
      PROVE  Apart(c) /\ Tamer(rows')
  BY <1>0, <1>1, <1>4
  DEF CaptureCurrent, ResumeSetting, SetPausedField, Wake, SetUserPaused, RequestFails,
      Apart, Goto, Finish, Become, table
<1>5. ASSUME StopCurrent(c) \/ CancelCurrent(c)
      PROVE  Apart(c) /\ Tamer(rows')
  BY <1>0, <1>1, <1>5 DEF StopCurrent, CancelCurrent, Apart, Finish, Become, table, Worker
<1> QED
  BY <1>2, <1>3, <1>4, <1>5 DEF Proceed

\* The rows' part of the invariant outlives what keeps to itself and is tame.
LEMMA TameKeepsRows ==
    ASSUME QueueInv, TypeOK', NEW c \in Clients, Apart(c), Tamer(rows')
    PROVE  (ActiveIsClaimed /\ RetriesBounded /\ ClaimCounts)'
<1>1. ActiveIsClaimed'
  BY DEF QueueInv, ActiveIsClaimed, Claims, Apart, Tamer
<1>2. /\ worker.attempts \in Nat /\ queueRetries \in Nat
      /\ \A e \in Episodes : rows[e].attempts \in Nat /\ rows'[e].attempts \in Nat
  BY BoundsAssumption DEF QueueInv, TypeOK, WorkerOK, Worker, TableOK, Row
<1>3. RetriesBounded'
  BY <1>2 DEF QueueInv, RetriesBounded, Tamer
<1>4. ClaimCounts'
  BY <1>2 DEF QueueInv, ClaimCounts, Claims, Apart, Tamer
<1> QED
  BY <1>1, <1>3, <1>4

\* A request that is not at a stop leaves every stop on its way, so it may
\* change anything that does not hold the queue harder.
LEMMA StopsRemain ==
    ASSUME QueueInv, NEW c \in Clients, Apart(c), ~At(c, "stop"),
           paused' => paused, watching' \subseteq watching
    PROVE  StandsDown'
  BY DEF QueueInv, StandsDown, AboutToStop, Running, At, Apart

\* A request that has no Wake to give up leaves every Wake on its way, so it
\* may change anything that offers no row and lets nothing loose.
LEMMA WakesRemain ==
    ASSUME QueueInv, NEW c \in Clients, Apart(c), ~WillWake(c),
           Claimable' \subseteq Claimable, ~held' => ~held, wake => wake', unseen => unseen'
    PROVE  NoLostWakeup'
  BY DEF QueueInv, NoLostWakeup, WillWake, Apart

\* The other requests stay as SettingResumes has them.
LEMMA SettingRemains ==
    ASSUME QueueInv, NEW c \in Clients, Apart(c), At(c, "setting")' => clients'[c].resume
    PROVE  SettingResumes'
  BY DEF QueueInv, SettingResumes, At, Apart

\* A cancelled row is not claimable any more.
LEMMA DequeueOffersNothing ==
    ASSUME NEW E \in SUBSET Episodes, rows' = Dequeue(E)
    PROVE  Claimable' \subseteq Claimable
  BY DEF Dequeue, Claimable, NoRow

\* A request's first step keeps the invariant.
LEMMA RequestInductive ==
    ASSUME QueueInv, NEW c \in Clients, Request(c)
    PROVE  QueueInv'
<1>0. TypeOK /\ TypeOK' /\ Apart(c) /\ Tamer(rows')
  BY RequestTypes, RequestApart DEF QueueInv
<1>1. (ActiveIsClaimed /\ RetriesBounded /\ ClaimCounts)'
  BY <1>0, TameKeepsRows
<1>2. clients \in [Clients -> Client] /\ clients[c] \in Client
  BY <1>0 DEF TypeOK
<1> SUFFICES (StandsDown /\ SettingResumes /\ NoLostWakeup)'
  BY <1>0, <1>1 DEF QueueInv
<1>3. ASSUME NEW E \in Selections, Download(c, E)
      PROVE  (StandsDown /\ SettingResumes /\ NoLostWakeup)'
  <2>1. ~At(c, "stop") /\ clients'[c].pc = "wake"
    BY <1>2, <1>3 DEF Download, Goto, Become, At, Client
  <2>2. StandsDown'
    BY <1>0, <1>3, <2>1, StopsRemain DEF Download, memory
  <2>3. SettingResumes'
    BY <1>0, <2>1, SettingRemains DEF At
  <2> QED
    BY <2>1, <2>2, <2>3 DEF NoLostWakeup, WillWake
<1>4. ASSUME NEW E \in Selections, Cancel(c, E)
      PROVE  (StandsDown /\ SettingResumes /\ NoLostWakeup)'
  <2>1. clients[c].pc = "idle" /\ clients'[c].pc = "cancelStop"
    BY <1>2, <1>4 DEF Cancel, Become, At, Client
  <2>2. StandsDown'
    BY <1>0, <1>4, <2>1, StopsRemain DEF Cancel, memory, At
  <2>3. SettingResumes'
    BY <1>0, <2>1, SettingRemains DEF At
  <2>4. Claimable' \subseteq Claimable
    BY <1>4, SelectionTypes, DequeueOffersNothing DEF Cancel
  <2>5. NoLostWakeup'
    BY <1>0, <1>4, <2>1, <2>4, WakesRemain DEF Cancel, memory, WillWake, held
  <2> QED
    BY <2>2, <2>3, <2>5
<1>5. ASSUME NEW e \in Episodes, NEW r \in Releases, DownloadRelease(c, e, r)
      PROVE  (StandsDown /\ SettingResumes /\ NoLostWakeup)'
  <2>1. ~At(c, "stop") /\ clients'[c].pc = "pick"
    BY <1>2, <1>5 DEF DownloadRelease, Become, At, Client
  <2>2. StandsDown'
    BY <1>0, <1>5, <2>1, StopsRemain DEF DownloadRelease, memory
  <2>3. SettingResumes'
    BY <1>0, <2>1, SettingRemains DEF At
  <2> QED
    BY <2>1, <2>2, <2>3 DEF NoLostWakeup, WillWake
<1>6. ASSUME NEW e \in Episodes, Now(c, e)
      PROVE  (StandsDown /\ SettingResumes /\ NoLostWakeup)'
  <2>1. ~At(c, "stop") /\ clients'[c].pc = "capture"
    BY <1>2, <1>6 DEF Now, Become, At, Client
  <2>2. StandsDown'
    BY <1>0, <1>6, <2>1, StopsRemain DEF Now, memory
  <2>3. SettingResumes'
    BY <1>0, <2>1, SettingRemains DEF At
  <2> QED
    BY <2>1, <2>2, <2>3 DEF NoLostWakeup, WillWake
<1>7. ASSUME NEW s \in Episodes, Hold(c, s)
      PROVE  (StandsDown /\ SettingResumes /\ NoLostWakeup)'
  <2>1. clients[c].pc = "idle" /\ clients'[c].pc \in {"idle", "stop"}
    <3>1. clients[c].pc = "idle" /\ clients[c] \in Client
      BY <1>2, <1>7 DEF Hold, At
    <3>2. CASE clients' = clients
      BY <3>1, <3>2
    <3>3. CASE clients' = [clients EXCEPT ![c] = [clients[c] EXCEPT !.pc = "stop", !.seen = TRUE]]
      <4>1. clients'[c] = [clients[c] EXCEPT !.pc = "stop", !.seen = TRUE]
        BY <1>2, <3>3
      <4> QED BY <3>1, <4>1 DEF Client
    <3> QED BY <1>7, <3>1, <3>2, <3>3 DEF Hold, Become
  <2>2. StandsDown'
    <3>1. CASE s \notin watching /\ Running /\ ~Current(s)
      <4>1. clients'[c].pc = "stop" /\ clients'[c].seen
        BY <1>2, <1>7, <3>1 DEF Hold, Become, Client
      <4> QED
        BY <4>1 DEF StandsDown, AboutToStop, At
    <3>2. CASE s \in watching
      <4>1. watching' = watching
        BY <1>7, <3>2 DEF Hold
      <4> QED
        BY <1>0, <1>7, <2>1, <4>1, StopsRemain DEF Hold, At
    <3>3. CASE ~Running
      BY <1>0, <3>3 DEF StandsDown, Running, Apart
    <3>4. CASE Current(s)
      <4>1. watching' \ {worker'.ep} = watching \ {worker.ep} /\ paused' = paused
        BY <1>7, <3>4 DEF Hold, Current
      <4>2. clients' = clients /\ worker' = worker
        BY <1>7, <3>4 DEF Hold
      <4> QED
        BY <4>1, <4>2 DEF QueueInv, StandsDown, Running, AboutToStop, At
    <3> QED
      BY <3>1, <3>2, <3>3, <3>4
  <2>3. SettingResumes'
    BY <1>0, <2>1, SettingRemains DEF At
  <2>4. held'
    BY <1>7 DEF Hold, held
  <2> QED
    BY <2>2, <2>3, <2>4 DEF NoLostWakeup
<1>8. ASSUME NEW s \in Episodes, Release(c, s)
      PROVE  (StandsDown /\ SettingResumes /\ NoLostWakeup)'
  <2>1. clients[c].pc = "idle" /\ clients'[c].pc \in {"idle", "wake"}
    BY <1>2, <1>8 DEF Release, Goto, Become, At, Client
  <2>2. StandsDown'
    BY <1>0, <1>8, <2>1, StopsRemain DEF Release, At
  <2>3. SettingResumes'
    BY <1>0, <2>1, SettingRemains DEF At
  <2>4. held' \/ clients'[c].pc = "wake"
    BY <1>2, <1>8 DEF Release, Goto, Become, Client, held
  <2> QED
    BY <2>2, <2>3, <2>4 DEF NoLostWakeup, WillWake
<1>9. ASSUME NEW p \in BOOLEAN, SetPaused(c, p)
      PROVE  (StandsDown /\ SettingResumes /\ NoLostWakeup)'
  <2>1. clients[c].pc = "idle" /\ clients'[c].pc = "setPaused"
    BY <1>2, <1>9 DEF SetPaused, Become, At, Client
  <2>2. StandsDown'
    BY <1>0, <1>9, <2>1, StopsRemain DEF SetPaused, memory, At
  <2>3. SettingResumes'
    BY <1>0, <2>1, SettingRemains DEF At
  <2>4. NoLostWakeup'
    BY <1>0, <1>9, <2>1, WakesRemain
    DEF SetPaused, table, memory, WillWake, held, Claimable
  <2> QED
    BY <2>2, <2>3, <2>4
<1>10. ASSUME NEW e \in Episodes, NEW run \in BOOLEAN, SetDownloadRunning(c, e, run)
       PROVE  (StandsDown /\ SettingResumes /\ NoLostWakeup)'
  <2>1. clients[c].pc = "idle" /\ clients'[c].pc \in {"mark", "unmark"}
    BY <1>2, <1>10 DEF SetDownloadRunning, Become, At, Client
  <2>2. StandsDown'
    BY <1>0, <1>10, <2>1, StopsRemain DEF SetDownloadRunning, memory, At
  <2>3. SettingResumes'
    BY <1>0, <2>1, SettingRemains DEF At
  <2>4. NoLostWakeup'
    BY <1>0, <1>10, <2>1, WakesRemain
    DEF SetDownloadRunning, table, memory, WillWake, held, Claimable
  <2> QED
    BY <2>2, <2>3, <2>4
<1> QED
  BY <1>3, <1>4, <1>5, <1>6, <1>7, <1>8, <1>9, <1>10 DEF Request

\* The later steps of a request keep the invariant.
LEMMA ProceedInductive ==
    ASSUME QueueInv, NEW c \in Clients, Proceed(c) \/ RequestFails(c)
    PROVE  QueueInv'
<1>0. TypeOK /\ TypeOK' /\ Apart(c) /\ Tamer(rows')
  BY ProceedTypes, ProceedApart DEF QueueInv
<1>1. (ActiveIsClaimed /\ RetriesBounded /\ ClaimCounts)'
  BY <1>0, TameKeepsRows
<1>2. clients \in [Clients -> Client] /\ clients[c] \in Client
  BY <1>0 DEF TypeOK
<1> SUFFICES (StandsDown /\ SettingResumes /\ NoLostWakeup)'
  BY <1>0, <1>1 DEF QueueInv
<1>3. ASSUME NEW e \in Episodes, ChooseRelease(c, e) \/ Restart(c, e)
      PROVE  (StandsDown /\ SettingResumes /\ NoLostWakeup)'
  <2>1. ~At(c, "stop") /\ clients'[c].pc \in {"promote", "capture", "wake"}
    BY <1>2, <1>3 DEF ChooseRelease, Restart, Goto, Become, At, Client
  <2>2. StandsDown'
    BY <1>0, <1>3, <2>1, StopsRemain DEF ChooseRelease, Restart, memory
  <2>3. SettingResumes'
    BY <1>0, <2>1, SettingRemains DEF At
  <2> QED
    BY <2>1, <2>2, <2>3 DEF NoLostWakeup, WillWake
<1>4. ASSUME CaptureCurrent(c)
      PROVE  (StandsDown /\ SettingResumes /\ NoLostWakeup)'
  <2>1. ~At(c, "stop") /\ clients'[c].pc \in {"stop", "setting"} /\ clients'[c].resume = TRUE
    BY <1>2, <1>4 DEF CaptureCurrent, Become, At, Idle, Client
  <2>2. StandsDown'
    BY <1>0, <1>4, <2>1, StopsRemain DEF CaptureCurrent, memory
  <2>3. SettingResumes'
    BY <1>0, <2>1, SettingRemains
  <2> QED
    BY <2>1, <2>2, <2>3 DEF NoLostWakeup, WillWake
<1>5. ASSUME StopCurrent(c)
      PROVE  (StandsDown /\ SettingResumes /\ NoLostWakeup)'
  <2>1. /\ clients[c].resume => clients'[c].pc = "setting" /\ clients'[c].resume
        /\ ~clients[c].resume => clients'[c].pc = "idle"
    <3>1. CASE clients[c].resume
      <4>1. clients'[c] = [clients[c] EXCEPT !.pc = "setting", !.seen = FALSE]
        BY <1>2, <1>5, <3>1 DEF StopCurrent, Become
      <4>2. clients'[c].pc = "setting" /\ clients'[c].resume = clients[c].resume
        BY <1>2, <4>1 DEF Client
      <4> QED
        BY <3>1, <4>2
    <3>2. CASE ~clients[c].resume
      BY <1>2, <1>5, <3>2 DEF StopCurrent, Finish, Become, Idle
    <3> QED
      BY <3>1, <3>2
  <2>2. StandsDown'
    <3>1. CASE clients[c].seen
      <4>1. worker'.stopped
        BY <1>0, <1>5, <3>1 DEF StopCurrent, TypeOK, WorkerOK, Worker
      <4> QED
        BY <4>1 DEF StandsDown
    <3>2. CASE ~clients[c].seen
      <4>1. \A d \in Clients : At(d, "stop") /\ clients[d].seen => d # c
        BY <3>2
      <4> QED
        BY <1>0, <1>5, <4>1
        DEF StopCurrent, memory, QueueInv, StandsDown, AboutToStop, Running, At, Apart
    <3> QED
      BY <3>1, <3>2
  <2>3. SettingResumes'
    BY <1>0, <2>1, SettingRemains DEF At
  <2>4. NoLostWakeup'
    <3>1. CASE clients[c].resume
      BY <2>1, <3>1 DEF NoLostWakeup, WillWake
    <3>2. CASE ~clients[c].resume
      <4>1. ~WillWake(c)
        BY <1>5, <3>2 DEF StopCurrent, At, WillWake
      <4> QED
        BY <1>0, <1>5, <4>1, WakesRemain DEF StopCurrent, table, memory, held, Claimable
    <3> QED
      BY <3>1, <3>2
  <2> QED
    BY <2>2, <2>3, <2>4
<1>6. ASSUME ResumeSetting(c)
      PROVE  (StandsDown /\ SettingResumes /\ NoLostWakeup)'
  <2>1. ~At(c, "stop") /\ clients'[c].pc = "setPaused" /\ clients'[c].resume
    BY <1>2, <1>6 DEF ResumeSetting, Goto, Become, At, Client, QueueInv, SettingResumes
  <2>2. StandsDown'
    BY <1>0, <1>6, <2>1, StopsRemain DEF ResumeSetting, memory
  <2>3. SettingResumes'
    BY <1>0, <2>1, SettingRemains
  <2> QED
    BY <2>1, <2>2, <2>3 DEF NoLostWakeup, WillWake
<1>7. ASSUME SetPausedField(c)
      PROVE  (StandsDown /\ SettingResumes /\ NoLostWakeup)'
  <2>1. ~At(c, "stop") /\ clients'[c].pc # "setting"
    BY <1>2, <1>7 DEF SetPausedField, Become, At, Client
  <2>2. StandsDown'
    <3>1. CASE clients[c].resume
      BY <1>0, <1>7, <2>1, <3>1, StopsRemain DEF SetPausedField
    <3>2. CASE ~clients[c].resume /\ Running
      <4>1. clients'[c].pc = "stop" /\ clients'[c].seen
        BY <1>2, <1>7, <3>2 DEF SetPausedField, Become, Client
      <4> QED
        BY <4>1 DEF StandsDown, AboutToStop, At
    <3>3. CASE ~Running
      BY <1>0, <3>3 DEF StandsDown, Running, Apart
    <3> QED
      BY <3>1, <3>2, <3>3
  <2>3. SettingResumes'
    BY <1>0, <2>1, SettingRemains DEF At
  <2>4. NoLostWakeup'
    <3>1. CASE clients[c].resume
      <4>1. clients'[c].pc = "wake"
        BY <1>2, <1>7, <3>1 DEF SetPausedField, Become, Client
      <4> QED
        BY <4>1 DEF NoLostWakeup, WillWake
    <3>2. CASE ~clients[c].resume
      BY <1>7, <3>2 DEF SetPausedField, NoLostWakeup, held
    <3> QED
      BY <3>1, <3>2
  <2> QED
    BY <2>2, <2>3, <2>4
<1>8. ASSUME Wake(c)
      PROVE  (StandsDown /\ SettingResumes /\ NoLostWakeup)'
  <2>1. ~At(c, "stop") /\ clients'[c].pc = "idle"
    BY <1>2, <1>8 DEF Wake, Finish, Become, Idle, At
  <2>2. StandsDown'
    BY <1>0, <1>8, <2>1, StopsRemain DEF Wake
  <2>3. SettingResumes'
    BY <1>0, <2>1, SettingRemains DEF At
  <2> QED
    BY <1>8, <2>2, <2>3 DEF NoLostWakeup, Wake
<1>9. ASSUME CancelCurrent(c) \/ SetUserPaused(c)
      PROVE  (StandsDown /\ SettingResumes /\ NoLostWakeup)'
  <2>1. clients[c].pc \in {"cancelStop", "mark", "unmark"} /\ clients'[c].pc = "idle"
    BY <1>2, <1>9 DEF CancelCurrent, SetUserPaused, Finish, Become, Idle, At
  <2>2. StandsDown'
    BY <1>0, <1>9, <2>1, StopsRemain DEF CancelCurrent, SetUserPaused, memory, At
  <2>3. SettingResumes'
    BY <1>0, <2>1, SettingRemains DEF At
  <2>4. NoLostWakeup'
    BY <1>0, <1>9, <2>1, WakesRemain
    DEF CancelCurrent, SetUserPaused, table, memory, WillWake, held, Claimable
  <2> QED
    BY <2>2, <2>3, <2>4
<1>10. ASSUME RequestFails(c)
       PROVE  (StandsDown /\ SettingResumes /\ NoLostWakeup)'
  <2>1. ~At(c, "stop") /\ clients'[c].pc = "idle"
    BY <1>2, <1>10 DEF RequestFails, Finish, Become, Idle, At
  <2>2. StandsDown'
    BY <1>0, <1>10, <2>1, StopsRemain DEF RequestFails, memory
  <2>3. SettingResumes'
    BY <1>0, <2>1, SettingRemains DEF At
  <2> QED
    BY <1>10, <2>2, <2>3 DEF NoLostWakeup, RequestFails
<1> QED
  BY <1>3, <1>4, <1>5, <1>6, <1>7, <1>8, <1>9, <1>10 DEF Proceed

------------------------------------------------------------------------------
(* The worker.                                                             *)

\* Past the claim there is no row to count, and nothing to stand down.
LEMMA AtRest ==
    ASSUME QueueInv, TypeOK', worker'.pc \notin {"claimed", "running", "landed"},
           \A f \in Episodes : rows'[f].attempts <= rows[f].attempts
    PROVE  (RetriesBounded /\ ClaimCounts /\ StandsDown)'
<1>1. /\ queueRetries \in Nat
      /\ \A e \in Episodes : rows[e].attempts \in Nat /\ rows'[e].attempts \in Nat
  BY BoundsAssumption DEF QueueInv, TypeOK, TableOK, Row
<1>2. RetriesBounded'
  BY <1>1 DEF QueueInv, RetriesBounded
<1> QED
  BY <1>2 DEF ClaimCounts, Claims, StandsDown, Running

\* Whatever a download came to, step leaves its row inactive, touches no other
\* row and grants no try beyond queueRetries.
LEMMA SettledRows ==
    ASSUME QueueInv, worker.pc = "landed"
    PROVE  /\ Settled[worker.ep].state # "active"
           /\ Settled[worker.ep].attempts <= queueRetries
           /\ \A f \in Episodes \ {worker.ep} : Settled[f] = rows[f]
<1> DEFINE e == worker.ep
           r == rows[e]
<1>1. /\ e \in Episodes /\ worker.outcome \in Outcomes /\ worker.stopped \in BOOLEAN
      /\ rows \in [Episodes -> Row] /\ r \in Row
      /\ r.attempts \in Nat /\ worker.attempts \in Nat /\ queueRetries \in Nat
  BY BoundsAssumption DEF QueueInv, TypeOK, TableOK, Row, WorkerOK, Worker
<1>2. r.attempts <= worker.attempts /\ r.attempts <= queueRetries
  BY <1>1 DEF QueueInv, ClaimCounts, RetriesBounded, Claims
<1>3. /\ RequeueActive(e)[e].state # "active" /\ RequeueActive(e)[e].attempts = r.attempts
      /\ \A f \in Episodes \ {e} : RequeueActive(e)[f] = rows[f]
  BY <1>1 DEF RequeueActive, Row
<1>4. /\ FinishQueued(e, FALSE)[e] = NoRow
      /\ \A f \in Episodes \ {e} : FinishQueued(e, FALSE)[f] = rows[f]
  BY <1>1 DEF FinishQueued
<1>5. /\ FinishQueued(e, TRUE)[e].state # "active"
      /\ FinishQueued(e, TRUE)[e].attempts = r.attempts
      /\ \A f \in Episodes \ {e} : FinishQueued(e, TRUE)[f] = rows[f]
  BY <1>1 DEF FinishQueued, Row
<1>6. /\ Defer(e)[e].state # "active"
      /\ Defer(e)[e].attempts \in {r.attempts, r.attempts + 1}
      /\ \A f \in Episodes \ {e} : Defer(e)[f] = rows[f]
  <2>1. LET n == [rows[e] EXCEPT !.state = "pending", !.attempts = @ + 1,
                                 !.waiting = TRUE, !.queuedAt = clock]
        IN  n.state = "pending" /\ n.attempts = r.attempts + 1
    BY <1>1 DEF Row
  <2> QED
    BY <1>1, <2>1 DEF Defer
<1>7. NoRow.state # "active" /\ NoRow.attempts = 0 /\ 0 <= queueRetries
  BY <1>1 DEF NoRow
<1>8. worker.attempts < queueRetries => r.attempts + 1 <= queueRetries
  BY <1>1, <1>2
<1>9. CASE worker.stopped
  BY <1>2, <1>3, <1>9 DEF Settled
<1>10. CASE ~worker.stopped /\ worker.outcome = "paused"
  BY <1>2, <1>3, <1>4, <1>7, <1>10 DEF Settled
<1>11. CASE ~worker.stopped /\ worker.outcome = "swarm"
  <2>1. CASE worker.attempts < queueRetries
    <3>1. Settled = Defer(e)
      BY <1>11, <2>1 DEF Settled
    <3> QED
      BY <1>2, <1>6, <1>8, <2>1, <3>1
  <2>2. CASE ~(worker.attempts < queueRetries)
    <3>1. Settled = FinishQueued(e, TRUE)
      BY <1>11, <2>2 DEF Settled
    <3> QED
      BY <1>2, <1>5, <3>1
  <2> QED
    BY <2>1, <2>2
<1>12. CASE ~worker.stopped /\ worker.outcome = "err"
  <2>1. Settled = FinishQueued(e, TRUE)
    BY <1>12 DEF Settled
  <2> QED
    BY <1>2, <1>5, <2>1
<1>13. CASE ~worker.stopped /\ worker.outcome = "ok"
  <2>1. Settled = FinishQueued(e, FALSE)
    BY <1>13 DEF Settled
  <2> QED
    BY <1>4, <1>7, <2>1
<1> QED
  BY <1>1, <1>9, <1>10, <1>11, <1>12, <1>13 DEF Outcomes

\* The worker's steps keep the invariant.
LEMMA WorkerInductive ==
    ASSUME QueueInv, WorkerStep \/ SettleFails \/ ClaimFails \/ ResetFails
    PROVE  QueueInv'
<1>0. TypeOK /\ TypeOK' /\ worker \in Worker
  BY WorkerStepTypes DEF QueueInv, TypeOK, WorkerOK
<1>1. rows' = rows => \A f \in Episodes : rows'[f].attempts <= rows[f].attempts
  BY <1>0 DEF TypeOK, TableOK, Row
<1>2. clients' = clients => SettingResumes'
  BY DEF QueueInv, SettingResumes, At
<1>3. worker'.pc \notin {"timer", "wait"} => NoLostWakeup'
  BY DEF NoLostWakeup
<1>4. ASSUME Boot \/ ResetFails
      PROVE  QueueInv'
  <2>1. worker'.pc = "restore"
    BY <1>0, <1>4 DEF Boot, ResetFails, Worker
  <2>2. ActiveIsClaimed'
    BY <1>0, <1>4 DEF Boot, ResetFails, ResetActive, ActiveIsClaimed, TypeOK, TableOK, Row
  <2>3. \A f \in Episodes : rows'[f].attempts <= rows[f].attempts
    BY <1>0, <1>1, <1>4, TameStatements DEF Boot, ResetFails, Tamer
  <2>4. (RetriesBounded /\ ClaimCounts /\ StandsDown)'
    BY <1>0, <2>1, <2>3, AtRest
  <2> QED
    BY <1>0, <1>2, <1>3, <1>4, <2>1, <2>2, <2>4 DEF Boot, ResetFails, QueueInv
<1>5. ASSUME ReadSetting \/ RestorePaused \/ CheckHeld
      PROVE  QueueInv'
  <2>1. /\ worker.pc \in {"restore", "restorePaused", "check"}
        /\ worker'.pc \in {"restorePaused", "check", "timer", "claim"}
        /\ worker'.pc = "timer" => held
        /\ rows' = rows /\ stranded' = stranded /\ clients' = clients
    BY <1>0, <1>5 DEF ReadSetting, RestorePaused, CheckHeld, Worker, table
  <2>2. ActiveIsClaimed'
    BY <2>1 DEF QueueInv, ActiveIsClaimed, Claims
  <2>3. (RetriesBounded /\ ClaimCounts /\ StandsDown)'
    BY <1>0, <1>1, <2>1, AtRest
  <2>4. NoLostWakeup'
    BY <1>5, <2>1 DEF ReadSetting, RestorePaused, CheckHeld, memory, held, NoLostWakeup
  <2> QED
    BY <1>0, <1>2, <2>1, <2>2, <2>3, <2>4 DEF QueueInv
<1>6. ASSUME NEW e \in Episodes, NextQueued(e)
      PROVE  QueueInv'
  <2>1. /\ worker.pc = "claim" /\ worker'.pc = "claimed" /\ worker'.ep = e
        /\ worker'.attempts = rows[e].attempts
        /\ stranded' = stranded /\ clients' = clients
    BY <1>6 DEF NextQueued, Rest
  <2>2. /\ \A f \in Episodes \ {e} : rows'[f] = rows[f]
        /\ \A f \in Episodes : rows'[f].attempts = rows[f].attempts
    BY <1>0, <1>6 DEF NextQueued, TypeOK, TableOK, Row
  <2>3. ActiveIsClaimed'
    BY <2>1, <2>2 DEF QueueInv, ActiveIsClaimed, Claims
  <2>4. RetriesBounded'
    BY <2>2 DEF QueueInv, RetriesBounded
  <2>5. ClaimCounts'
    <3>1. rows[e].attempts <= rows[e].attempts
      BY <1>0 DEF TypeOK, TableOK, Row
    <3> QED
      BY <2>1, <2>2, <3>1 DEF QueueInv, RetriesBounded, ClaimCounts, Claims
  <2>6. StandsDown'
    BY <2>1 DEF StandsDown, Running
  <2> QED
    BY <1>0, <1>2, <1>3, <2>1, <2>3, <2>4, <2>5, <2>6 DEF QueueInv
<1>7. ASSUME NothingQueued \/ ClaimFails
      PROVE  QueueInv'
  <2>1. /\ worker.pc = "claim" /\ worker'.pc = "timer"
        /\ rows' = rows /\ stranded' = stranded /\ clients' = clients
    BY <1>7 DEF NothingQueued, ClaimFails, Rest, table
  <2>2. ActiveIsClaimed'
    BY <2>1 DEF QueueInv, ActiveIsClaimed, Claims
  <2>3. (RetriesBounded /\ ClaimCounts /\ StandsDown)'
    BY <1>0, <1>1, <2>1, AtRest
  <2>4. NoLostWakeup'
    BY <1>7, <2>1 DEF NothingQueued, ClaimFails, NoLostWakeup, Claimable
  <2> QED
    BY <1>0, <1>2, <2>1, <2>2, <2>3, <2>4 DEF QueueInv
<1>8. ASSUME StartFlight \/ \E o \in Outcomes : Land(o)
      PROVE  QueueInv'
  <2>1. /\ worker.pc \in {"claimed", "running"} /\ worker'.pc \in {"running", "landed"}
        /\ worker'.ep = worker.ep /\ worker'.attempts = worker.attempts
        /\ worker'.pc = "running" => worker'.stopped = held
        /\ rows' = rows /\ stranded' = stranded /\ clients' = clients
        /\ paused' = paused /\ watching' = watching
    BY <1>0, <1>8 DEF StartFlight, Land, Running, Worker, table, memory
  <2>2. ActiveIsClaimed'
    BY <2>1 DEF QueueInv, ActiveIsClaimed, Claims
  <2>3. RetriesBounded' /\ ClaimCounts'
    BY <2>1 DEF QueueInv, RetriesBounded, ClaimCounts, Claims
  <2>4. StandsDown'
    BY <2>1 DEF StandsDown, Running, held
  <2> QED
    BY <1>0, <1>2, <1>3, <2>1, <2>2, <2>3, <2>4 DEF QueueInv
<1>9. ASSUME Settle \/ SettleFails
      PROVE  QueueInv'
  <2>1. /\ worker.pc = "landed" /\ worker.ep \in Episodes /\ worker'.pc = "check"
        /\ \A c \in Clients : clients'[c].pc = clients[c].pc
                              /\ clients'[c].resume = clients[c].resume
    BY <1>0, <1>9 DEF Settle, SettleFails, EndStep, Rest, TypeOK, WorkerOK, Client
  <2>2. ActiveIsClaimed'
    <3>1. CASE Settle
      BY <2>1, <3>1, SettledRows DEF Settle, QueueInv, ActiveIsClaimed, Claims
    <3>2. CASE SettleFails
      BY <2>1, <3>2 DEF SettleFails, QueueInv, ActiveIsClaimed, Claims
    <3> QED
      BY <1>9, <3>1, <3>2
  <2>3. RetriesBounded'
    BY <1>9, <2>1, SettledRows DEF Settle, SettleFails, QueueInv, RetriesBounded
  <2>4. ClaimCounts' /\ StandsDown'
    BY <2>1 DEF ClaimCounts, Claims, StandsDown, Running
  <2>5. SettingResumes'
    BY <2>1 DEF QueueInv, SettingResumes, At
  <2> QED
    BY <1>0, <1>3, <2>1, <2>2, <2>3, <2>4, <2>5 DEF QueueInv
<1>10. ASSUME SetTimer \/ Woken \/ IdleOver
       PROVE  QueueInv'
  <2>1. /\ worker.pc \in {"timer", "wait"} /\ worker'.pc \in {"wait", "check"}
        /\ worker'.pc = "wait" => SetTimer
        /\ rows' = rows /\ stranded' = stranded /\ clients' = clients
    BY <1>10 DEF SetTimer, Woken, IdleOver, Rest, table
  <2>2. ActiveIsClaimed'
    BY <2>1 DEF QueueInv, ActiveIsClaimed, Claims
  <2>3. (RetriesBounded /\ ClaimCounts /\ StandsDown)'
    BY <1>0, <1>1, <2>1, AtRest
  <2>4. NoLostWakeup'
    <3>1. CASE SetTimer
      BY <2>1, <3>1 DEF SetTimer, memory, QueueInv, NoLostWakeup, Claimable, held, WillWake
    <3>2. CASE ~SetTimer
      BY <1>3, <2>1, <3>2
    <3> QED
      BY <3>1, <3>2
  <2> QED
    BY <1>0, <1>2, <2>1, <2>2, <2>3, <2>4 DEF QueueInv
<1> QED
  BY <1>4, <1>5, <1>6, <1>7, <1>8, <1>9, <1>10 DEF WorkerStep

------------------------------------------------------------------------------
(* The surroundings, and the invariant.                                    *)

\* Time, the engine and a crash keep the invariant.
LEMMA SurroundingsInductive ==
    ASSUME QueueInv, Tick \/ OtherPause \/ Crash \/ \E e \in Episodes : RetryDue(e)
    PROVE  QueueInv'
<1>0. TypeOK /\ TypeOK' /\ worker \in Worker
  BY SurroundingsTypes DEF QueueInv, TypeOK, WorkerOK
<1>1. ASSUME Tick \/ OtherPause
      PROVE  QueueInv'
  <2>1. /\ worker'.pc = worker.pc /\ worker'.ep = worker.ep
        /\ worker'.attempts = worker.attempts /\ worker'.stopped = worker.stopped
        /\ rows' = rows /\ stranded' = stranded /\ clients' = clients
        /\ paused' = paused /\ watching' = watching /\ wake' = wake /\ unseen' = unseen
    BY <1>0, <1>1 DEF Tick, OtherPause, table, memory, Worker
  <2>2. (ActiveIsClaimed /\ RetriesBounded /\ ClaimCounts)'
    BY <2>1 DEF QueueInv, ActiveIsClaimed, RetriesBounded, ClaimCounts, Claims
  <2>3. (StandsDown /\ SettingResumes)'
    BY <2>1 DEF QueueInv, StandsDown, SettingResumes, AboutToStop, Running, At
  <2>4. NoLostWakeup'
    BY <2>1 DEF QueueInv, NoLostWakeup, Claimable, held, WillWake
  <2> QED
    BY <1>0, <2>2, <2>3, <2>4 DEF QueueInv
<1>2. ASSUME Crash
      PROVE  QueueInv'
  <2>1. worker'.pc = "boot" /\ rows' = rows
    BY <1>2 DEF Crash, Rest, table
  <2>2. \A f \in Episodes : rows'[f].attempts <= rows[f].attempts
    BY <1>0, <2>1 DEF TypeOK, TableOK, Row
  <2>3. (RetriesBounded /\ ClaimCounts /\ StandsDown)'
    BY <1>0, <2>1, <2>2, AtRest
  <2>4. SettingResumes'
    BY <1>2 DEF Crash, SettingResumes, At, Idle
  <2> QED
    BY <1>0, <2>1, <2>3, <2>4 DEF QueueInv, ActiveIsClaimed, NoLostWakeup
<1>3. ASSUME NEW e \in Episodes, RetryDue(e)
      PROVE  QueueInv'
  <2>1. /\ \A f \in Episodes : /\ rows'[f].state = rows[f].state
                               /\ rows'[f].attempts = rows[f].attempts
        /\ worker' = worker /\ stranded' = stranded /\ clients' = clients
        /\ paused' = paused /\ watching' = watching
    BY <1>0, <1>3 DEF RetryDue, memory, TypeOK, TableOK, Row
  <2>2. (ActiveIsClaimed /\ RetriesBounded /\ ClaimCounts)'
    BY <2>1 DEF QueueInv, ActiveIsClaimed, RetriesBounded, ClaimCounts, Claims
  <2>3. (StandsDown /\ SettingResumes)'
    BY <2>1 DEF QueueInv, StandsDown, SettingResumes, AboutToStop, Running, At
  <2> QED
    BY <1>0, <1>3, <2>2, <2>3 DEF QueueInv, NoLostWakeup, RetryDue
<1> QED
  BY <1>1, <1>2, <1>3

\* Every step of the queue keeps its invariant, and it holds at the start.
THEOREM QueueInvariance == Spec => []QueueInv
<1>1. ASSUME Init
      PROVE  QueueInv
  <2>1. worker.pc = "boot" /\ \A e \in Episodes : rows[e].attempts = 0
    BY <1>1 DEF Init, Rest, NoRow
  <2>2. RetriesBounded
    BY <2>1, BoundsAssumption DEF RetriesBounded
  <2>3. ActiveIsClaimed /\ ClaimCounts /\ StandsDown /\ NoLostWakeup
    BY <2>1 DEF ActiveIsClaimed, ClaimCounts, Claims, StandsDown, Running, NoLostWakeup
  <2>4. SettingResumes
    BY <1>1 DEF Init, SettingResumes, At, Idle
  <2> QED
    BY <1>1, <2>2, <2>3, <2>4, TypeInitially DEF QueueInv
<1>2. QueueInv /\ [Next]_vars => QueueInv'
  <2> SUFFICES ASSUME QueueInv, [Next]_vars
               PROVE  QueueInv'
    OBVIOUS
  <2>1. CASE Next
    BY <2>1, RequestInductive, ProceedInductive, WorkerInductive, SurroundingsInductive
    DEF Next, Environment
  <2>2. CASE UNCHANGED vars
    <3>1. TypeOK'
      BY <2>2, TypeInductive DEF QueueInv
    <3>2. (ActiveIsClaimed /\ RetriesBounded /\ ClaimCounts)'
      BY <2>2 DEF vars, QueueInv, ActiveIsClaimed, RetriesBounded, ClaimCounts, Claims
    <3>3. (StandsDown /\ SettingResumes /\ NoLostWakeup)'
      BY <2>2 DEF vars, QueueInv, StandsDown, SettingResumes, AboutToStop, Running, At,
                  NoLostWakeup, Claimable, held, WillWake
    <3> QED
      BY <3>1, <3>2, <3>3 DEF QueueInv
  <2> QED
    BY <2>1, <2>2
<1> QED
  BY <1>1, <1>2, PTL DEF Spec

\* NextQueued, ResetActive and the writes at the end of step: whatever the
\* requests, failures and crashes, an active row is the worker's, awaits the
\* reset of a start, or is one whose settling write failed.
THEOREM NoOrphanedRow == Spec => []ActiveIsClaimed
<1>1. QueueInv => ActiveIsClaimed
  BY DEF QueueInv
<1> QED
  BY <1>1, QueueInvariance, PTL

\* step and Defer: no row is ever given more than queueRetries tries, though
\* the count step compares is the one it read at its claim.
THEOREM RetriesAreBounded == Spec => []RetriesBounded
<1>1. QueueInv => RetriesBounded
  BY DEF QueueInv
<1> QED
  BY <1>1, QueueInvariance, PTL

\* SetPaused and step: wherever in step a pause lands, the download it should
\* hold is stopped or has a request about to stop it.
THEOREM QueueStandsDown == Spec => []PausedStaysDown
<1>1. QueueInv => PausedStaysDown
  BY DEF QueueInv, StandsDown, PausedStaysDown
<1> QED
  BY <1>1, QueueInvariance, PTL

\* Hold and step: wherever in step a stream opens, the other show's download is
\* stopped or has a request about to stop it.
THEOREM WatchedComesFirst == Spec => []WatchedFirst
<1>1. QueueInv => WatchedFirst
  BY DEF QueueInv, StandsDown, WatchedFirst
<1> QED
  BY <1>1, QueueInvariance, PTL

\* Wake and Run: for any number of requests, one slot in d.wake is enough for
\* the worker never to sleep over a row a request put in its way.
THEOREM WakeupsArrive == Spec => []NoLostWakeup
<1>1. QueueInv => NoLostWakeup
  BY DEF QueueInv
<1> QED
  BY <1>1, QueueInvariance, PTL

------------------------------------------------------------------------------
(* The front of the line.                                                  *)

\* Nothing queued carries a time to come, and the row last moved to the front
\* has been there since: still queued, and earlier than every other row.
NoneAhead == \A e \in Episodes : rows[e].state # "none" => rows[e].queuedAt <= clock

FrontLeads ==
    front # NoEpisode =>
        /\ rows[front].state # "none" /\ rows[front].queuedAt < clock
        /\ \A f \in Queued \ {front} : rows[front].queuedAt < rows[f].queuedAt

FrontInv == TypeOK /\ NoneAhead /\ FrontLeads

\* A row keeps its place or goes to the back, and the front row keeps its own
\* as long as it is remembered as the front.
InPlace(f) == rows[f].state # "none" /\ rows'[f].queuedAt = rows[f].queuedAt

KeepsOrder ==
    /\ clock' >= clock
    /\ \A f \in Episodes : rows'[f].state # "none" => InPlace(f) \/ rows'[f].queuedAt = clock
    /\ front' # NoEpisode => front' = front /\ rows'[front].state # "none" /\ InPlace(front)

LEMMA OrderKept ==
    ASSUME FrontInv, TypeOK', KeepsOrder
    PROVE  FrontInv'
<1>1. /\ clock \in Int /\ clock' \in Int /\ front' \in Episodes \cup {NoEpisode}
      /\ \A f \in Episodes : rows[f].queuedAt \in Int /\ rows'[f].queuedAt \in Int
  BY DEF FrontInv, TypeOK, TableOK, Row
<1>2. NoneAhead'
  BY <1>1 DEF FrontInv, NoneAhead, KeepsOrder, InPlace
<1>3. ASSUME front' # NoEpisode
      PROVE  /\ rows'[front'].state # "none" /\ rows'[front'].queuedAt < clock'
             /\ \A f \in Queued' \ {front'} : rows'[front'].queuedAt < rows'[f].queuedAt
  <2>1. /\ front' = front /\ front \in Episodes /\ front # NoEpisode
        /\ rows'[front].state # "none" /\ rows'[front].queuedAt = rows[front].queuedAt
    BY <1>1, <1>3 DEF KeepsOrder, InPlace
  <2>2. /\ rows[front].queuedAt < clock
        /\ \A f \in Queued \ {front} : rows[front].queuedAt < rows[f].queuedAt
    BY <2>1 DEF FrontInv, FrontLeads
  <2>3. ASSUME NEW f \in Queued' \ {front}
        PROVE  rows[front].queuedAt < rows'[f].queuedAt
    <3>1. f \in Episodes /\ rows'[f].state # "none"
      BY <2>3 DEF Queued
    <3>2. CASE InPlace(f)
      BY <2>2, <3>1, <3>2 DEF InPlace, Queued
    <3>3. CASE rows'[f].queuedAt = clock
      BY <2>2, <3>3
    <3> QED
      BY <3>1, <3>2, <3>3 DEF KeepsOrder
  <2>4. rows[front].queuedAt < clock'
    BY <1>1, <2>1, <2>2 DEF KeepsOrder
  <2> QED
    BY <2>1, <2>3, <2>4
<1> QED
  BY <1>2, <1>3 DEF FrontInv, FrontLeads

\* promote: one less than the oldest is before every other row.
LEMMA PromotedLeads ==
    ASSUME FrontInv, TypeOK', NEW e \in Episodes, rows[e].state # "none",
           promote(e), front' = e, clock' = clock
    PROVE  FrontInv'
<1>1. PICK oldest \in Oldest : rows' = Promoted(e, oldest)
  BY DEF promote
<1>2. /\ clock \in Int /\ \A f \in Episodes : rows[f].queuedAt \in Int
      /\ rows \in [Episodes -> Row]
  BY DEF FrontInv, TypeOK, TableOK, Row
<1>3. PICK m \in Queued : oldest = rows[m].queuedAt /\ \A g \in Queued : oldest <= rows[g].queuedAt
  BY <1>1 DEF Oldest
<1>4. oldest \in Int /\ oldest <= clock
  BY <1>2, <1>3 DEF Queued, FrontInv, NoneAhead
<1>5. /\ rows'[e].queuedAt = oldest - 1 /\ rows'[e].state = rows[e].state
      /\ \A f \in Episodes \ {e} : rows'[f] = rows[f]
  BY <1>1, <1>2 DEF Promoted, Row
<1>6. NoneAhead'
  <2>1. rows'[e].queuedAt <= clock
    BY <1>2, <1>4, <1>5
  <2> QED
    BY <1>5, <2>1 DEF FrontInv, NoneAhead
<1>7. FrontLeads'
  <2>1. rows'[e].queuedAt < clock
    BY <1>2, <1>4, <1>5
  <2>2. ASSUME NEW f \in Queued' \ {e}
        PROVE  rows'[e].queuedAt < rows'[f].queuedAt
    <3>1. f \in Queued /\ rows'[f] = rows[f] /\ f \in Episodes
      BY <1>5 DEF Queued
    <3>2. oldest <= rows[f].queuedAt
      BY <1>3, <3>1
    <3> QED
      BY <1>2, <1>4, <1>5, <3>1, <3>2
  <2> QED
    BY <1>5, <2>1, <2>2 DEF FrontLeads
<1> QED
  BY <1>6, <1>7 DEF FrontInv

\* In the table R every row of Episodes \ E is where it was, and any other row
\* is where it was or at the back.
KeepsPlaces(R, E) ==
    \A f \in Episodes :
        /\ R[f].state # "none" => \/ rows[f].state # "none" /\ R[f].queuedAt = rows[f].queuedAt
                                  \/ R[f].queuedAt = clock
        /\ f \notin E /\ rows[f].state # "none" =>
              R[f].state # "none" /\ R[f].queuedAt = rows[f].queuedAt

\* The statements that move no row to the front.
LEMMA PlacesKept ==
    ASSUME rows \in [Episodes -> Row], clock \in Nat
    PROVE  /\ \A E \in SUBSET Episodes : KeepsPlaces(Enqueue(E), {}) /\ KeepsPlaces(Dequeue(E), E)
           /\ \A e \in Episodes, r \in Releases \cup {NoRelease} :
                 KeepsPlaces(SetQueuedRelease(e, r), {})
           /\ KeepsPlaces(ResetActive, {}) /\ KeepsPlaces(rows, {})
           /\ \A e \in Episodes : KeepsPlaces([rows EXCEPT ![e].waiting = FALSE], {})
           /\ \A e \in Claimable : KeepsPlaces([rows EXCEPT ![e].state = "active"], {})
<1>. USE DEF KeepsPlaces, Row
<1>1. \A E \in SUBSET Episodes : KeepsPlaces(Enqueue(E), {})
  BY DEF Enqueue, NoRow
<1>2. \A E \in SUBSET Episodes : KeepsPlaces(Dequeue(E), E)
  BY DEF Dequeue, NoRow
<1>3. \A e \in Episodes, r \in Releases \cup {NoRelease} : KeepsPlaces(SetQueuedRelease(e, r), {})
  BY DEF SetQueuedRelease
<1>4. KeepsPlaces(ResetActive, {}) /\ KeepsPlaces(rows, {})
  BY DEF ResetActive
<1>5. \A e \in Episodes : KeepsPlaces([rows EXCEPT ![e].waiting = FALSE], {})
  OBVIOUS
<1>6. \A e \in Claimable : KeepsPlaces([rows EXCEPT ![e].state = "active"], {})
  BY DEF Claimable
<1> QED
  BY <1>1, <1>2, <1>3, <1>4, <1>5, <1>6

\* The write that ends step moves no other row, and its own keeps its place
\* unless it is gone or deferred.
LEMMA SettledPlaces ==
    ASSUME TypeOK, worker.pc = "landed"
    PROVE  /\ KeepsPlaces(Settled, {worker.ep})
           /\ ~LosesPlace => KeepsPlaces(Settled, {})
<1> DEFINE e == worker.ep
<1>1. rows \in [Episodes -> Row] /\ clock \in Nat /\ e \in Episodes
  BY DEF TypeOK, TableOK, WorkerOK
<1>2. KeepsPlaces(RequeueActive(e), {})
  BY <1>1 DEF RequeueActive, KeepsPlaces, Row
<1>3. KeepsPlaces(FinishQueued(e, TRUE), {})
  BY <1>1 DEF FinishQueued, KeepsPlaces, Row
<1>4. KeepsPlaces(FinishQueued(e, FALSE), {e}) /\ FinishQueued(e, FALSE)[e].state = "none"
  BY <1>1 DEF FinishQueued, KeepsPlaces, Row, NoRow
<1>5. KeepsPlaces(Defer(e), {e}) /\ (Defer(e)[e].waiting \/ KeepsPlaces(Defer(e), {}))
  BY <1>1 DEF Defer, KeepsPlaces, Row
<1>6. \/ Settled = RequeueActive(e) \/ Settled = FinishQueued(e, TRUE)
      \/ Settled = FinishQueued(e, FALSE) \/ Settled = Defer(e)
  BY DEF Settled, TypeOK, WorkerOK, Worker, Outcomes
<1>7. \A R : KeepsPlaces(R, {}) => KeepsPlaces(R, {e})
  BY DEF KeepsPlaces
<1> QED
  BY <1>2, <1>3, <1>4, <1>5, <1>6, <1>7 DEF LosesPlace

\* Such a statement keeps the order, the front forgotten if it may have moved.
LEMMA PlacesOrder ==
    ASSUME FrontInv, NEW E, KeepsPlaces(rows', E), clock' = clock,
           front' = IF front \in E THEN NoEpisode ELSE front
    PROVE  KeepsOrder
<1>1. clock \in Int /\ front \in Episodes \cup {NoEpisode}
  BY DEF FrontInv, TypeOK, TableOK
<1>2. front # NoEpisode => rows[front].state # "none"
  BY DEF FrontInv, FrontLeads
<1> QED
  BY <1>1, <1>2 DEF KeepsOrder, KeepsPlaces, InPlace

LEMMA OrderInductive ==
    ASSUME FrontInv, TypeOK', Next
    PROVE  FrontInv'
<1>0. rows \in [Episodes -> Row] /\ clock \in Nat /\ front \in Episodes \cup {NoEpisode}
  BY DEF FrontInv, TypeOK, TableOK
<1>1. ASSUME (\E E \in SUBSET Episodes : rows' = Enqueue(E)) \/ rows' = ResetActive \/ rows' = rows
             \/ (\E e \in Episodes, r \in Releases \cup {NoRelease} : rows' = SetQueuedRelease(e, r))
             \/ (\E e \in Episodes : rows' = [rows EXCEPT ![e].waiting = FALSE])
             \/ (\E e \in Claimable : rows' = [rows EXCEPT ![e].state = "active"]),
             clock' = clock, front' = front
      PROVE  FrontInv'
  <2>1. KeepsPlaces(rows', {})
    BY <1>0, <1>1, PlacesKept
  <2> QED
    BY <1>1, <2>1, PlacesOrder, OrderKept
<1>2. ASSUME NEW c \in Clients, Request(c)
      PROVE  FrontInv'
  <2>1. ASSUME NEW E \in Selections, Download(c, E)
        PROVE  FrontInv'
    BY <1>1, <2>1, SelectionTypes DEF Download
  <2>2. ASSUME NEW E \in Selections, Cancel(c, E)
        PROVE  FrontInv'
    <3>1. KeepsPlaces(rows', E)
      BY <1>0, <2>2, PlacesKept, SelectionTypes DEF Cancel
    <3> QED
      BY <2>2, <3>1, PlacesOrder, OrderKept DEF Cancel
  <2>3. ASSUME NEW e \in Episodes, NEW r \in Releases, DownloadRelease(c, e, r)
        PROVE  FrontInv'
    BY <1>1, <2>3 DEF DownloadRelease
  <2>4. ASSUME NEW e \in Episodes, Now(c, e)
        PROVE  FrontInv'
    BY <2>4, PromotedLeads DEF Now
  <2>5. ASSUME \/ \E e \in Episodes : Hold(c, e) \/ Release(c, e)
               \/ \E p \in BOOLEAN : SetPaused(c, p)
               \/ \E e \in Episodes, run \in BOOLEAN : SetDownloadRunning(c, e, run)
        PROVE  FrontInv'
    <3>1. ASSUME NEW e \in Episodes, Hold(c, e) \/ Release(c, e)
          PROVE  rows' = rows /\ clock' = clock /\ front' = front
      BY <3>1 DEF Hold, Release, table
    <3>2. ASSUME NEW p \in BOOLEAN, SetPaused(c, p)
          PROVE  rows' = rows /\ clock' = clock /\ front' = front
      BY <3>2 DEF SetPaused, table
    <3>3. ASSUME NEW e \in Episodes, NEW run \in BOOLEAN, SetDownloadRunning(c, e, run)
          PROVE  rows' = rows /\ clock' = clock /\ front' = front
      BY <3>3 DEF SetDownloadRunning, table
    <3> QED
      BY <1>1, <2>5, <3>1, <3>2, <3>3
  <2> QED
    BY <1>2, <2>1, <2>2, <2>3, <2>4, <2>5 DEF Request
<1>3. ASSUME NEW c \in Clients, Proceed(c)
      PROVE  FrontInv'
  <2>1. ASSUME NEW e \in Episodes, ChooseRelease(c, e)
        PROVE  FrontInv'
    <3>1. clients[c].pick \in Releases \cup {NoRelease}
      BY DEF FrontInv, TypeOK, Client
    <3> QED
      BY <1>1, <2>1, <3>1 DEF ChooseRelease
  <2>2. ASSUME NEW e \in Episodes, Restart(c, e)
        PROVE  FrontInv'
    <3>1. CASE rows[e].state \in {"pending", "active"}
      BY <2>2, <3>1, PromotedLeads DEF Restart
    <3>2. CASE rows[e].state \notin {"pending", "active"}
      BY <1>1, <2>2, <3>2 DEF Restart
    <3> QED
      BY <3>1, <3>2
  <2>3. ASSUME \/ CaptureCurrent(c) \/ StopCurrent(c) \/ ResumeSetting(c) \/ SetPausedField(c)
               \/ Wake(c) \/ CancelCurrent(c) \/ SetUserPaused(c)
        PROVE  FrontInv'
    <3>1. rows' = rows /\ clock' = clock /\ front' = front
      BY <2>3 DEF CaptureCurrent, StopCurrent, ResumeSetting, SetPausedField, Wake, CancelCurrent,
                  SetUserPaused, table
    <3> QED
      BY <1>1, <3>1
  <2> QED
    BY <1>3, <2>1, <2>2, <2>3 DEF Proceed
<1>4. ASSUME WorkerStep
      PROVE  FrontInv'
  <2>1. ASSUME NEW e \in Episodes, NextQueued(e)
        PROVE  FrontInv'
    BY <1>1, <2>1 DEF NextQueued
  <2>2. CASE Boot
    BY <1>1, <2>2 DEF Boot
  <2>3. CASE Settle
    <3>1. CASE front = worker.ep /\ LosesPlace
      BY <2>3, <3>1, SettledPlaces, PlacesOrder, OrderKept DEF Settle, FrontInv
    <3>2. CASE front # worker.ep
      BY <2>3, <3>2, SettledPlaces, PlacesOrder, OrderKept DEF Settle, FrontInv
    <3>3. CASE front = worker.ep /\ ~LosesPlace
      BY <2>3, <3>3, SettledPlaces, PlacesOrder, OrderKept DEF Settle, FrontInv
    <3> QED
      BY <3>1, <3>2, <3>3
  <2>4. CASE \/ ReadSetting \/ RestorePaused \/ CheckHeld \/ NothingQueued \/ StartFlight
             \/ (\E o \in Outcomes : Land(o)) \/ SetTimer \/ Woken \/ IdleOver
    <3>1. ASSUME ReadSetting \/ RestorePaused \/ CheckHeld \/ NothingQueued \/ StartFlight
          PROVE  rows' = rows /\ clock' = clock /\ front' = front
      BY <3>1 DEF ReadSetting, RestorePaused, CheckHeld, NothingQueued, StartFlight, table
    <3>2. ASSUME NEW o \in Outcomes, Land(o)
          PROVE  rows' = rows /\ clock' = clock /\ front' = front
      BY <3>2 DEF Land, table
    <3>3. ASSUME SetTimer \/ Woken \/ IdleOver
          PROVE  rows' = rows /\ clock' = clock /\ front' = front
      BY <3>3 DEF SetTimer, Woken, IdleOver, table
    <3> QED
      BY <1>1, <2>4, <3>1, <3>2, <3>3
  <2> QED
    BY <1>4, <2>1, <2>2, <2>3, <2>4 DEF WorkerStep
<1>5. ASSUME NEW e \in Episodes, RetryDue(e)
      PROVE  FrontInv'
  BY <1>1, <1>5 DEF RetryDue
<1>6. CASE Tick
  <2>1. clock' >= clock /\ rows' = rows /\ front' = front
    BY <1>0, <1>6 DEF Tick
  <2>2. KeepsOrder
    BY <2>1 DEF KeepsOrder, InPlace, FrontInv, FrontLeads
  <2> QED
    BY <2>2, OrderKept
<1>7. CASE \/ (\E c \in Clients : RequestFails(c)) \/ SettleFails \/ ClaimFails \/ ResetFails
           \/ OtherPause \/ Crash
  <2>1. rows' = rows /\ clock' = clock /\ front' = front
    BY <1>7 DEF RequestFails, SettleFails, ClaimFails, ResetFails, OtherPause, Crash, table
  <2> QED
    BY <1>1, <2>1
<1> QED
  BY <1>2, <1>3, <1>4, <1>5, <1>6, <1>7 DEF Next, Environment

\* promote, Enqueue, Defer and the rest of store/queue.go: the order of the
\* line holds from the first start on.
THEOREM OrderInvariance == Spec => []FrontInv
<1>1. ASSUME Init
      PROVE  FrontInv
  <2>1. \A e \in Episodes : rows[e].state = "none"
    BY <1>1 DEF Init, NoRow
  <2>2. front = NoEpisode
    BY <1>1 DEF Init
  <2> QED
    BY <1>1, <2>1, <2>2, TypeInitially DEF FrontInv, NoneAhead, FrontLeads
<1>2. FrontInv /\ [Next]_vars => FrontInv'
  <2> SUFFICES ASSUME FrontInv, [Next]_vars
               PROVE  FrontInv'
    OBVIOUS
  <2>1. TypeOK'
    BY TypeInductive DEF FrontInv
  <2>2. CASE Next
    BY <2>1, <2>2, OrderInductive
  <2>3. CASE UNCHANGED vars
    BY <2>1, <2>3 DEF vars, FrontInv, NoneAhead, FrontLeads, Queued
  <2> QED
    BY <2>2, <2>3
<1> QED
  BY <1>1, <1>2, PTL DEF Spec

\* Prioritise, Promote and NextQueued: for any requests, deferrals, clocks and
\* crashes, the row last moved to the front is the next one claimed.
THEOREM PromotedComesFirst == Spec => PromotedFirst
<1>1. ASSUME FrontInv, [Next]_vars, worker.pc = "claim", worker'.pc = "claimed", front \in Claimable
      PROVE  worker'.ep = front
  <2>0. worker \in Worker
    BY <1>1 DEF FrontInv, TypeOK, WorkerOK
  <2>1. PICK e \in Episodes : NextQueued(e)
    <3>1. CASE UNCHANGED vars
      BY <1>1, <3>1 DEF vars
    <3>2. CASE WorkerStep
      BY <1>1, <3>2 DEF WorkerStep, Boot, ReadSetting, RestorePaused, CheckHeld, NothingQueued,
                        StartFlight, Land, Settle, EndStep, SetTimer, Woken, IdleOver, Running, Rest
    <3>3. ASSUME NEW c \in Clients, Proceed(c)
          PROVE  worker'.pc = worker.pc
      <4>1. ASSUME NEW e \in Episodes, ChooseRelease(c, e) \/ Restart(c, e)
            PROVE  worker'.pc = worker.pc
        BY <4>1 DEF ChooseRelease, Restart
      <4>2. CASE CaptureCurrent(c) \/ ResumeSetting(c) \/ SetPausedField(c) \/ Wake(c) \/ SetUserPaused(c)
        BY <4>2 DEF CaptureCurrent, ResumeSetting, SetPausedField, Wake, SetUserPaused
      <4>3. CASE StopCurrent(c) \/ CancelCurrent(c)
        BY <2>0, <4>3 DEF StopCurrent, CancelCurrent, Worker
      <4> QED
        BY <3>3, <4>1, <4>2, <4>3 DEF Proceed
    <3>4. ASSUME NEW c \in Clients, Request(c)
          PROVE  worker'.pc = worker.pc
      <4>1. ASSUME NEW E \in Selections, Download(c, E) \/ Cancel(c, E)
            PROVE  worker'.pc = worker.pc
        BY <4>1 DEF Download, Cancel
      <4>2. ASSUME NEW e \in Episodes, NEW r \in Releases, DownloadRelease(c, e, r)
            PROVE  worker'.pc = worker.pc
        BY <4>2 DEF DownloadRelease
      <4>3. ASSUME NEW e \in Episodes, Now(c, e) \/ Hold(c, e) \/ Release(c, e)
            PROVE  worker'.pc = worker.pc
        BY <4>3 DEF Now, Hold, Release
      <4>4. ASSUME NEW p \in BOOLEAN, SetPaused(c, p)
            PROVE  worker'.pc = worker.pc
        BY <4>4 DEF SetPaused
      <4>5. ASSUME NEW e \in Episodes, NEW run \in BOOLEAN, SetDownloadRunning(c, e, run)
            PROVE  worker'.pc = worker.pc
        BY <2>0, <4>5 DEF SetDownloadRunning, Worker
      <4> QED
        BY <3>4, <4>1, <4>2, <4>3, <4>4, <4>5 DEF Request
    <3>5. ASSUME \/ \E c \in Clients : RequestFails(c)
                 \/ \E f \in Episodes : RetryDue(f)
                 \/ Tick \/ OtherPause
          PROVE  worker'.pc = worker.pc
      BY <2>0, <3>5 DEF RequestFails, RetryDue, Tick, OtherPause, Worker
    <3>6. ASSUME SettleFails \/ ClaimFails \/ ResetFails \/ Crash
          PROVE  worker'.pc # "claimed"
      BY <2>0, <3>6 DEF SettleFails, ClaimFails, ResetFails, Crash, EndStep, Rest, Worker
    <3> QED
      BY <1>1, <3>1, <3>2, <3>3, <3>4, <3>5, <3>6 DEF Next, Environment
  <2>2. e \in Claimable /\ Before(e, front) /\ worker'.ep = e
    BY <1>1, <2>1 DEF NextQueued, Rest
  <2>3. front \in Episodes /\ front # NoEpisode /\ rows[e].state # "none"
    BY <1>1, <2>2, NoEpisodeAssumption DEF Claimable
  <2>4. e # front => rows[front].queuedAt < rows[e].queuedAt
    BY <2>2, <2>3, <1>1 DEF FrontInv, FrontLeads, Queued
  <2>5. rows[e].queuedAt \in Int /\ rows[front].queuedAt \in Int
    BY <1>1, <2>3 DEF FrontInv, TypeOK, TableOK, Row
  <2> QED
    BY <2>2, <2>4, <2>5 DEF Before
<1>2. FrontInv /\ [Next]_vars =>
        [worker.pc = "claim" /\ worker'.pc = "claimed" /\ front \in Claimable
         => worker'.ep = front]_vars
  BY <1>1
<1> QED
  BY <1>2, OrderInvariance, PTL DEF Spec, PromotedFirst
==============================================================================
