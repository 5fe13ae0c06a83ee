-------------------------------- MODULE Access --------------------------------
(* Who gets in from the network (internal/server/access.go, approval.go, store/access.go,
   cmd/kuro/main.go binder): the listener the host opens and closes, the token a paired
   device presents and a rotation voids, and the host's say over each device, answered
   from memory and kept in the database across restarts. *)
EXTENDS Integers, FiniteSets

CONSTANTS Devices,     \* phones and TVs, one address each
          DeviceIDs,   \* identities (hashes of device cookies), in the order they are given
          MaxPending,  \* maxPending
          HostTabs,    \* pages on the host with Settings open
          MaxTokens, MaxAccFaults, MaxAccOps   \* bounds

Modes == {"off", "once", "always"}
NoID == 0
ASSUME DevicesAssumption == NoID \notin Devices /\ NoID \notin DeviceIDs /\ IsFiniteSet(DeviceIDs)
ASSUME PendingAssumption == MaxPending \in Nat

VARIABLES table,    \* access_device: status and address by identity
          memory,   \* approvals: loaded, mode, status, and who was seen within approvalIdle
          setting,  \* the settings access.approval, access.token, access.lan
          accToken, \* Server.token
          listener, \* binder.ln: bound to loopback, to the network, or nothing listening
          again,    \* the re-bind after Serve failed: none, or its stage
          phone,    \* by device: connected, the token and the identity its cookies hold
          tab,      \* by host page: the request under way
          letIn,    \* the last request that was served: device, identity, token
          blessed,  \* ghost: identities the host approved and has neither denied nor removed
          unread, astray,  \* ghosts: a load failed; listener and setting parted by a failure
          accFaults, accOps
accVars == <<table, memory, setting, accToken, listener, again, phone, tab, letIn, blessed,
             unread, astray, accFaults, accOps>>

NoStatus == [i \in DeviceIDs |-> "none"]
Unloaded == [loaded |-> FALSE, mode |-> "off", status |-> NoStatus, seen |-> {}]
NotAgain == [stage |-> "none", addr |-> "none"]
Idle == [op |-> "idle", val |-> "none"]

AccInit ==
  /\ table = [i \in DeviceIDs |-> [status |-> "none", addr |-> NoID]]
  /\ memory = Unloaded
  /\ setting = [mode |-> "once", token |-> 1, lan |-> "loop"] /\ accToken = 1
  /\ listener = "loop" /\ again = NotAgain
  /\ phone = [d \in Devices |-> [on |-> FALSE, token |-> 0, id |-> NoID]]
  /\ tab = [h \in HostTabs |-> Idle]
  /\ letIn = [dev |-> NoID, id |-> NoID, token |-> 0, n |-> 0]
  /\ blessed = {} /\ unread = FALSE /\ astray = FALSE /\ accFaults = 0 /\ accOps = 0

AccOp == accOps < MaxAccOps /\ accOps' = accOps + 1
AccFault == accFaults < MaxAccFaults /\ accFaults' = accFaults + 1
AccWorks == accFaults' = accFaults

(* loadApprovals: read once; when the devices cannot be read, nobody is known and the mode
   is "once", and the next request reads again. *)
Loaded(ok) ==
  IF memory.loaded THEN memory
  ELSE IF ok THEN [loaded |-> TRUE, mode |-> setting.mode,
                   status |-> [i \in DeviceIDs |-> table[i].status], seen |-> {}]
       ELSE [Unloaded EXCEPT !.mode = "once"]
Reads(ok) == /\ IF ok \/ memory.loaded THEN AccWorks ELSE AccFault
             /\ unread' = (unread \/ (~ok /\ ~memory.loaded))

-----------------------------------------------------------------------------
(* requestAccess: the row becomes pending, under a new identity for a device without one. *)
Fresh == CHOOSE i \in DeviceIDs : table[i].status = "none" /\ \A d \in Devices : phone[d].id # i
AnyFresh == \E i \in DeviceIDs : table[i].status = "none" /\ \A d \in Devices : phone[d].id # i
Full(M) == Cardinality({i \in DeviceIDs : M.status[i] = "pending"}) >= MaxPending
deniedAddr(d) == \E i \in DeviceIDs : table[i].status = "denied" /\ table[i].addr = d
\* Variant for mutation: a device without a cookie is a new device.
requestAnew(d, M) ==
  LET i == IF phone[d].id = NoID THEN Fresh ELSE phone[d].id
  IN IF Full(M) THEN memory' = M /\ UNCHANGED <<table, phone>>
     ELSE /\ phone[d].id = NoID => AnyFresh
          /\ table' = [table EXCEPT ![i] = [status |-> "pending", addr |-> d]]
          /\ memory' = [M EXCEPT !.status[i] = "pending"]
          /\ phone' = [phone EXCEPT ![d].id = i]
requestAccess(d, M) ==
  LET id == phone[d].id
      i == IF id = NoID THEN Fresh ELSE id
  IN IF Full(M) \/ (id = NoID /\ deniedAddr(d))
     THEN memory' = M /\ UNCHANGED <<table, phone>>
     ELSE /\ id = NoID => AnyFresh
          /\ table' = [table EXCEPT ![i] = [status |-> "pending", addr |-> d]]
          /\ memory' = [M EXCEPT !.status[i] = "pending"]
          /\ phone' = [phone EXCEPT ![d].id = i]

(* admit: an approved device, in mode "always" only within approvalIdle of its last visit. *)
MayEnter(M, id) ==
  \/ M.mode = "off"
  \/ id # NoID /\ M.status[id] = "approved" /\ (M.mode = "once" \/ id \in M.seen)
StatusOf(M, id) == IF id = NoID THEN "none" ELSE IF M.status[id] = "approved" THEN "none" ELSE M.status[id]
admit(d, navigation, ok) ==
  LET M == Loaded(ok)
      id == phone[d].id
  IN /\ Reads(ok)
     /\ IF MayEnter(M, id)
        THEN /\ memory' = IF id # NoID /\ M.mode # "off" THEN [M EXCEPT !.seen = @ \cup {id}] ELSE M
             /\ letIn' = [dev |-> d, id |-> id, token |-> phone[d].token, n |-> 1 - letIn.n]
             /\ UNCHANGED <<table, phone, blessed>>
        ELSE /\ IF StatusOf(M, id) = "none" /\ (id # NoID \/ navigation)
                THEN requestAccess(d, M)
                ELSE memory' = M /\ UNCHANGED <<table, phone>>
             /\ blessed' = {i \in blessed : table'[i].status # "pending"}
             /\ letIn' = letIn

(* guard, of a request that is not from loopback: the setting is asked, not the listener,
   so connections kept alive across the closing are turned away too. *)
Request(d, navigation, ok) ==
  /\ phone[d].on /\ setting.lan = "lan" /\ phone[d].token = accToken
  /\ admit(d, navigation, ok)
  /\ UNCHANGED <<setting, accToken, listener, again, tab, astray, accOps>>

(* The store may refuse the row: the page says "full" and nothing is recorded. *)
RequestUnsaved(d) ==
  LET M == Loaded(TRUE)
  IN /\ phone[d].on /\ setting.lan = "lan" /\ phone[d].token = accToken
     /\ ~MayEnter(M, phone[d].id) /\ StatusOf(M, phone[d].id) = "none"
     /\ memory' = M /\ AccFault
     /\ UNCHANGED <<table, setting, accToken, listener, again, phone, tab, letIn, blessed, unread, astray, accOps>>

(* A phone connects while the listener is open, and scans the pairing code. *)
Dial(d) ==
  /\ listener = "lan" /\ ~phone[d].on
  /\ phone' = [phone EXCEPT ![d].on = TRUE]
  /\ UNCHANGED <<table, memory, setting, accToken, listener, again, tab, letIn, blessed, unread, astray, accFaults, accOps>>
Pair(d) ==
  /\ phone[d].token # accToken
  /\ phone' = [phone EXCEPT ![d].token = accToken]
  /\ UNCHANGED <<table, memory, setting, accToken, listener, again, tab, letIn, blessed, unread, astray, accFaults, accOps>>
DropCookie(d) ==
  /\ AccOp /\ phone[d].id # NoID
  /\ phone' = [phone EXCEPT ![d].id = NoID]
  /\ UNCHANGED <<table, memory, setting, accToken, listener, again, tab, letIn, blessed, unread, astray, accFaults>>
(* approvalIdle passes without a request. *)
Lapse(i) ==
  /\ i \in memory.seen /\ memory' = [memory EXCEPT !.seen = @ \ {i}]
  /\ UNCHANGED <<table, setting, accToken, listener, again, phone, tab, letIn, blessed, unread, astray, accFaults, accOps>>

-----------------------------------------------------------------------------
(* decideDevice and removeDevice: the store, then memory, under approvals.mu. *)
decideDevice(i, status, ok) ==
  LET M == Loaded(ok)
  IN /\ AccOp /\ Reads(ok) /\ M.status[i] # "none"
     /\ table' = [table EXCEPT ![i].status = status]
     /\ memory' = [M EXCEPT !.status[i] = status, !.seen = @ \cup {i}]
     /\ blessed' = IF status = "approved" THEN blessed \cup {i} ELSE blessed \ {i}
     /\ UNCHANGED <<setting, accToken, listener, again, phone, tab, letIn, astray>>
removeDevice(i, ok) ==
  LET M == Loaded(ok)
  IN /\ AccOp /\ Reads(ok) /\ table[i].status # "none"
     /\ table' = [table EXCEPT ![i] = [status |-> "none", addr |-> NoID]]
     /\ memory' = [M EXCEPT !.status[i] = "none", !.seen = @ \ {i}]
     /\ blessed' = blessed \ {i}
     /\ UNCHANGED <<setting, accToken, listener, again, phone, tab, letIn, astray>>

Begins(h, op, val) == tab[h].op = "idle" /\ tab' = [tab EXCEPT ![h] = [op |-> op, val |-> val]]
Finishes(h, op) == tab[h].op = op /\ tab' = [tab EXCEPT ![h] = Idle]

(* setApproval: saved first, then taken up under the lock. *)
SaveMode(h, m) ==
  /\ AccOp /\ m # memory.mode /\ Begins(h, "mode", m)
  /\ setting' = [setting EXCEPT !.mode = m]
  /\ UNCHANGED <<table, memory, accToken, listener, again, phone, letIn, blessed, unread, astray, accFaults>>
UseMode(h, ok) ==
  /\ Finishes(h, "mode") /\ Reads(ok)
  /\ memory' = [Loaded(ok) EXCEPT !.mode = tab[h].val]
  /\ UNCHANGED <<table, setting, accToken, listener, again, phone, letIn, blessed, astray, accOps>>

(* rotateAccess: likewise, the token under its own lock. *)
SaveToken(h) ==
  /\ AccOp /\ setting.token < MaxTokens /\ Begins(h, "token", setting.token + 1)
  /\ setting' = [setting EXCEPT !.token = setting.token + 1]
  /\ UNCHANGED <<table, memory, accToken, listener, again, phone, letIn, blessed, unread, astray, accFaults>>
UseToken(h) ==
  /\ Finishes(h, "token") /\ accToken' = tab[h].val
  /\ UNCHANGED <<table, memory, setting, listener, again, phone, letIn, blessed, unread, astray, accFaults, accOps>>

(* setAccessNetwork: the listener moves first (bind), and only then is it recorded.  The
   new listener opens beside the old one, or, where the system refuses that, after the old
   one is closed. *)
Swapped(addr) == listener' = addr /\ again' = IF again.stage = "sleep" THEN NotAgain ELSE again
Rebind(h, addr) ==
  /\ AccOp /\ Begins(h, "saved", addr)
  /\ Swapped(addr)
  /\ UNCHANGED <<table, memory, setting, accToken, phone, letIn, blessed, unread, astray, accFaults>>
RebindCloses(h, addr) ==
  /\ AccOp /\ Begins(h, "listen", addr)
  /\ listener' = "none"
  /\ UNCHANGED <<table, memory, setting, accToken, again, phone, letIn, blessed, unread, astray, accFaults>>
RebindListens(h) ==
  /\ tab[h].op = "listen" /\ tab' = [tab EXCEPT ![h].op = "saved"]
  /\ Swapped(tab[h].val)
  /\ UNCHANGED <<table, memory, setting, accToken, phone, letIn, blessed, unread, astray, accFaults, accOps>>
RebindFails(h) ==
  /\ Finishes(h, "listen") /\ AccFault /\ astray' = TRUE
  /\ UNCHANGED <<table, memory, setting, accToken, listener, again, phone, letIn, blessed, unread, accOps>>
SaveLAN(h) ==
  /\ Finishes(h, "saved")
  /\ setting' = [setting EXCEPT !.lan = tab[h].val]
  /\ astray' = (listener # tab[h].val)
  /\ UNCHANGED <<table, memory, accToken, listener, again, phone, letIn, blessed, unread, accFaults, accOps>>
SaveLANFails(h) ==
  /\ Finishes(h, "saved") /\ AccFault /\ astray' = (listener # setting.lan)
  /\ UNCHANGED <<table, memory, setting, accToken, listener, again, phone, letIn, blessed, unread, accOps>>

(* Serve returned an error that is not its closing: two seconds later, if that listener is
   still the current one, its address is bound again; a switch may come in between. *)
ServeFails ==
  /\ listener # "none" /\ again = NotAgain /\ AccFault
  /\ again' = [stage |-> "sleep", addr |-> listener] /\ listener' = "none"
  /\ UNCHANGED <<table, memory, setting, accToken, phone, tab, letIn, blessed, unread, astray, accOps>>
StillCurrent ==
  /\ again.stage = "sleep" /\ again' = [again EXCEPT !.stage = "bind"]
  /\ UNCHANGED <<table, memory, setting, accToken, listener, phone, tab, letIn, blessed, unread, astray, accFaults, accOps>>
ListenAgain(ok) ==
  /\ again.stage = "bind" /\ again' = NotAgain
  /\ IF ok THEN AccWorks ELSE AccFault
  /\ listener' = IF ok THEN again.addr ELSE listener
  /\ astray' = (astray \/ listener' # setting.lan)
  /\ UNCHANGED <<table, memory, setting, accToken, phone, tab, letIn, blessed, unread, accOps>>

(* kuro ends and starts: everything in memory goes, the listener follows the setting. *)
AccRestart ==
  /\ AccOp
  /\ memory' = Unloaded /\ accToken' = setting.token /\ listener' = setting.lan /\ again' = NotAgain
  /\ tab' = [h \in HostTabs |-> Idle] /\ phone' = [d \in Devices |-> [phone[d] EXCEPT !.on = FALSE]]
  /\ astray' = FALSE
  /\ UNCHANGED <<table, setting, letIn, blessed, unread, accFaults>>

AccNext ==
  \/ \E d \in Devices : \/ \E nav, ok \in BOOLEAN : Request(d, nav, ok)
                        \/ RequestUnsaved(d) \/ Dial(d) \/ Pair(d) \/ DropCookie(d)
  \/ \E i \in DeviceIDs : \/ Lapse(i)
                          \/ \E ok \in BOOLEAN : removeDevice(i, ok) \/ \E s \in {"approved", "denied"} : decideDevice(i, s, ok)
  \/ \E h \in HostTabs : \/ SaveToken(h) \/ UseToken(h)
                         \/ \E m \in Modes : SaveMode(h, m)
                         \/ \E ok \in BOOLEAN : UseMode(h, ok)
                         \/ \E a \in {"loop", "lan"} : Rebind(h, a) \/ RebindCloses(h, a)
                         \/ RebindListens(h) \/ RebindFails(h) \/ SaveLAN(h) \/ SaveLANFails(h)
  \/ ServeFails \/ StillCurrent \/ \E ok \in BOOLEAN : ListenAgain(ok)
  \/ AccRestart

AccSpec == AccInit /\ [][AccNext]_accVars
-----------------------------------------------------------------------------
(* "Memory answers every request; the database keeps the decisions": once read, memory
   says of every device what its row says. *)
MemoryIsTable == memory.loaded => \A i \in DeviceIDs : memory.status[i] = table[i].status

(* "Past it a flood of requests cannot bury the real one": rows that wait are never more
   than maxPending.  After a load that failed the count starts from nothing. *)
PendingBounded == unread \/ Cardinality({i \in DeviceIDs : table[i].status = "pending"}) <= MaxPending

HostAtRest == again = NotAgain /\ \A h \in HostTabs : tab[h].op = "idle"
(* Between the host's requests, what memory, listener and settings say is the same, unless
   a failed bind or save parted them. *)
SettingsInForce ==
  HostAtRest => /\ accToken = setting.token /\ (memory.loaded => memory.mode = setting.mode)
                /\ astray \/ listener = setting.lan

(* Whoever is served while approval is on was approved by the host, under the identity it
   came with, and not denied, removed or made to ask again since; and it holds the token
   last given out, or the rotation that voids its own is not over. *)
OnlyBlessedEnter ==
  [][letIn' # letIn => /\ letIn'.token = setting.token \/ \E h \in HostTabs : tab[h].op = "token"
                       /\ Loaded(TRUE).mode = "off" \/ letIn'.id \in blessed]_accVars

(* "A denied device that drops its cookie is still the denied device": its address gets no
   further request until the host decides, unless the devices could not be read. *)
DeniedStaysOut ==
  [][\A d \in Devices, i \in DeviceIDs :
       /\ ~unread' /\ deniedAddr(d) /\ phone[d].id = NoID
       => ~(table[i].status = "none" /\ table'[i].addr = d)]_accVars

AccStateOK == MemoryIsTable /\ PendingBounded /\ SettingsInForce
AccessSafe == []AccStateOK /\ OnlyBlessedEnter /\ DeniedStaysOut
=============================================================================
