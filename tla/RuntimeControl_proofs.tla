------------------------- MODULE RuntimeControl_proofs -------------------------
(***************************************************************************)
(* Theorems about RuntimeControl for every value of its constants: types,  *)
(* that a restarted engine does not trade unasked, that a stop holds, and  *)
(* that commands are served in order.                                      *)
(***************************************************************************)
EXTENDS RuntimeControl, SequenceTheorems, WellFoundedInduction, TLAPS

\* Where the engine is in its round, and what is claimed there.
Places ==
  /\ ep \in {"startup", "clear"} => phase = "boot"
  /\ ep \in {"markDone", "markFailed"} => cur # 0
  /\ ep \in {"claim", "tick", "config", "startup", "clear", "down"} => cur = 0
  /\ cur # 0 => cur \in Pending /\ \A i \in Pending : cur <= i

\* What a request holds.
Row(r) ==
  /\ r \in Request
  /\ r.op = "none" \/ r.at = "idle" => r = Idle
  /\ r.op = "stop" => ~r.row.enabled
Rows == \A c \in Clients : Row(req[c])

Base == TypeOK /\ Places /\ Rows

-----------------------------------------------------------------------------
(* Lemmas about the operators *)

\* The claimed command is the oldest of those that wait.
LEMMA OldestIsLeast ==
  ASSUME NEW S \in SUBSET Nat, S # {}
  PROVE  Oldest(S) \in S /\ \A j \in S : Oldest(S) <= j
<1>1. PICK i \in S : \A j \in S : ~(<<j, i>> \in OpToRel(<, Nat))
  BY NatLessThanWellFounded, WFMin
<1>2. \A j \in S : j < i => <<j, i>> \in OpToRel(<, Nat)
  BY Zenon DEF OpToRel
<1>3. \A j \in S : ~(j < i)
  BY <1>1, <1>2, Zenon
<1>4. \A j \in S : j \in Nat /\ i \in Nat
  BY <1>1
<1>5. \A j \in S : i <= j
  BY <1>3, <1>4
<1> QED BY <1>1, <1>5 DEF Oldest

\* The empty configuration, row and request are what they look like.
LEMMA EmptyConfigs ==
  /\ NoConfig \in Config /\ NoState \in State /\ Idle \in Request
  /\ ~NoState.enabled /\ ~Idle.row.enabled
  BY ControlAssumption DEF NoConfig, Config, NoState, State, Idle, Request, Unset

\* Merging keeps to configurations.
LEMMA OverlayIsConfig ==
  ASSUME NEW base \in Config, NEW patch \in Config
  PROVE  Overlay(base, patch) \in Config
  BY DEF Overlay, Config

\* What waits is a place of the queue.
LEMMA PendingInQueue ==
  ASSUME TypeOK
  PROVE  /\ Pending \in SUBSET Nat /\ Pending \subseteq 1 .. Len(cmds)
         /\ \A i \in Pending : cmds[i] \in Command
<1>1. cmds \in Seq(Command) /\ DOMAIN cmds = 1 .. Len(cmds)
  BY DEF TypeOK
<1>2. \A i \in 1 .. Len(cmds) : cmds[i] \in Command
  BY <1>1, ElementOfSeq
<1> QED BY <1>1, <1>2 DEF Pending

\* The claim takes the first of those that wait.
LEMMA ClaimIsFirst ==
  ASSUME TypeOK, Pending # {}
  PROVE  /\ Oldest(Pending) \in Pending /\ \A j \in Pending : Oldest(Pending) <= j
         /\ Oldest(Pending) \in 1 .. Len(cmds) /\ Oldest(Pending) # 0
         /\ cmds[Oldest(Pending)] \in Command
  BY PendingInQueue, OldestIsLeast

\* A command that is queued waits behind the others.
LEMMA QueueGrows ==
  ASSUME TypeOK, NEW m \in Command, m.status = "pending", cmds' = Append(cmds, m)
  PROVE  /\ cmds' \in Seq(Command) /\ Len(cmds') = Len(cmds) + 1
         /\ Pending' = Pending \cup {Len(cmds) + 1}
         /\ \A i \in 1 .. Len(cmds) : cmds'[i] = cmds[i]
         /\ cmds'[Len(cmds) + 1] = m
<1>1. cmds \in Seq(Command) /\ Len(cmds) \in Nat
  BY DEF TypeOK
<1>2. /\ cmds' \in Seq(Command) /\ Len(cmds') = Len(cmds) + 1
      /\ \A i \in 1 .. Len(cmds) : cmds'[i] = cmds[i]
      /\ cmds'[Len(cmds) + 1] = m
  BY <1>1, AppendProperties
<1>3. DOMAIN cmds = 1 .. Len(cmds) /\ DOMAIN cmds' = 1 .. Len(cmds) + 1
  BY <1>1, <1>2
<1>4. Pending' = Pending \cup {Len(cmds) + 1}
  BY <1>1, <1>2, <1>3 DEF Pending
<1> QED BY <1>2, <1>4

\* A command that is marked waits no more; nothing else changes in the queue.
LEMMA QueueServed ==
  ASSUME Base, MarkDone
  PROVE  /\ cmds' \in Seq(Command) /\ Len(cmds') = Len(cmds) /\ cur \in 1 .. Len(cmds)
         /\ Pending' = Pending \ {cur}
         /\ \A i \in 1 .. Len(cmds) :
              cmds'[i].action = cmds[i].action /\ cmds'[i].version = cmds[i].version
<1> DEFINE word == IF ep = "markDone" THEN "done" ELSE "failed"
           m == [cmds[cur] EXCEPT !.status = word]
<1>1. cmds \in Seq(Command) /\ DOMAIN cmds = 1 .. Len(cmds) /\ Len(cmds) \in Nat
  BY DEF Base, TypeOK
<1>2. cur \in 1 .. Len(cmds)
  BY PendingInQueue DEF Base, Places, MarkDone
<1>3. cmds[cur] \in Command
  BY <1>1, <1>2, ElementOfSeq
<1>4. /\ m \in Command /\ m.action = cmds[cur].action /\ m.version = cmds[cur].version
      /\ m.status # "pending"
  BY <1>3 DEF Command
<1>5. cmds' = [cmds EXCEPT ![cur] = m]
  BY DEF MarkDone
<1> HIDE DEF m
<1>6. cmds' \in Seq(Command) /\ Len(cmds') = Len(cmds) /\ DOMAIN cmds' = 1 .. Len(cmds)
  BY <1>1, <1>2, <1>4, <1>5, ExceptSeq
<1>7. \A i \in 1 .. Len(cmds) : cmds'[i] = (IF i = cur THEN m ELSE cmds[i])
  BY <1>1, <1>5
<1>8. Pending' = Pending \ {cur}
  BY <1>1, <1>4, <1>6, <1>7 DEF Pending
<1> QED BY <1>2, <1>4, <1>6, <1>7, <1>8

-----------------------------------------------------------------------------
(* Types and places *)

\* The requests stay what they are when one of them becomes another.
LEMMA RowsStep ==
  ASSUME Base, NEW c \in Clients, NEW r, Row(r), req' = [req EXCEPT ![c] = r]
  PROVE  req' \in [Clients -> Request] /\ Rows'
  BY DEF Base, TypeOK, Rows, Row

\* A client without a request holds nothing.
LEMMA IdleIsRow == Row(Idle)
  BY EmptyConfigs DEF Row, Idle

\* A request that goes on keeps its row.
LEMMA GoesOn ==
  ASSUME Base, NEW c \in Clients, NEW at \in {"write", "enqueue", "run"}, req[c].op # "none"
  PROVE  /\ Row([req[c] EXCEPT !.at = at])
         /\ [req EXCEPT ![c].at = at] = [req EXCEPT ![c] = [req[c] EXCEPT !.at = at]]
<1>1. req[c] \in Request /\ Row(req[c])
  BY DEF Base, Rows, Row
<1>2. [req[c] EXCEPT !.at = at] \in Request
  BY <1>1 DEF Request
<1> QED BY <1>1, <1>2 DEF Row, Request

\* A request that is made, goes on or ends leaves types and places what they are.
LEMMA BaseByRequests ==
  ASSUME Base, NEW c \in Clients,
         \/ \E op \in Ops, k \in Keys : BeginSave(c, op, k)
         \/ BeginStop(c) \/ Serve(c) \/ RequestFails(c)
  PROVE  Base'
<1>0. /\ req[c] \in Request /\ req[c].row \in State /\ Row(req[c])
      /\ requests \in Nat /\ MaxRequests \in Nat /\ state \in State
  BY ControlAssumption DEF Base, TypeOK, Request, Rows
<1>1. ASSUME NEW op \in Ops, NEW k \in Keys, BeginSave(c, op, k)
      PROVE  Base'
  <2> DEFINE row == [config |-> [state.config EXCEPT ![k] = requests + 1],
                     version |-> NextVersion(state), enabled |-> (op = "start") \/ state.enabled]
             r == [op |-> op, at |-> "write", row |-> row]
  <2>1. op \in {"save", "start"} /\ requests + 1 \in 0 .. MaxRequests /\ requests' = requests + 1
          /\ req' = [req EXCEPT ![c] = r]
    BY <1>0, <1>1 DEF BeginSave, NewRequest
  <2>2. [state.config EXCEPT ![k] = requests + 1] \in Config
    BY <1>0, <2>1 DEF State, Config
  <2>3. NextVersion(state) \in Nat
    BY <1>0 DEF NextVersion, State
  <2>4. ((op = "start") \/ state.enabled) \in BOOLEAN
    BY Zenon
  <2>5. row \in State
    BY <2>2, <2>3, <2>4, Zenon DEF State
  <2>6. Row(r)
    <3> HIDE DEF row
    <3> QED BY <2>1, <2>5 DEF Row, Request
  <2> HIDE DEF r
  <2>7. req' \in [Clients -> Request] /\ Rows'
    BY <2>1, <2>6, RowsStep
  <2>8. asked' \in BOOLEAN
    BY <1>1, Zenon DEF BeginSave
  <2>9. UNCHANGED <<dbVars, engineVars, crashes, faults, pressed>>
    BY <1>1 DEF BeginSave
  <2> QED BY <2>1, <2>7, <2>8, <2>9 DEF Base, TypeOK, Places, Pending, dbVars, engineVars
<1>2. CASE BeginStop(c)
  <2> DEFINE r == [op |-> "stop", at |-> "enqueue", row |-> [state EXCEPT !.enabled = FALSE]]
  <2>1. requests' \in 0 .. MaxRequests /\ req' = [req EXCEPT ![c] = r]
    BY <1>0, <1>2 DEF BeginStop, NewRequest
  <2>2. Row(r)
    <3>1. [state EXCEPT !.enabled = FALSE] \in State /\ ~[state EXCEPT !.enabled = FALSE].enabled
      BY <1>0 DEF State
    <3> QED BY <3>1 DEF Row, Request
  <2> HIDE DEF r
  <2>3. req' \in [Clients -> Request] /\ Rows'
    BY <2>1, <2>2, RowsStep
  <2>4. UNCHANGED <<dbVars, engineVars, crashes, faults, pressed, asked>>
    BY <1>2 DEF BeginStop
  <2> QED BY <2>1, <2>3, <2>4 DEF Base, TypeOK, Places, Pending, dbVars, engineVars
<1>3. CASE WriteState(c)
  <2>1. state' = req[c].row /\ UNCHANGED <<cmds, run, engineVars, boundVars, asked>>
    BY <1>3 DEF WriteState
  <2>2. req' \in [Clients -> Request] /\ Rows' /\ pressed' \in {"none", "start", "stop"}
    BY <1>3, RowsStep, IdleIsRow, GoesOn DEF WriteState, Finish, Continue, Base, TypeOK
  <2> QED BY <1>0, <2>1, <2>2 DEF Base, TypeOK, Places, Pending, engineVars, boundVars
<1>4. CASE Enqueue(c)
  <2> DEFINE m == [action |-> req[c].op, config |-> req[c].row.config,
                   version |-> req[c].row.version, status |-> "pending"]
  <2>1. cmds' = Append(cmds, m) /\ UNCHANGED <<state, run, engineVars, boundVars, asked>>
          /\ req[c].op \in {"start", "stop"}
    BY <1>4 DEF Enqueue
  <2>2. m \in Command /\ m.status = "pending"
    BY <1>0, <2>1 DEF Command, State
  <2> HIDE DEF m
  <2>3. /\ cmds' \in Seq(Command) /\ Len(cmds') = Len(cmds) + 1
        /\ Pending' = Pending \cup {Len(cmds) + 1}
    BY <2>1, <2>2, QueueGrows DEF Base
  <2>4. req' \in [Clients -> Request] /\ Rows' /\ pressed' \in {"none", "start", "stop"}
    BY <1>4, RowsStep, IdleIsRow, GoesOn DEF Enqueue, Finish, Continue, Base, TypeOK
  <2>5. cur \in 0 .. Len(cmds) /\ Len(cmds) \in Nat
    BY DEF Base, TypeOK
  <2> QED BY <2>1, <2>3, <2>4, <2>5 DEF Base, TypeOK, Places, engineVars, boundVars
<1>5. CASE SetRunActive(c)
  <2>1. UNCHANGED <<state, cmds, engineVars, boundVars, asked>> /\ req' = [req EXCEPT ![c] = Idle]
    BY <1>5 DEF SetRunActive, Finish
  <2>2. run' \in {"none", "running", "paused", "stopped"}
    BY <1>5 DEF SetRunActive, RunBecomes, Active, Base, TypeOK
  <2>3. pressed' \in {"none", "start", "stop"}
    BY <1>0, <1>5 DEF SetRunActive, Finish, Base, TypeOK, Request, Row
  <2>4. req' \in [Clients -> Request] /\ Rows'
    BY <2>1, RowsStep, IdleIsRow
  <2> QED BY <2>1, <2>2, <2>3, <2>4 DEF Base, TypeOK, Places, Pending, engineVars, boundVars
<1>6. CASE RequestFails(c)
  <2>1. req' = [req EXCEPT ![c] = Idle] /\ UNCHANGED <<dbVars, engineVars, requests, crashes, pressed, asked>>
    BY <1>6 DEF RequestFails
  <2>2. faults' \in 0 .. MaxFaults
    BY <1>6, ControlAssumption DEF RequestFails, Base, TypeOK
  <2>3. req' \in [Clients -> Request] /\ Rows'
    BY <2>1, RowsStep, IdleIsRow
  <2> QED BY <2>1, <2>2, <2>3 DEF Base, TypeOK, Places, Pending, dbVars, engineVars
<1> QED BY <1>1, <1>2, <1>3, <1>4, <1>5, <1>6 DEF Serve

\* A step of the engine leaves types and places what they are.
LEMMA BaseByEngine ==
  ASSUME Base, Boot \/ Engine \/ Crash
  PROVE  Base'
<1>0. /\ state \in State /\ state.config \in Config /\ state.version \in Nat
      /\ state.enabled \in BOOLEAN /\ applied \in Config /\ seen \in State
      /\ cmds \in Seq(Command) /\ Len(cmds) \in Nat /\ faults \in 0 .. MaxFaults /\ MaxFaults \in Nat
  BY ControlAssumption DEF Base, TypeOK, State
<1>1. CASE Boot
  <2>1. applied' \in Config
    BY <1>0, <1>1, OverlayIsConfig, EmptyConfigs DEF Boot
  <2>2. asked' \in BOOLEAN
    BY <1>1, Zenon DEF Boot
  <2>3. UNCHANGED <<dbVars, seen, cur, req, boundVars, pressed>>
          /\ ep' = "startup" /\ phase' = "boot" /\ trading' = FALSE /\ last' = 0 /\ cur = 0
    BY <1>1 DEF Boot, Base, Places
  <2> QED BY <2>1, <2>2, <2>3 DEF Base, TypeOK, Places, Rows, Pending, dbVars, boundVars
<1>2. CASE SyncOnStartup
  <2>1. applied' \in Config /\ last' \in Nat
    BY <1>0, <1>2, OverlayIsConfig DEF SyncOnStartup
  <2>2. UNCHANGED <<dbVars, phase, cur, req, boundVars, pressed, asked>>
          /\ ep' \in {"clear", "status"} /\ trading' = FALSE /\ cur = 0 /\ phase = "boot"
    BY <1>2 DEF SyncOnStartup, Base, Places
  <2>3. seen' \in State
    BY <1>0, <1>2 DEF SyncOnStartup
  <2> QED BY <2>1, <2>2, <2>3 DEF Base, TypeOK, Places, Rows, Pending, dbVars, boundVars
<1>3. CASE ClearEnabled
  <2>1. state' \in State /\ seen' \in State
    BY <1>0, <1>3, EmptyConfigs DEF ClearEnabled, State
  <2>2. faults' \in 0 .. MaxFaults /\ ep' = "status" /\ cur = 0
          /\ UNCHANGED <<cmds, run, phase, trading, applied, last, cur, req, requests, crashes,
                         pressed, asked>>
    BY <1>0, <1>3 DEF ClearEnabled, Base, Places
  <2> QED BY <2>1, <2>2 DEF Base, TypeOK, Places, Rows, Pending
<1>4. CASE SyncRunStatus
  <2>1. run' \in {"none", "running", "paused", "stopped"}
    BY <1>4 DEF SyncRunStatus, Active, Base, TypeOK
  <2>2. faults' \in 0 .. MaxFaults
          /\ ep' = (IF cur # 0 THEN "markDone" ELSE IF phase = "boot" THEN "claim" ELSE "tick")
          /\ UNCHANGED <<state, cmds, phase, trading, applied, last, seen, cur, req,
                         requests, crashes, pressed, asked>>
    BY <1>0, <1>4 DEF SyncRunStatus
  <2> QED BY <2>1, <2>2 DEF Base, TypeOK, Places, Rows, Pending
<1>5. CASE ProcessCommand
  <2>1. /\ cur' \in Pending /\ \A j \in Pending : cur' <= j
        /\ cur' \in 1 .. Len(cmds) /\ cmds[cur'] \in Command
    BY <1>5, ClaimIsFirst DEF ProcessCommand, Base
  <2>2. cmds[cur'].config \in Config /\ cmds[cur'].version \in Nat
    BY <2>1 DEF Command
  <2>3. applied' \in Config
    BY <1>0, <1>5, <2>2, OverlayIsConfig DEF ProcessCommand, ApplyStart
  <2>4. last' \in Nat /\ trading' \in BOOLEAN
    BY <1>5, <2>2 DEF ProcessCommand, ApplyStart, Base, TypeOK
  <2>5. ep' = "status" /\ UNCHANGED <<dbVars, phase, seen, req, boundVars, pressed, asked>>
    BY <1>5 DEF ProcessCommand
  <2> QED BY <1>0, <2>1, <2>3, <2>4, <2>5 DEF Base, TypeOK, Places, Rows, Pending, dbVars, boundVars
<1>6. CASE MarkDone
  <2>1. cmds' \in Seq(Command) /\ Len(cmds') = Len(cmds)
    BY <1>6, QueueServed
  <2>2. cur' = 0 /\ ep' = "claim" /\ UNCHANGED <<state, run, phase, trading, applied, last, seen, req,
                                                 boundVars, pressed, asked>>
    BY <1>6 DEF MarkDone
  <2> QED BY <1>0, <2>1, <2>2 DEF Base, TypeOK, Places, Rows, boundVars
<1>7. CASE CommandFails
  <2>1. /\ cur' \in Pending /\ \A j \in Pending : cur' <= j
        /\ cur' \in 1 .. Len(cmds) /\ cmds[cur'] \in Command /\ cur' # 0
    BY <1>7, ClaimIsFirst DEF CommandFails, Base
  <2>2. applied' \in Config
    BY <1>0, <1>7, <2>1, OverlayIsConfig DEF CommandFails, Command
  <2>3. faults' \in 0 .. MaxFaults /\ ep' = "markFailed"
          /\ UNCHANGED <<dbVars, phase, trading, last, seen, req, requests, crashes, pressed, asked>>
    BY <1>0, <1>7 DEF CommandFails
  <2> QED BY <1>0, <2>1, <2>2, <2>3 DEF Base, TypeOK, Places, Rows, Pending, dbVars
<1>8. CASE NoCommand
  <2>1. run' \in {"none", "running", "paused", "stopped"}
    BY <1>8 DEF NoCommand, Active, Base, TypeOK
  <2>2. phase' = "poll" /\ ep' \in {"tick", "config"} /\ cur = 0
          /\ UNCHANGED <<state, cmds, trading, applied, last, seen, cur, req, boundVars, pressed, asked>>
    BY <1>8 DEF NoCommand, Base, Places
  <2> QED BY <2>1, <2>2 DEF Base, TypeOK, Places, Rows, Pending, boundVars
<1>9. CASE Poll
  BY <1>9 DEF Poll, Base, TypeOK, Places, Rows, Pending, dbVars, boundVars
<1>10. CASE SyncConfigVersion
  <2>1. applied' \in Config /\ last' \in Nat
    BY <1>0, <1>10, OverlayIsConfig DEF SyncConfigVersion, Base, TypeOK
  <2>2. trading' \in BOOLEAN
    BY <1>0, <1>10 DEF SyncConfigVersion, Base, TypeOK
  <2>3. ep' \in {"tick", "status"} /\ cur = 0
          /\ UNCHANGED <<dbVars, phase, seen, cur, req, boundVars, pressed, asked>>
    BY <1>10 DEF SyncConfigVersion, Base, Places
  <2> QED BY <2>1, <2>2, <2>3 DEF Base, TypeOK, Places, Rows, Pending, dbVars, boundVars
<1>11. CASE Crash
  <2>1. crashes' \in 0 .. MaxCrashes
    BY <1>11, ControlAssumption DEF Crash, Base, TypeOK
  <2>2. run' \in {"none", "running", "paused", "stopped"}
    BY <1>11 DEF Crash, Base, TypeOK
  <2>3. ep' = "down" /\ phase' = "boot" /\ applied' \in Config /\ last' = 0
          /\ seen' \in State /\ cur' = 0
          /\ UNCHANGED <<state, cmds, req, requests, faults, pressed, asked>>
    BY <1>11, EmptyConfigs DEF Crash, Forget
  <2>4. trading' \in BOOLEAN
    BY <1>11 DEF Crash, Forget
  <2>5. TypeOK'
    BY <1>0, <2>1, <2>2, <2>3, <2>4 DEF Base, TypeOK
  <2>6. Places' /\ Rows'
    BY <2>3 DEF Base, Places, Rows
  <2> QED BY <2>5, <2>6 DEF Base
<1> QED BY <1>1, <1>2, <1>3, <1>4, <1>5, <1>6, <1>7, <1>8, <1>9, <1>10, <1>11 DEF Engine

\* Types and places hold from the start.
LEMMA BaseInit == Init => Base
<1> SUFFICES ASSUME Init PROVE Base
  OBVIOUS
<1>1. TypeOK
  <2>1. trading \in BOOLEAN /\ asked \in BOOLEAN
    BY DEF Init
  <2>2. state \in State /\ seen \in State /\ applied \in Config /\ req \in [Clients -> Request]
    BY EmptyConfigs DEF Init
  <2>3. cmds \in Seq(Command) /\ Len(cmds) = 0
    BY DEF Init
  <2>4. requests \in 0 .. MaxRequests /\ crashes \in 0 .. MaxCrashes /\ faults \in 0 .. MaxFaults
          /\ last \in Nat /\ cur \in 0 .. Len(cmds)
    BY <2>3, ControlAssumption DEF Init
  <2>5. /\ run = "none" /\ ep = "down" /\ phase = "boot" /\ pressed = "none"
    BY DEF Init
  <2> QED BY <2>1, <2>2, <2>3, <2>4, <2>5 DEF TypeOK
<1>2. Places
  BY DEF Init, Places
<1>3. Rows
  BY IdleIsRow DEF Init, Rows
<1> QED BY <1>1, <1>2, <1>3 DEF Base

\* And after every step.
LEMMA BaseStep == Base /\ [Next]_vars => Base'
<1> SUFFICES ASSUME Base, [Next]_vars PROVE Base'
  OBVIOUS
<1>1. CASE UNCHANGED vars
  BY <1>1 DEF vars, dbVars, engineVars, boundVars, Base, TypeOK, Places, Rows, Pending
<1> QED BY <1>1, BaseByRequests, BaseByEngine DEF Next

\* So they hold always.
LEMMA BaseHolds == Spec => []Base
  BY BaseInit, BaseStep, PTL DEF Spec

\* Every variable keeps its type, for any number of clients and of configuration keys; in
\* particular the claimed command is one of the queue.
THEOREM ControlTypes == Spec => []TypeOK
<1>1. Base => TypeOK
  BY DEF Base
<1> QED BY <1>1, BaseHolds, PTL

-----------------------------------------------------------------------------
(* A restarted engine does not trade unasked *)

\* No request is served while the engine boots.
Quiet == phase = "boot" /\ ep # "down" => \A c \in Clients : req[c] = Idle

\* The boot begins without requests, and none begins before it is over.
LEMMA QuietStep ==
  ASSUME QuietBoot, Base, Quiet, [Next]_vars
  PROVE  Quiet'
<1>0. req \in [Clients -> Request]
  BY DEF Base, TypeOK
<1>1. ASSUME NEW c \in Clients,
             BeginStop(c) \/ \E op \in Ops, k \in Keys : BeginSave(c, op, k)
      PROVE  Quiet'
  <2>1. (phase = "poll" \/ ep = "down") /\ UNCHANGED engineVars
    BY <1>1 DEF BeginSave, BeginStop, NewRequest
  <2> QED BY <2>1 DEF Quiet, engineVars
<1>2. ASSUME NEW c \in Clients, Serve(c) \/ RequestFails(c)
      PROVE  Quiet'
  <2>1. req[c] # Idle /\ UNCHANGED engineVars
    BY <1>2 DEF Serve, WriteState, Enqueue, SetRunActive, RequestFails, Idle
  <2> QED BY <2>1 DEF Quiet, engineVars
<1>3. CASE Boot
  BY <1>3 DEF Boot, Quiet, Serving
<1>4. CASE Engine \/ Crash \/ UNCHANGED vars
  <2>1. UNCHANGED req /\ (ep' = "down" \/ phase' = "poll" \/ (phase' = phase /\ (ep # "down" \/ ep' = ep)))
    BY <1>4 DEF Engine, SyncOnStartup, ClearEnabled, SyncRunStatus, ProcessCommand, MarkDone,
         CommandFails, NoCommand, Poll, SyncConfigVersion, Crash, Forget, vars, engineVars
  <2> QED BY <2>1 DEF Quiet
<1> QED BY <1>1, <1>2, <1>3, <1>4 DEF Next

\* Without a start nothing switches trading on, and once the boot is over the stored flag is off
\* and no request holds a row in which it is on.
Unasked ==
  ~asked =>
    /\ ~trading
    /\ \A i \in Pending : cmds[i].action # "start"
    /\ \A c \in Clients : req[c].op # "start"
    /\ ep \notin {"down", "startup", "clear"} =>
         ~state.enabled /\ \A c \in Clients : ~req[c].row.enabled

\* Requests keep it: one that begins takes the stored flag, and only start sets it.
LEMMA UnaskedByRequests ==
  ASSUME QuietBoot, Base, Quiet, Unasked, NEW c \in Clients,
         \/ \E op \in Ops, k \in Keys : BeginSave(c, op, k)
         \/ BeginStop(c) \/ Serve(c) \/ RequestFails(c)
  PROVE  Unasked'
<1>0. req \in [Clients -> Request] /\ Row(req[c]) /\ ~Idle.row.enabled /\ Idle.op = "none"
  BY EmptyConfigs DEF Base, TypeOK, Rows, Idle
<1>1. ASSUME NEW op \in Ops, NEW k \in Keys, BeginSave(c, op, k)
      PROVE  Unasked'
  <2> DEFINE r == [op |-> op, at |-> "write",
                   row |-> [config |-> [state.config EXCEPT ![k] = requests + 1],
                            version |-> NextVersion(state),
                            enabled |-> (op = "start") \/ state.enabled]]
  <2>1. UNCHANGED <<dbVars, engineVars>> /\ req' = [req EXCEPT ![c] = r]
    BY <1>1 DEF BeginSave
  <2>2. ~asked' => ~asked /\ op # "start"
    BY <1>1, Zenon DEF BeginSave
  <2>3. r.op = op /\ r.row.enabled = ((op = "start") \/ state.enabled)
    BY Zenon
  <2>4. op # "start" /\ ~state.enabled => ~r.row.enabled
    BY <2>3, Zenon
  <2> HIDE DEF r
  <2>5. \A d \in Clients : req'[d] = (IF d = c THEN r ELSE req[d])
    BY <1>0, <2>1
  <2> QED BY <2>1, <2>2, <2>3, <2>4, <2>5 DEF Unasked, Pending, dbVars, engineVars
<1>2. CASE BeginStop(c)
  <2> DEFINE r == [op |-> "stop", at |-> "enqueue", row |-> [state EXCEPT !.enabled = FALSE]]
  <2>1. UNCHANGED <<dbVars, engineVars, asked>> /\ req' = [req EXCEPT ![c] = r]
    BY <1>2 DEF BeginStop
  <2>2. r.op = "stop" /\ ~r.row.enabled
    BY DEF Base, TypeOK, State
  <2> HIDE DEF r
  <2>3. \A d \in Clients : req'[d] = (IF d = c THEN r ELSE req[d])
    BY <1>0, <2>1
  <2> QED BY <2>1, <2>2, <2>3 DEF Unasked, Pending, dbVars, engineVars
<1>3. ASSUME Serve(c) \/ RequestFails(c)
      PROVE  /\ req[c] # Idle /\ req[c].op # "none" /\ UNCHANGED <<engineVars, asked>>
             /\ req'[c].op \in {"none", req[c].op}
             /\ req'[c].row.enabled => req[c].row.enabled
             /\ \A d \in Clients \ {c} : req'[d] = req[d]
  <2>1. req[c] # Idle /\ UNCHANGED <<engineVars, asked>>
    BY <1>3 DEF Serve, WriteState, Enqueue, SetRunActive, RequestFails, Idle
  <2>2. req[c].op # "none" /\ req[c] \in Request
    BY <1>0, <2>1 DEF Row
  <2>3. req' = [req EXCEPT ![c] = Idle] \/ \E at \in {"write", "enqueue", "run"} : req' = [req EXCEPT ![c].at = at]
    BY <1>3 DEF Serve, WriteState, Enqueue, SetRunActive, RequestFails, Finish, Continue
  <2>4. CASE req' = [req EXCEPT ![c] = Idle]
    BY <1>0, <2>1, <2>2, <2>4
  <2>5. ASSUME NEW at \in {"write", "enqueue", "run"}, req' = [req EXCEPT ![c].at = at]
        PROVE  req'[c].op = req[c].op /\ req'[c].row = req[c].row
                 /\ \A d \in Clients \ {c} : req'[d] = req[d]
    BY <1>0, <2>2, <2>5 DEF Request
  <2> QED BY <2>1, <2>2, <2>3, <2>4, <2>5
<1>4. ASSUME Serve(c) \/ RequestFails(c), ~asked
      PROVE  ~state'.enabled \/ state' = state \/ req[c].row.enabled
  BY <1>4 DEF Serve, WriteState, Enqueue, SetRunActive, RequestFails, dbVars
<1>5. ASSUME Serve(c) \/ RequestFails(c), ~asked
      PROVE  \A i \in Pending' : cmds'[i].action # "start"
  <2>1. CASE UNCHANGED cmds
    BY <1>5, <2>1 DEF Unasked, Pending
  <2>2. CASE Enqueue(c)
    <3> DEFINE m == [action |-> req[c].op, config |-> req[c].row.config,
                     version |-> req[c].row.version, status |-> "pending"]
    <3>1. cmds' = Append(cmds, m) /\ req[c].op = "stop" /\ req[c] \in Request
      BY <1>0, <1>5, <2>2 DEF Enqueue, Unasked, Row
    <3>2. m \in Command /\ m.status = "pending" /\ m.action = "stop"
      BY <3>1 DEF Command, Request, State
    <3> HIDE DEF m
    <3>3. /\ Pending' = Pending \cup {Len(cmds) + 1} /\ cmds'[Len(cmds) + 1] = m
          /\ \A i \in 1 .. Len(cmds) : cmds'[i] = cmds[i]
          /\ Pending \subseteq 1 .. Len(cmds)
      BY <3>1, <3>2, QueueGrows, PendingInQueue DEF Base
    <3> QED BY <1>5, <3>2, <3>3 DEF Unasked
  <2> QED BY <1>5, <2>1, <2>2 DEF Serve, WriteState, SetRunActive, RequestFails, dbVars
<1>6. ASSUME Serve(c) \/ RequestFails(c)
      PROVE  Unasked'
  <2> SUFFICES ASSUME ~asked
               PROVE  Unasked'
    BY <1>3, <1>6 DEF Unasked
  <2>1. ~trading' /\ ep' = ep
    BY <1>3, <1>6 DEF Unasked, engineVars
  <2>2. \A d \in Clients : req'[d].op # "start"
    BY <1>3, <1>6 DEF Unasked
  <2>3. ASSUME ep \notin {"down", "startup", "clear"}
        PROVE  ~state'.enabled /\ \A d \in Clients : ~req'[d].row.enabled
    <3>1. ~state.enabled /\ \A d \in Clients : ~req[d].row.enabled
      BY <2>3 DEF Unasked
    <3>2. ~state'.enabled
      BY <1>4, <1>6, <3>1
    <3>3. \A d \in Clients : ~req'[d].row.enabled
      BY <1>3, <1>6, <3>1
    <3> QED BY <3>2, <3>3
  <2> QED BY <1>5, <1>6, <2>1, <2>2, <2>3 DEF Unasked
<1> QED BY <1>1, <1>2, <1>6

\* The engine keeps it: the boot switches the flag off, and only a start switches trading on.
LEMMA UnaskedByEngine ==
  ASSUME QuietBoot, MaxFaults = 0, Base, Quiet, Unasked, Boot \/ Engine \/ Crash
  PROVE  Unasked'
<1>0. faults = 0 /\ state.enabled \in BOOLEAN
  BY DEF Base, TypeOK, State
<1>1. CASE Boot
  <2>1. ~asked' => \A i \in Pending : cmds[i].action # "start"
    BY <1>1, Zenon DEF Boot
  <2>2. ep' = "startup" /\ trading' = FALSE /\ UNCHANGED <<dbVars, req>>
          /\ \A c \in Clients : req[c] = Idle
    BY <1>1 DEF Boot, Serving
  <2> QED BY <2>1, <2>2 DEF Unasked, Pending, dbVars, Idle
<1>2. CASE SyncOnStartup
  <2>1. phase = "boot" /\ \A c \in Clients : ~req[c].row.enabled
    BY <1>2, EmptyConfigs DEF SyncOnStartup, Base, Places, Quiet
  <2> QED BY <1>2, <2>1 DEF SyncOnStartup, Unasked, Pending, dbVars
<1>3. CASE ClearEnabled
  <2>1. phase = "boot" /\ \A c \in Clients : ~req[c].row.enabled
    BY <1>3, EmptyConfigs DEF ClearEnabled, Base, Places, Quiet
  <2>2. ~state'.enabled
    BY <1>0, <1>3 DEF ClearEnabled, Base, TypeOK, State
  <2> QED BY <1>3, <2>1, <2>2 DEF ClearEnabled, Unasked, Pending
<1>4. CASE SyncRunStatus
  BY <1>4 DEF SyncRunStatus, Unasked, Pending
<1>5. CASE ProcessCommand
  <2>1. cur' \in Pending
    BY <1>5, ClaimIsFirst DEF ProcessCommand, Base
  <2>2. ~asked => trading' = FALSE
    BY <1>5, <2>1 DEF ProcessCommand, Unasked
  <2> QED BY <1>5, <2>2 DEF ProcessCommand, Unasked, Pending, dbVars
<1>6. CASE MarkDone
  <2>1. Pending' \subseteq Pending /\ \A i \in Pending : cmds'[i].action = cmds[i].action
    BY <1>6, QueueServed, PendingInQueue DEF Base
  <2> QED BY <1>6, <2>1 DEF MarkDone, Unasked
<1>7. CASE CommandFails
  BY <1>0, <1>7 DEF CommandFails
<1>8. CASE NoCommand
  BY <1>8 DEF NoCommand, Unasked, Pending
<1>9. CASE Poll
  BY <1>9 DEF Poll, Unasked, Pending, dbVars
<1>10. CASE SyncConfigVersion
  <2>1. ~asked => trading' = FALSE
    BY <1>0, <1>10 DEF SyncConfigVersion, Unasked
  <2> QED BY <1>10, <2>1 DEF SyncConfigVersion, Unasked, Pending, dbVars
<1>11. CASE Crash
  BY <1>11 DEF Crash, Forget, Unasked, Pending
<1> QED BY <1>1, <1>2, <1>3, <1>4, <1>5, <1>6, <1>7, <1>8, <1>9, <1>10, <1>11 DEF Engine

\* After a restart the engine trades only if a start is asked for or was still waiting: the
\* stored flag never switches it on.  No request may run while the engine boots, and nothing fail.
THEOREM NeverUnasked ==
  ASSUME QuietBoot, MaxFaults = 0
  PROVE  Spec => []BootForcedOff
<1>1. Init => Quiet /\ Unasked
  <2> SUFFICES ASSUME Init PROVE Quiet /\ Unasked
    OBVIOUS
  <2>1. ~trading /\ Pending = {} /\ \A c \in Clients : req[c].op # "start"
    BY DEF Init, Pending, Idle
  <2> QED BY <2>1 DEF Init, Quiet, Unasked
<1>2. Base /\ Quiet /\ Unasked /\ [Next]_vars => Quiet' /\ Unasked'
  <2>1. ASSUME Unasked, UNCHANGED vars
        PROVE  Unasked'
    BY <2>1 DEF vars, dbVars, engineVars, Unasked, Pending
  <2> QED BY <2>1, QuietStep, UnaskedByRequests, UnaskedByEngine DEF Next
<1>3. Unasked => BootForcedOff
  BY DEF Unasked, BootForcedOff
<1> QED BY <1>1, <1>2, <1>3, BaseHolds, PTL DEF Spec

-----------------------------------------------------------------------------
(* A stop holds *)

\* One client at a time, which starts and stops.
Solo == Clients # {} /\ (\A c, d \in Clients : c = d) /\ "save" \notin Ops

\* Commands are served in the order of the queue.
Fifo == \A i, j \in DOMAIN cmds : i < j /\ i \in Pending => j \in Pending

Asking ==
  \A c \in Clients : req[c].op # "save" /\ (req[c].op = "start" => req[c].row.version > 0)

LastStart(i) ==
  /\ i \in DOMAIN cmds /\ cmds[i].action = "start"
  /\ \A j \in DOMAIN cmds : j > i => cmds[j].action = "stop"

\* An engine that has taken the start knows its version.
Heard(i) ==
  ep \notin {"down", "startup"} /\ (i \notin Pending \/ cur = i) => last = state.version

\* A stored flag that is on came with the last start of the queue, and the engine that served
\* that start will not take the flag for news.
Told ==
  faults = 0 /\ state.enabled =>
    /\ state.version > 0
    /\ \A c \in Clients :
         /\ ~(req[c].op = "stop" /\ req[c].at = "enqueue" /\ req[c].row = NoState)
         /\ IF req[c].op = "start" /\ req[c].at = "enqueue"
            THEN state.version = req[c].row.version
            ELSE \E i \in DOMAIN cmds :
                   LastStart(i) /\ cmds[i].version = state.version /\ Heard(i)

\* The stop is queued, or complete.
Stopping(c) ==
  \/ req[c].op = "stop" /\ req[c].at \in {"write", "run"}
  \/ req[c] = Idle /\ pressed = "stop"

\* From then on it is the last command, and an engine that trades has yet to come to it.
Stopped ==
  \A c \in Clients : faults = 0 /\ Stopping(c) =>
    /\ Len(cmds) > 0 /\ cmds[Len(cmds)].action = "stop"
    /\ trading => Len(cmds) \in Pending /\ cur # Len(cmds)
    /\ req[c].at # "write" => ~state.enabled

\* The oldest is served first and new ones come last.
LEMMA FifoStep ==
  ASSUME Base, Fifo, [Next]_vars
  PROVE  Fifo'
<1>0. cmds \in Seq(Command) /\ Len(cmds) \in Nat /\ DOMAIN cmds = 1 .. Len(cmds)
  BY DEF Base, TypeOK
<1>1. CASE UNCHANGED cmds
  BY <1>1 DEF Fifo, Pending
<1>2. ASSUME NEW c \in Clients, Enqueue(c)
      PROVE  Fifo'
  <2> DEFINE m == [action |-> req[c].op, config |-> req[c].row.config,
                   version |-> req[c].row.version, status |-> "pending"]
  <2>1. cmds' = Append(cmds, m) /\ req[c].op \in {"start", "stop"} /\ req[c] \in Request
    BY <1>2 DEF Enqueue, Base, TypeOK
  <2>2. m \in Command /\ m.status = "pending"
    BY <2>1 DEF Command, Request, State
  <2> HIDE DEF m
  <2>3. /\ Pending' = Pending \cup {Len(cmds) + 1} /\ Pending \subseteq 1 .. Len(cmds)
        /\ DOMAIN cmds' = 1 .. Len(cmds) + 1
    <3>1. cmds' \in Seq(Command) /\ Len(cmds') = Len(cmds) + 1
            /\ Pending' = Pending \cup {Len(cmds) + 1}
      BY <2>1, <2>2, QueueGrows DEF Base
    <3> QED BY <3>1, PendingInQueue DEF Base
  <2> QED BY <1>0, <2>3 DEF Fifo
<1>3. CASE MarkDone
  <2>1. /\ Pending' = Pending \ {cur} /\ cur \in Pending /\ \A i \in Pending : cur <= i
        /\ DOMAIN cmds' = 1 .. Len(cmds) /\ Pending \in SUBSET Nat
    BY <1>0, <1>3, QueueServed, PendingInQueue DEF Base, Places, MarkDone
  <2> QED BY <1>0, <2>1 DEF Fifo
<1>4. ASSUME ~UNCHANGED cmds
      PROVE  MarkDone \/ \E c \in Clients : Enqueue(c)
  BY <1>4 DEF Next, vars, dbVars, BeginSave, BeginStop, Serve, WriteState, SetRunActive,
       RequestFails, Boot, Engine, SyncOnStartup, ClearEnabled, SyncRunStatus, ProcessCommand,
       CommandFails, NoCommand, Poll, SyncConfigVersion, Crash
<1> QED BY <1>1, <1>2, <1>3, <1>4

\* A request never saves, and a start raises the version.
LEMMA AskingStep ==
  ASSUME Solo, Base, Asking, [Next]_vars
  PROVE  Asking'
<1>0. req \in [Clients -> Request] /\ Idle.op = "none"
  BY DEF Base, TypeOK, Idle
<1>1. ASSUME NEW c \in Clients, NEW op \in Ops, NEW k \in Keys, BeginSave(c, op, k)
      PROVE  Asking'
  <2> DEFINE r == [op |-> op, at |-> "write",
                   row |-> [config |-> [state.config EXCEPT ![k] = requests + 1],
                            version |-> NextVersion(state),
                            enabled |-> (op = "start") \/ state.enabled]]
  <2>1. op = "start" /\ req' = [req EXCEPT ![c] = r]
    BY <1>1 DEF BeginSave, Solo
  <2>2. r.op = op /\ r.row.version > 0
    BY DEF NextVersion, Base, TypeOK, State
  <2> HIDE DEF r
  <2>3. \A d \in Clients : req'[d] = (IF d = c THEN r ELSE req[d])
    BY <1>0, <2>1
  <2> QED BY <2>1, <2>2, <2>3 DEF Asking
<1>2. ASSUME NEW c \in Clients, BeginStop(c)
      PROVE  Asking'
  <2>1. \A d \in Clients : req'[d] = req[d] \/ req'[d].op = "stop"
    BY <1>0, <1>2 DEF BeginStop
  <2> QED BY <2>1 DEF Asking
<1>3. ASSUME NEW c \in Clients, Serve(c) \/ RequestFails(c)
      PROVE  Asking'
  <2>1. req' = [req EXCEPT ![c] = Idle]
          \/ \E at \in {"write", "enqueue", "run"} : req' = [req EXCEPT ![c].at = at]
    BY <1>3 DEF Serve, WriteState, Enqueue, SetRunActive, RequestFails, Finish, Continue
  <2>2. \A d \in Clients : req'[d] = Idle \/ (req'[d].op = req[d].op /\ req'[d].row = req[d].row)
    BY <1>0, <2>1 DEF Request
  <2> QED BY <1>0, <2>2 DEF Asking
<1>4. CASE Boot \/ Engine \/ Crash \/ UNCHANGED vars
  <2>1. req' = req
    BY <1>4 DEF vars, Boot, Engine, SyncOnStartup, ClearEnabled, SyncRunStatus, ProcessCommand,
         MarkDone, CommandFails, NoCommand, Poll, SyncConfigVersion, Crash
  <2> QED BY <2>1 DEF Asking
<1> QED BY <1>1, <1>2, <1>3, <1>4 DEF Next

\* Where a queued command goes.
LEMMA EnqueueGrows ==
  ASSUME Base, NEW c \in Clients, Enqueue(c)
  PROVE  LET n == Len(cmds) + 1 IN
           /\ n \in Nat /\ DOMAIN cmds = 1 .. Len(cmds) /\ DOMAIN cmds' = 1 .. n /\ Len(cmds') = n
           /\ Pending' = Pending \cup {n} /\ Pending \subseteq 1 .. Len(cmds) /\ cur < n
           /\ \A i \in 1 .. Len(cmds) : cmds'[i] = cmds[i]
           /\ cmds'[n].action = req[c].op /\ cmds'[n].version = req[c].row.version
           /\ req[c].op \in {"start", "stop"}
<1> DEFINE m == [action |-> req[c].op, config |-> req[c].row.config,
                 version |-> req[c].row.version, status |-> "pending"]
<1>1. cmds' = Append(cmds, m) /\ req[c].op \in {"start", "stop"} /\ req[c] \in Request
  BY DEF Enqueue, Base, TypeOK
<1>2. /\ m \in Command /\ m.status = "pending" /\ m.action = req[c].op
      /\ m.version = req[c].row.version
  BY <1>1 DEF Command, Request, State
<1> HIDE DEF m
<1>3. cmds \in Seq(Command) /\ Len(cmds) \in Nat /\ cur \in 0 .. Len(cmds)
  BY DEF Base, TypeOK
<1> QED BY <1>1, <1>2, <1>3, QueueGrows, PendingInQueue DEF Base

\* The last start stays the one the flag came with, while the client goes on.
LEMMA ToldByRequests ==
  ASSUME Solo, Base, Asking, Told, NEW c \in Clients,
         \/ \E op \in Ops, k \in Keys : BeginSave(c, op, k)
         \/ BeginStop(c) \/ Serve(c) \/ RequestFails(c)
  PROVE  Told'
<1>0. /\ req \in [Clients -> Request] /\ req[c] \in Request /\ req[c].row \in State
      /\ Idle.op = "none" /\ \A d \in Clients : d = c
  BY DEF Base, TypeOK, Idle, Request, Solo
<1>1. ASSUME NEW op \in Ops, NEW k \in Keys, BeginSave(c, op, k)
      PROVE  Told'
  <2>1. /\ req[c] = Idle /\ req'[c].op = "start" /\ req'[c].at = "write"
        /\ UNCHANGED <<dbVars, engineVars, faults>>
    BY <1>0, <1>1 DEF BeginSave, NewRequest, Solo
  <2> QED BY <1>0, <2>1 DEF Told, LastStart, Heard, Pending, dbVars, engineVars
<1>2. CASE BeginStop(c)
  <2>1. /\ req[c] = Idle /\ req'[c].op = "stop" /\ req'[c].row = [state EXCEPT !.enabled = FALSE]
        /\ UNCHANGED <<dbVars, engineVars, faults>>
    BY <1>0, <1>2 DEF BeginStop, NewRequest
  <2>2. req'[c].row = NoState => state.version = 0
    BY <2>1 DEF NoState, Base, TypeOK, State
  <2> QED BY <1>0, <2>1, <2>2 DEF Told, LastStart, Heard, Pending, dbVars, engineVars
<1>3. CASE WriteState(c)
  <2>1. state' = req[c].row /\ UNCHANGED faults
    BY <1>3 DEF WriteState, boundVars
  <2>2. CASE req[c].op = "start"
    <3>1. req'[c].op = "start" /\ req'[c].at = "enqueue" /\ req'[c].row = req[c].row
      BY <1>0, <1>3, <2>2 DEF WriteState, Continue, Request
    <3>2. req[c].row.version > 0
      BY <2>2 DEF Asking
    <3> QED BY <1>0, <2>1, <3>1, <3>2 DEF Told
  <2>3. CASE req[c].op = "stop"
    <3>1. ~state'.enabled
      BY <2>1, <2>3 DEF Base, Rows, Row
    <3> QED BY <3>1 DEF Told
  <2> QED BY <1>3, <2>2, <2>3 DEF WriteState, Asking
<1>4. CASE Enqueue(c)
  <2>1. UNCHANGED <<state, engineVars, faults>> /\ req[c].at = "enqueue"
    BY <1>4 DEF Enqueue, boundVars
  <2>0. PICK n \in Nat : n = Len(cmds) + 1
    BY DEF Base, TypeOK
  <2>2. /\ n \in Nat /\ DOMAIN cmds = 1 .. Len(cmds) /\ DOMAIN cmds' = 1 .. n /\ Len(cmds) \in Nat
        /\ Pending' = Pending \cup {n} /\ Pending \subseteq 1 .. Len(cmds) /\ cur < n
        /\ \A i \in 1 .. Len(cmds) : cmds'[i] = cmds[i]
        /\ cmds'[n].action = req[c].op /\ cmds'[n].version = req[c].row.version
        /\ req[c].op \in {"start", "stop"}
    BY <1>4, <2>0, EnqueueGrows DEF Base, TypeOK
  <2>3. req'[c].at \in {"run", "write", "idle"}
    <3>1. CASE req' = [req EXCEPT ![c] = Idle]
      BY <1>0, <3>1 DEF Idle
    <3>2. ASSUME NEW at \in {"run", "write"}, req' = [req EXCEPT ![c].at = at]
          PROVE  req'[c].at = at
      BY <1>0, <3>2 DEF Request
    <3> QED BY <1>4, <3>1, <3>2 DEF Enqueue, Continue, Finish
  <2> SUFFICES ASSUME faults = 0, state.enabled
               PROVE  Told'
    BY <2>1 DEF Told
  <2>4. CASE req[c].op = "start"
    <3>1. n \in DOMAIN cmds' /\ LastStart(n)'
      BY <2>0, <2>2, <2>4 DEF LastStart
    <3>2. cmds'[n].version = state.version /\ state.version > 0
      BY <2>1, <2>2, <2>4 DEF Told
    <3>3. Heard(n)'
      <4>1. cur' = cur /\ cur \in Nat /\ n \in Pending'
        BY <2>1, <2>2 DEF engineVars, Base, TypeOK
      <4>2. cur' # n
        BY <2>2, <4>1
      <4> QED BY <4>1, <4>2 DEF Heard
    <3> QED BY <1>0, <2>1, <2>3, <3>1, <3>2, <3>3 DEF Told
  <2>5. CASE req[c].op = "stop"
    <3>1. PICK i \in DOMAIN cmds : LastStart(i) /\ cmds[i].version = state.version /\ Heard(i)
      BY <2>5 DEF Told
    <3>2. i \in DOMAIN cmds' /\ LastStart(i)' /\ cmds'[i].version = state.version
      BY <2>0, <2>2, <2>5, <3>1 DEF LastStart
    <3>3. Heard(i)'
      <4>1. i \in Pending' <=> i \in Pending
        BY <2>0, <2>2, <3>1
      <4> QED BY <2>1, <3>1, <4>1 DEF Heard, engineVars
    <3>4. state.version > 0
      BY DEF Told
    <3> QED BY <1>0, <2>1, <2>3, <3>2, <3>3, <3>4 DEF Told
  <2> QED BY <2>2, <2>4, <2>5
<1>5. CASE SetRunActive(c)
  <2>1. req[c].at = "run" /\ req'[c] = Idle /\ UNCHANGED <<state, cmds, engineVars, faults>>
    BY <1>0, <1>5 DEF SetRunActive, Finish, boundVars
  <2> QED BY <1>0, <2>1 DEF Told, LastStart, Heard, Pending, engineVars
<1>6. CASE RequestFails(c)
  BY <1>6 DEF RequestFails, Told, Base, TypeOK
<1> QED BY <1>1, <1>2, <1>3, <1>4, <1>5, <1>6 DEF Serve

\* The engine that takes the last start hears its version.
LEMMA ToldByEngine ==
  ASSUME Base, Fifo, Told, Boot \/ Engine \/ Crash
  PROVE  Told'
<1>0. DOMAIN cmds = 1 .. Len(cmds) /\ Len(cmds) \in Nat /\ faults \in Nat
        /\ Pending \in SUBSET Nat /\ Pending \subseteq DOMAIN cmds
  BY PendingInQueue DEF Base, TypeOK
<1>1. ASSUME UNCHANGED <<state, req, faults>>, DOMAIN cmds' = DOMAIN cmds,
             \A i \in DOMAIN cmds :
               cmds'[i].action = cmds[i].action /\ cmds'[i].version = cmds[i].version,
             \A i \in DOMAIN cmds :
               LastStart(i) /\ cmds[i].version = state.version /\ Heard(i) => Heard(i)'
      PROVE  Told'
  <2>1. \A i \in DOMAIN cmds : LastStart(i) => LastStart(i)'
    BY <1>1 DEF LastStart
  <2> QED BY <1>1, <2>1 DEF Told
<1>2. CASE Boot \/ Crash
  <2>1. UNCHANGED <<state, req, faults, cmds>> /\ ep' \in {"down", "startup"}
    BY <1>2 DEF Boot, Crash, Forget, dbVars, boundVars
  <2> QED BY <1>1, <2>1 DEF Heard
<1>3. CASE SyncOnStartup
  <2>1. UNCHANGED <<state, req, faults, cmds>> /\ last' = state.version
    BY <1>3 DEF SyncOnStartup, dbVars, boundVars
  <2> QED BY <1>1, <2>1 DEF Heard
<1>4. CASE ClearEnabled
  <2>1. ~state'.enabled \/ faults' # 0
    BY <1>0, <1>4 DEF ClearEnabled, Base, TypeOK, State
  <2> QED BY <2>1 DEF Told
<1>5. CASE SyncRunStatus
  <2>1. faults' # 0 \/ UNCHANGED faults
    BY <1>0, <1>5 DEF SyncRunStatus
  <2>2. UNCHANGED <<state, req, cmds, last, cur>> /\ ep = "status"
    BY <1>5 DEF SyncRunStatus
  <2>3. CASE faults' # 0
    BY <2>3 DEF Told
  <2>4. CASE UNCHANGED faults
    BY <1>1, <2>2, <2>4 DEF Heard, Pending
  <2> QED BY <2>1, <2>3, <2>4
<1>6. CASE ProcessCommand
  <2>1. /\ cur' \in Pending /\ \A j \in Pending : cur' <= j
        /\ UNCHANGED <<state, req, faults, cmds>> /\ ep = "claim"
    BY <1>6, ClaimIsFirst DEF ProcessCommand, Base, dbVars, boundVars
  <2>2. cmds[cur'].action = "start" => last' = cmds[cur'].version
    BY <1>6 DEF ProcessCommand, ApplyStart
  <2>3. cmds[cur'].action # "start" => last' = last
    BY <1>6 DEF ProcessCommand
  <2>4. ASSUME NEW i \in DOMAIN cmds, LastStart(i), cmds[i].version = state.version, Heard(i)
        PROVE  Heard(i)'
    <3>1. CASE cur' = i
      BY <2>1, <2>2, <2>4, <3>1 DEF Heard, LastStart
    <3>2. CASE cur' # i /\ i \notin Pending
      <4>1. last = state.version
        BY <2>1, <2>4, <3>2 DEF Heard
      <4>2. ~(cur' < i)
        BY <1>0, <2>1, <3>2 DEF Fifo
      <4>3. cur' > i /\ cur' \in DOMAIN cmds
        BY <1>0, <2>1, <3>2, <4>2
      <4>4. cmds[cur'].action = "stop"
        BY <2>4, <4>3 DEF LastStart
      <4> QED BY <2>1, <2>3, <4>1, <4>4 DEF Heard
    <3>3. CASE cur' # i /\ i \in Pending
      BY <2>1, <3>3 DEF Heard, Pending
    <3> QED BY <3>1, <3>2, <3>3
  <2> QED BY <1>1, <2>1, <2>4
<1>7. CASE MarkDone
  <2>1. /\ cmds' \in Seq(Command) /\ Len(cmds') = Len(cmds) /\ cur \in 1 .. Len(cmds)
        /\ Pending' = Pending \ {cur}
        /\ \A i \in 1 .. Len(cmds) :
             cmds'[i].action = cmds[i].action /\ cmds'[i].version = cmds[i].version
    BY <1>7, QueueServed
  <2>2. UNCHANGED <<state, req, faults, last>> /\ ep \in {"markDone", "markFailed"} /\ cur' = 0
    BY <1>7 DEF MarkDone, boundVars
  <2>3. ASSUME NEW i \in DOMAIN cmds, Heard(i)
        PROVE  Heard(i)'
    BY <1>0, <2>1, <2>2, <2>3 DEF Heard
  <2>4. DOMAIN cmds' = DOMAIN cmds
    BY <1>0, <2>1
  <2> QED BY <1>0, <1>1, <2>1, <2>2, <2>3, <2>4
<1>8. CASE CommandFails
  BY <1>0, <1>8 DEF CommandFails, Told
<1>9. CASE NoCommand
  <2>1. UNCHANGED <<state, req, faults, cmds, last, cur>> /\ ep = "claim"
    BY <1>9 DEF NoCommand, boundVars
  <2> QED BY <1>1, <2>1 DEF Heard, Pending
<1>10. CASE Poll
  <2>1. UNCHANGED <<state, req, faults, cmds, last, cur>> /\ ep = "tick"
    BY <1>10 DEF Poll, dbVars, boundVars
  <2> QED BY <1>1, <2>1 DEF Heard, Pending
<1>11. CASE SyncConfigVersion
  <2>1. UNCHANGED <<state, req, faults, cmds, cur>> /\ ep = "config"
    BY <1>11 DEF SyncConfigVersion, dbVars, boundVars
  <2>2. last' = last \/ last' = state.version
    BY <1>11 DEF SyncConfigVersion
  <2> QED BY <1>1, <2>1, <2>2 DEF Heard, Pending
<1> QED BY <1>2, <1>3, <1>4, <1>5, <1>6, <1>7, <1>8, <1>9, <1>10, <1>11 DEF Engine

\* A stop puts itself last in the queue, then takes the flag away.
LEMMA StoppedByRequests ==
  ASSUME Solo, Base, Asking, Told, Stopped, NEW c \in Clients,
         \/ \E op \in Ops, k \in Keys : BeginSave(c, op, k)
         \/ BeginStop(c) \/ Serve(c) \/ RequestFails(c)
  PROVE  Stopped'
<1>0. /\ req \in [Clients -> Request] /\ req[c] \in Request /\ req[c].row \in State
      /\ Idle.op = "none" /\ Idle.at = "idle" /\ \A d \in Clients : d = c
  BY DEF Base, TypeOK, Idle, Request, Solo
<1>1. CASE BeginStop(c) \/ \E op \in Ops, k \in Keys : BeginSave(c, op, k)
  <2>1. /\ req'[c].op = "start" \/ (req'[c].op = "stop" /\ req'[c].at = "enqueue")
    BY <1>0, <1>1 DEF BeginSave, BeginStop, Solo
  <2> QED BY <1>0, <2>1 DEF Stopped, Stopping
<1>2. CASE RequestFails(c)
  BY <1>2 DEF RequestFails, Stopped, Base, TypeOK
<1>3. ASSUME Serve(c), req[c].op # "stop"
      PROVE  Stopped'
  <2>1. /\ req[c].op = "start"
        /\ \/ req'[c] = Idle /\ pressed' = "start"
           \/ req'[c].op = "start"
    <3>1. req[c].op = "start"
      BY <1>0, <1>3 DEF Serve, WriteState, Enqueue, SetRunActive, Base, Rows, Row, Asking, Request, Idle
    <3>2. CASE Finish(c)
      BY <1>0, <3>1, <3>2 DEF Finish
    <3>3. ASSUME NEW at \in {"write", "enqueue", "run"}, Continue(c, at)
          PROVE  req'[c].op = "start"
      BY <1>0, <3>1, <3>3 DEF Continue, Request
    <3> QED BY <1>3, <3>1, <3>2, <3>3 DEF Serve, WriteState, Enqueue, SetRunActive
  <2> QED BY <1>0, <2>1 DEF Stopped, Stopping
<1>4. ASSUME WriteState(c), req[c].op = "stop"
      PROVE  Stopped'
  <2>1. state' = req[c].row /\ UNCHANGED <<cmds, engineVars, faults>> /\ req[c].at = "write"
    BY <1>4 DEF WriteState, boundVars
  <2>2. ~state'.enabled
    BY <1>4, <2>1 DEF Base, Rows, Row
  <2> QED BY <1>0, <1>4, <2>1, <2>2 DEF Stopped, Stopping, Pending, engineVars
<1>5. ASSUME SetRunActive(c), req[c].op = "stop"
      PROVE  Stopped'
  <2>1. UNCHANGED <<state, cmds, engineVars, faults>> /\ req[c].at = "run"
    BY <1>5 DEF SetRunActive, boundVars
  <2> QED BY <1>0, <1>5, <2>1 DEF Stopped, Stopping, Pending, engineVars
<1>6. ASSUME Enqueue(c), req[c].op = "stop"
      PROVE  Stopped'
  <2>1. UNCHANGED <<state, engineVars, faults>> /\ req[c].at = "enqueue"
    BY <1>6 DEF Enqueue, boundVars
  <2>2. /\ Len(cmds') > 0 /\ cmds'[Len(cmds')].action = "stop"
        /\ Len(cmds') \in Pending' /\ cur' # Len(cmds')
    <3>1. PICK n \in Nat : n = Len(cmds) + 1
      BY DEF Base, TypeOK
    <3>2. Len(cmds') = n /\ n \in Pending' /\ cmds'[n].action = "stop" /\ cur < n /\ cur \in Nat
            /\ Len(cmds) \in Nat
      BY <1>6, <3>1, EnqueueGrows DEF Base, TypeOK
    <3> QED BY <2>1, <3>1, <3>2 DEF engineVars
  <2>3. faults = 0 /\ req'[c].at # "write" => ~state'.enabled
    <3>1. req[c].row # NoState => req'[c].at = "write"
      BY <1>0, <1>6 DEF Enqueue, Continue, Request
    <3>2. faults = 0 /\ req[c].row = NoState => ~state.enabled
      BY <1>6, <2>1 DEF Told
    <3> QED BY <2>1, <3>1, <3>2
  <2> QED BY <1>0, <2>1, <2>2, <2>3 DEF Stopped
<1> QED BY <1>1, <1>2, <1>3, <1>4, <1>5, <1>6 DEF Serve

\* The engine trades no more once it has come to the stop: the flag, if it is still on, is no
\* news to it by then.
LEMMA StoppedByEngine ==
  ASSUME Base, Fifo, Told, Stopped, Boot \/ Engine \/ Crash
  PROVE  Stopped'
<1>0. DOMAIN cmds = 1 .. Len(cmds) /\ Len(cmds) \in Nat /\ faults \in Nat
        /\ Pending \in SUBSET Nat /\ Pending \subseteq DOMAIN cmds
  BY PendingInQueue DEF Base, TypeOK
<1>1. ASSUME UNCHANGED <<cmds, req, pressed>>, faults' = 0 => faults = 0,
             faults' = 0 /\ state'.enabled => state.enabled,
             faults' = 0 /\ trading' /\ (\E c \in Clients : Stopping(c))
               => Len(cmds) \in Pending /\ cur' # Len(cmds)
      PROVE  Stopped'
  BY <1>1 DEF Stopped, Stopping, Pending
<1>2. CASE Boot \/ Crash \/ SyncOnStartup
  BY <1>1, <1>2 DEF Boot, Crash, Forget, SyncOnStartup, dbVars, boundVars
<1>3. CASE ClearEnabled
  <2>1. ~state'.enabled \/ faults' # 0
    BY <1>0, <1>3 DEF ClearEnabled, Base, TypeOK, State
  <2>2. UNCHANGED <<cmds, req, pressed, trading, cur>> /\ (faults' = 0 => faults = 0)
    BY <1>0, <1>3 DEF ClearEnabled
  <2> QED BY <1>1, <2>1, <2>2 DEF Stopped
<1>4. CASE SyncRunStatus \/ NoCommand \/ Poll
  <2>1. UNCHANGED <<state, cmds, req, pressed, trading, cur>> /\ (faults' = 0 => faults = 0)
    BY <1>0, <1>4 DEF SyncRunStatus, NoCommand, Poll, dbVars, boundVars
  <2> QED BY <1>1, <2>1 DEF Stopped
<1>5. CASE ProcessCommand
  <2>1. /\ cur' \in Pending /\ UNCHANGED <<state, req, pressed, faults, cmds>>
    BY <1>5, ClaimIsFirst DEF ProcessCommand, Base, dbVars, boundVars
  <2>2. trading' => cmds[cur'].action = "start"
    BY <1>5 DEF ProcessCommand
  <2>3. ASSUME faults = 0, trading', NEW c \in Clients, Stopping(c)
        PROVE  Len(cmds) \in Pending /\ cur' # Len(cmds)
    <3>1. cmds[Len(cmds)].action = "stop" /\ Len(cmds) > 0
      BY <2>3 DEF Stopped
    <3>2. cur' # Len(cmds)
      BY <2>2, <2>3, <3>1
    <3>3. cur' \in DOMAIN cmds /\ Len(cmds) \in DOMAIN cmds /\ cur' < Len(cmds)
      BY <1>0, <2>1, <3>1, <3>2
    <3> QED BY <2>1, <3>2, <3>3 DEF Fifo
  <2> QED BY <1>1, <2>1, <2>3
<1>6. CASE MarkDone
  <2>1. /\ Len(cmds') = Len(cmds) /\ Pending' = Pending \ {cur}
        /\ \A i \in 1 .. Len(cmds) : cmds'[i].action = cmds[i].action
    BY <1>6, QueueServed
  <2>2. UNCHANGED <<state, req, pressed, trading, faults>> /\ cur' = 0
    BY <1>6 DEF MarkDone, boundVars
  <2>3. ASSUME NEW c \in Clients, faults = 0, Stopping(c)
        PROVE  /\ Len(cmds) > 0 /\ cmds'[Len(cmds)].action = "stop"
               /\ trading => Len(cmds) \in Pending' /\ cur' # Len(cmds)
               /\ req[c].at # "write" => ~state.enabled
    <3>1. /\ Len(cmds) > 0 /\ cmds[Len(cmds)].action = "stop"
          /\ trading => Len(cmds) \in Pending /\ cur # Len(cmds)
          /\ req[c].at # "write" => ~state.enabled
      BY <2>3 DEF Stopped
    <3> QED BY <1>0, <2>1, <2>2, <3>1
  <2> QED BY <2>1, <2>2, <2>3 DEF Stopped, Stopping
<1>7. CASE CommandFails
  BY <1>0, <1>7 DEF CommandFails, Stopped
<1>8. CASE SyncConfigVersion
  <2>1. UNCHANGED <<state, req, pressed, faults, cmds, cur>> /\ ep = "config" /\ cur = 0
    BY <1>8 DEF SyncConfigVersion, dbVars, boundVars, Base, Places
  <2>2. CASE UNCHANGED trading
    BY <1>1, <2>1, <2>2 DEF Stopped
  <2>3. CASE state.version # last /\ trading' = state.enabled
    <3>1. ASSUME faults = 0, trading', NEW c \in Clients, Stopping(c)
          PROVE  Len(cmds) \in Pending /\ cur # Len(cmds)
      <4>1. Len(cmds) > 0 /\ state.enabled
        BY <2>3, <3>1 DEF Stopped
      <4>2. ~(req[c].op = "start" /\ req[c].at = "enqueue")
        BY <3>1 DEF Stopping, Idle
      <4>3. PICK i \in DOMAIN cmds : LastStart(i) /\ cmds[i].version = state.version /\ Heard(i)
        BY <3>1, <4>1, <4>2 DEF Told
      <4>4. i \in Pending
        BY <2>1, <2>3, <4>3 DEF Heard
      <4>5. i <= Len(cmds) /\ Len(cmds) \in DOMAIN cmds
        BY <1>0, <4>1, <4>3
      <4>6. Len(cmds) \in Pending
        BY <1>0, <4>4, <4>5 DEF Fifo
      <4> QED BY <2>1, <4>1, <4>6
    <3> QED BY <1>1, <2>1, <3>1
  <2> QED BY <1>8, <2>2, <2>3 DEF SyncConfigVersion
<1> QED BY <1>2, <1>3, <1>4, <1>5, <1>6, <1>7, <1>8 DEF Engine

\* Once a stop is complete and acted on and nothing was asked since, the engine does not trade,
\* whatever is served while the engine boots or dies: with one client that only starts and stops.
\* A save that is under way breaks it, see the run rc_stop_race.
THEOREM StopHolds ==
  ASSUME Solo
  PROVE  Spec => []StopSticks
<1>1. Init => Fifo /\ Asking /\ Told /\ Stopped
  <2> SUFFICES ASSUME Init PROVE Fifo /\ Asking /\ Told /\ Stopped
    OBVIOUS
  <2>1. /\ DOMAIN cmds = {} /\ ~state.enabled
        /\ \A c \in Clients : req[c].op = "none" /\ ~Stopping(c)
    BY EmptyConfigs DEF Init, Idle, Stopping
  <2> QED BY <2>1 DEF Fifo, Asking, Told, Stopped
<1>2. Base /\ Fifo /\ Asking /\ Told /\ Stopped /\ [Next]_vars
        => Fifo' /\ Asking' /\ Told' /\ Stopped'
  <2>1. ASSUME Told, Stopped, UNCHANGED vars
        PROVE  Told' /\ Stopped'
    BY <2>1 DEF vars, dbVars, engineVars, boundVars, Told, Stopped, Stopping, LastStart, Heard, Pending
  <2> QED BY <2>1, FifoStep, AskingStep, ToldByRequests, ToldByEngine, StoppedByRequests,
             StoppedByEngine DEF Next
<1>3. Base /\ Stopped => StopSticks
  <2> SUFFICES ASSUME Base, Stopped, Settled, pressed = "stop", faults = 0
               PROVE  ~trading
    BY DEF StopSticks
  <2>1. PICK c \in Clients : req[c] = Idle
    BY DEF Solo, Settled, Serving
  <2> QED BY <2>1 DEF Stopped, Stopping, Settled
<1> QED BY <1>1, <1>2, <1>3, BaseHolds, PTL DEF Spec

-----------------------------------------------------------------------------
(* The version tells the configuration *)

\* Every key set in one configuration is set in the other.
Wider(a, b) == \A k \in Keys : a[k] # Unset => b[k] # Unset

\* What is on the way to the table: the next version of the row, or the row itself.
Carried(r) ==
  IF r.at = "write" /\ r.op \in {"save", "start"}
  THEN r.row.version = state.version + 1 /\ Wider(state.config, r.row.config)
  ELSE r.at \in {"write", "enqueue"} =>
         r.row.version = state.version /\ r.row.config = state.config

\* What is in the queue is not newer than the row.
Queued(m) ==
  /\ m.version <= state.version /\ Wider(m.config, state.config)
  /\ m.version = state.version => m.config = state.config

\* What the engine runs is not newer either.
Running ==
  /\ last <= state.version /\ Wider(applied, state.config)
  /\ last = state.version => applied = state.config
  /\ ep = "clear" => seen = state

Versions ==
  /\ state.version = 0 => state.config = NoConfig
  /\ \A c \in Clients : Carried(req[c])
  /\ \A i \in DOMAIN cmds : Queued(cmds[i])
  /\ Running

\* A configuration that sets every key of the other replaces it.
LEMMA OverlayReplaces ==
  ASSUME NEW a \in Config, NEW b \in Config, Wider(a, b)
  PROVE  Overlay(a, b) = b
  BY DEF Overlay, Config, Wider, Unset

\* Merging sets no key that neither of the two sets.
LEMMA OverlayWithin ==
  ASSUME NEW a \in Config, NEW b \in Config, NEW m \in Config, Wider(a, m), Wider(b, m)
  PROVE  Wider(Overlay(a, b), m)
  BY DEF Overlay, Wider

\* A row is written under the next version, and with it all that is older stays older.
LEMMA VersionsByRequests ==
  ASSUME QuietBoot, MaxFaults = 0, \A c, d \in Clients : c = d, Base, Quiet, Versions,
         NEW c \in Clients,
         \/ \E op \in Ops, k \in Keys : BeginSave(c, op, k)
         \/ BeginStop(c) \/ Serve(c) \/ RequestFails(c)
  PROVE  Versions'
<1>0. /\ req \in [Clients -> Request] /\ req[c] \in Request /\ req[c].row \in State
      /\ state \in State /\ state.version \in Nat /\ state.config \in Config
      /\ Idle.op = "none" /\ Idle.at = "idle" /\ \A d \in Clients : d = c
      /\ last \in Nat /\ requests \in Nat
  BY DEF Base, TypeOK, Idle, Request, State
<1>1. ASSUME UNCHANGED <<engineVars, cmds, state>>, Carried(req'[c])
      PROVE  Versions'
  <2>1. Carried(req[c])'
    BY <1>1 DEF Carried
  <2> QED BY <1>0, <1>1, <2>1 DEF Versions, Carried, Queued, Running, engineVars
<1>2. ASSUME NEW op \in Ops, NEW k \in Keys, BeginSave(c, op, k)
      PROVE  Versions'
  <2> DEFINE config == [state.config EXCEPT ![k] = requests + 1]
  <2>1. /\ req'[c].op \in {"save", "start"} /\ req'[c].at = "write"
        /\ req'[c].row.config = config /\ req'[c].row.version = state.version + 1
        /\ UNCHANGED <<dbVars, engineVars>>
    BY <1>0, <1>2 DEF BeginSave, NextVersion
  <2>2. Wider(state.config, config)
    BY <1>0 DEF Wider, Config, Unset
  <2> QED BY <1>1, <2>1, <2>2 DEF Carried, dbVars
<1>3. CASE BeginStop(c)
  <2>1. /\ req'[c].op = "stop" /\ req'[c].row = [state EXCEPT !.enabled = FALSE]
        /\ UNCHANGED <<dbVars, engineVars>>
    BY <1>0, <1>3 DEF BeginStop
  <2>2. req'[c].row.version = state.version /\ req'[c].row.config = state.config
    BY <1>0, <2>1 DEF State
  <2> QED BY <1>1, <2>1, <2>2 DEF Carried, dbVars
<1>4. CASE WriteState(c)
  <2>1. state' = req[c].row /\ UNCHANGED <<cmds, engineVars>> /\ req[c].at = "write"
    BY <1>4 DEF WriteState
  <2>2. ep # "clear" /\ req[c].op # "none"
    BY <1>0, <2>1 DEF Base, Places, Quiet, Rows, Row, Idle
  <2>3. \/ req'[c] = Idle
        \/ req[c].op = "start" /\ req'[c].at = "enqueue" /\ req'[c].row = req[c].row
        \/ req'[c].at = "run"
    BY <1>0, <1>4 DEF WriteState, Finish, Continue, Request
  <2>4. Carried(req[c])'
    BY <1>0, <2>1, <2>3 DEF Carried
  <2>5. CASE req[c].op = "stop"
    <3>1. state'.version = state.version /\ state'.config = state.config
      BY <2>1, <2>5 DEF Versions, Carried
    <3> QED BY <1>0, <2>1, <2>2, <2>4, <3>1 DEF Versions, Queued, Running, engineVars
  <2>6. CASE req[c].op # "stop"
    <3>1. state'.version = state.version + 1 /\ Wider(state.config, state'.config)
      BY <1>0, <2>1, <2>2, <2>6 DEF Versions, Carried, Request
    <3>2. last' = last /\ applied' = applied /\ ep' = ep /\ last <= state.version
            /\ Wider(applied, state.config)
      BY <2>1 DEF engineVars, Versions, Running
    <3>3. Running'
      BY <1>0, <2>2, <3>1, <3>2 DEF Running, Wider
    <3>4. \A i \in DOMAIN cmds : cmds[i].version \in Nat
      <4>1. cmds \in Seq(Command) /\ DOMAIN cmds = 1 .. Len(cmds)
        BY DEF Base, TypeOK
      <4>2. \A i \in DOMAIN cmds : cmds[i] \in Command
        BY <4>1, ElementOfSeq
      <4> QED BY <4>2 DEF Command
    <3>5. ASSUME NEW i \in DOMAIN cmds
          PROVE  Queued(cmds[i])'
      <4>1. Queued(cmds[i]) /\ cmds[i].version \in Nat
        BY <3>4 DEF Versions
      <4>2. cmds[i].version <= state.version /\ Wider(cmds[i].config, state.config)
        BY <4>1 DEF Queued
      <4>3. Wider(cmds[i].config, state'.config)
        BY <3>1, <4>2 DEF Wider
      <4>4. cmds[i].version < state'.version
        BY <1>0, <3>1, <4>1, <4>2
      <4> QED BY <1>0, <2>1, <3>1, <4>1, <4>3, <4>4 DEF Queued
    <3> QED BY <1>0, <2>1, <2>4, <3>1, <3>3, <3>5 DEF Versions
  <2> QED BY <2>5, <2>6
<1>5. CASE Enqueue(c)
  <2> DEFINE m == [action |-> req[c].op, config |-> req[c].row.config,
                   version |-> req[c].row.version, status |-> "pending"]
  <2>1. cmds' = Append(cmds, m) /\ UNCHANGED <<state, engineVars>> /\ req[c].at = "enqueue"
          /\ req[c].op \in {"start", "stop"}
    BY <1>5 DEF Enqueue
  <2>2. req[c].row.version = state.version /\ req[c].row.config = state.config
    BY <2>1 DEF Versions, Carried
  <2>3. m \in Command /\ m.status = "pending" /\ Queued(m)
    BY <1>0, <2>1, <2>2 DEF Command, State, Queued, Wider
  <2> HIDE DEF m
  <2>4. /\ DOMAIN cmds' = 1 .. Len(cmds) + 1 /\ cmds'[Len(cmds) + 1] = m
        /\ \A i \in 1 .. Len(cmds) : cmds'[i] = cmds[i]
        /\ DOMAIN cmds = 1 .. Len(cmds) /\ Len(cmds) \in Nat
    BY <2>1, <2>3, QueueGrows DEF Base, TypeOK
  <2>5. \A i \in DOMAIN cmds' : Queued(cmds'[i])
    BY <2>3, <2>4 DEF Versions
  <2>6. req'[c] = Idle \/ req'[c].at = "run"
          \/ (req[c].op = "stop" /\ req'[c].at = "write" /\ req'[c].op = "stop" /\ req'[c].row = req[c].row)
    BY <1>0, <1>5 DEF Enqueue, Finish, Continue, Request
  <2>7. Carried(req'[c])
    BY <1>0, <2>2, <2>6 DEF Carried
  <2> QED BY <1>0, <2>1, <2>5, <2>7 DEF Versions, Carried, Queued, Running, engineVars
<1>6. CASE SetRunActive(c)
  <2>1. req'[c] = Idle /\ UNCHANGED <<state, cmds, engineVars>>
    BY <1>0, <1>6 DEF SetRunActive, Finish
  <2> QED BY <1>0, <1>1, <2>1 DEF Carried
<1>7. CASE RequestFails(c)
  BY <1>7 DEF RequestFails, Base, TypeOK
<1> QED BY <1>2, <1>3, <1>4, <1>5, <1>6, <1>7 DEF Serve

\* The engine takes a configuration together with its version.
LEMMA VersionsByEngine ==
  ASSUME QuietBoot, MaxFaults = 0, Base, Quiet, Versions, Boot \/ Engine \/ Crash
  PROVE  Versions'
<1>0. /\ state \in State /\ state.config \in Config /\ state.version \in Nat /\ applied \in Config
      /\ last \in Nat /\ faults = 0 /\ MaxFaults = 0
      /\ cmds \in Seq(Command) /\ DOMAIN cmds = 1 .. Len(cmds)
  BY DEF Base, TypeOK, State
<1>1. ASSUME UNCHANGED <<state, req, cmds>>, Running'
      PROVE  Versions'
  BY <1>1 DEF Versions, Carried, Queued
<1>2. Wider(applied, state.config) /\ Wider(NoConfig, state.config)
  BY DEF Versions, Running, Wider, NoConfig
<1>3. Overlay(applied, state.config) = state.config /\ Overlay(NoConfig, state.config) = state.config
  BY <1>0, <1>2, OverlayReplaces, EmptyConfigs
<1>4. Wider(state.config, state.config)
  BY DEF Wider
<1>5. CASE Boot
  <2>1. UNCHANGED <<state, req, cmds>> /\ applied' = state.config /\ last' = 0 /\ ep' = "startup"
    BY <1>3, <1>5 DEF Boot, dbVars
  <2> QED BY <1>0, <1>1, <1>4, <2>1 DEF Running
<1>6. CASE SyncOnStartup
  <2>1. UNCHANGED <<state, req, cmds>> /\ applied' = state.config /\ last' = state.version
          /\ (ep' = "clear" => seen' = state)
    BY <1>3, <1>6 DEF SyncOnStartup, dbVars
  <2> QED BY <1>0, <1>1, <1>4, <2>1 DEF Running
<1>7. CASE ClearEnabled
  <2>1. seen = state
    BY <1>7 DEF ClearEnabled, Versions, Running
  <2>2. state'.version = state.version /\ state'.config = state.config
    BY <1>0, <1>7, <2>1 DEF ClearEnabled, State
  <2>3. UNCHANGED <<req, cmds, applied, last>> /\ ep' = "status"
    BY <1>7 DEF ClearEnabled
  <2> QED BY <2>2, <2>3 DEF Versions, Carried, Queued, Running
<1>8. CASE SyncRunStatus \/ NoCommand \/ Poll
  <2>1. UNCHANGED <<state, req, cmds, applied, last>> /\ ep' # "clear"
    BY <1>8 DEF SyncRunStatus, NoCommand, Poll, dbVars
  <2> QED BY <1>1, <2>1 DEF Versions, Running
<1>9. CASE ProcessCommand
  <2>1. cur' \in DOMAIN cmds /\ cmds[cur'] \in Command /\ UNCHANGED <<state, req, cmds>> /\ ep' = "status"
    BY <1>0, <1>9, ClaimIsFirst DEF ProcessCommand, Base, dbVars
  <2>2. cmds[cur'].config \in Config /\ cmds[cur'].version \in Nat
    BY <2>1 DEF Command
  <2>3. Queued(cmds[cur'])
    BY <2>1 DEF Versions
  <2>4. CASE applied' = Overlay(applied, cmds[cur'].config) /\ last' = cmds[cur'].version
    <3>1. Wider(applied', state.config)
      BY <1>0, <1>2, <2>2, <2>3, <2>4, OverlayWithin DEF Queued
    <3>2. last' <= state.version /\ (last' = state.version => applied' = state.config)
      BY <1>3, <2>3, <2>4 DEF Queued
    <3>3. Running'
      BY <2>1, <3>1, <3>2 DEF Running
    <3> QED BY <1>1, <2>1, <3>3
  <2>5. CASE UNCHANGED <<applied, last>>
    <3>1. Running'
      BY <2>1, <2>5 DEF Versions, Running
    <3> QED BY <1>1, <2>1, <3>1
  <2> QED BY <1>9, <2>4, <2>5 DEF ProcessCommand, ApplyStart
<1>10. CASE MarkDone
  <2>1. cur \in 1 .. Len(cmds) /\ Len(cmds') = Len(cmds) /\ cmds' \in Seq(Command)
    BY <1>10, QueueServed
  <2>2. DOMAIN cmds' = DOMAIN cmds
    BY <1>0, <2>1
  <2>3. \A i \in DOMAIN cmds : cmds[i] \in Command
    BY <1>0, ElementOfSeq
  <2>4. \A i \in DOMAIN cmds : cmds'[i].version = cmds[i].version /\ cmds'[i].config = cmds[i].config
    BY <1>0, <1>10, <2>1, <2>3 DEF MarkDone, Command
  <2>5. UNCHANGED <<state, req, applied, last>> /\ ep' = "claim"
    BY <1>10 DEF MarkDone
  <2> QED BY <2>2, <2>4, <2>5 DEF Versions, Carried, Queued, Running
<1>11. CASE CommandFails
  BY <1>0, <1>11 DEF CommandFails
<1>12. CASE SyncConfigVersion
  <2>1. UNCHANGED <<state, req, cmds>> /\ ep' # "clear"
          /\ (UNCHANGED <<applied, last>> \/ (applied' = state.config /\ last' = state.version))
    BY <1>3, <1>12 DEF SyncConfigVersion, dbVars
  <2>2. Running'
    BY <1>0, <1>4, <2>1 DEF Versions, Running
  <2> QED BY <1>1, <2>1, <2>2
<1>13. CASE Crash
  <2>1. UNCHANGED <<state, req, cmds>> /\ applied' = NoConfig /\ last' = 0 /\ ep' = "down"
    BY <1>13 DEF Crash, Forget
  <2>2. Running'
    BY <1>0, <1>2, <2>1 DEF Versions, Running
  <2> QED BY <1>1, <2>1, <2>2
<1> QED BY <1>5, <1>6, <1>7, <1>8, <1>9, <1>10, <1>11, <1>12, <1>13 DEF Engine

\* The version the engine remembers tells whether it runs the stored configuration, for any keys
\* and any patches: with one client, none while the engine boots, and nothing failing.  A start
\* that fails leaves its configuration in force under a later version.
THEOREM VersionsTell ==
  ASSUME QuietBoot, MaxFaults = 0, \A c, d \in Clients : c = d
  PROVE  Spec => []VersionTells
<1>1. Init => Quiet /\ Versions
  <2> SUFFICES ASSUME Init PROVE Quiet /\ Versions
    OBVIOUS
  <2>1. state = NoState /\ cmds = <<>> /\ applied = NoConfig /\ last = 0 /\ ep = "down"
          /\ \A c \in Clients : req[c] = Idle
    BY DEF Init
  <2>2. NoState.version = 0 /\ NoState.config = NoConfig /\ Idle.at = "idle"
    BY DEF NoState, Idle
  <2>3. Wider(NoConfig, NoConfig)
    BY DEF Wider
  <2> QED BY <2>1, <2>2, <2>3 DEF Quiet, Versions, Carried, Running
<1>2. Base /\ Quiet /\ Versions /\ [Next]_vars => Versions'
  <2>1. ASSUME Versions, UNCHANGED vars
        PROVE  Versions'
    BY <2>1 DEF vars, dbVars, engineVars, Versions, Carried, Queued, Running
  <2> QED BY <2>1, VersionsByRequests, VersionsByEngine DEF Next
<1>3. Base /\ Quiet /\ [Next]_vars => Quiet'
  BY QuietStep
<1>4. Versions => VersionTells
  BY DEF Versions, Running, VersionTells
<1> QED BY <1>1, <1>2, <1>3, <1>4, BaseHolds, PTL DEF Spec

-----------------------------------------------------------------------------
(* The queue *)

\* From its execution until it is marked done, the engine does what a command says.
Acting ==
  cur # 0 /\ ep \in {"status", "markDone"} =>
    /\ cmds[cur].action = "start" => trading
    /\ cmds[cur].action = "stop" => ~trading

LEMMA ActingStep ==
  ASSUME Base, Acting, [Next]_vars
  PROVE  Acting'
<1>0. cmds \in Seq(Command) /\ Len(cmds) \in Nat /\ cur \in 0 .. Len(cmds)
  BY DEF Base, TypeOK
<1>1. CASE UNCHANGED <<cmds, cur, ep, trading>>
  BY <1>1 DEF Acting
<1>2. ASSUME NEW c \in Clients, Enqueue(c)
      PROVE  Acting'
  <2> DEFINE m == [action |-> req[c].op, config |-> req[c].row.config,
                   version |-> req[c].row.version, status |-> "pending"]
  <2>1. cmds' = Append(cmds, m) /\ UNCHANGED <<cur, ep, trading>>
    BY <1>2 DEF Enqueue, engineVars
  <2>2. m \in Command /\ m.status = "pending"
    BY <1>2 DEF Enqueue, Base, TypeOK, Command, Request, State
  <2> HIDE DEF m
  <2>3. \A i \in 1 .. Len(cmds) : cmds'[i] = cmds[i]
    BY <2>1, <2>2, QueueGrows DEF Base
  <2> QED BY <1>0, <2>1, <2>3 DEF Acting
<1>3. CASE ProcessCommand
  <2>1. cur' = Oldest(Pending) /\ cur' # 0 /\ cmds[cur'] \in Command /\ cmds' = cmds
    BY <1>3, ClaimIsFirst DEF ProcessCommand, Base, dbVars
  <2> QED BY <1>3, <2>1 DEF ProcessCommand, ApplyStart, Acting
<1>4. CASE SyncRunStatus \/ CommandFails
  BY <1>4 DEF SyncRunStatus, CommandFails, Acting, dbVars
<1>5. CASE MarkDone \/ Boot \/ Crash \/ SyncOnStartup \/ ClearEnabled \/ NoCommand \/ Poll \/ SyncConfigVersion
  <2>1. cur' = 0
    BY <1>5 DEF MarkDone, Boot, Crash, Forget, SyncOnStartup, ClearEnabled, NoCommand, Poll,
         SyncConfigVersion, Base, Places
  <2> QED BY <2>1 DEF Acting
<1>6. ASSUME NEW c \in Clients,
             \/ \E op \in Ops, k \in Keys : BeginSave(c, op, k)
             \/ BeginStop(c) \/ WriteState(c) \/ SetRunActive(c) \/ RequestFails(c)
      PROVE  UNCHANGED <<cmds, cur, ep, trading>>
  BY <1>6 DEF BeginSave, BeginStop, WriteState, SetRunActive, RequestFails, dbVars, engineVars
<1>7. CASE UNCHANGED vars
  BY <1>1, <1>7 DEF vars, dbVars, engineVars
<1> QED BY <1>1, <1>2, <1>3, <1>4, <1>5, <1>6, <1>7 DEF Next, Engine, Serve

\* Only the end of a request to start or stop and the mark of an executed command change the queue.
LEMMA QueueStep ==
  ASSUME Base, Acting, [Next]_vars
  PROVE  /\ Len(cmds) <= Len(cmds')
         /\ \A i \in DOMAIN cmds : cmds'[i] # cmds[i] =>
              /\ i \in Pending /\ \A j \in Pending : i <= j
              /\ \E s \in {"done", "failed"} : cmds'[i] = [cmds[i] EXCEPT !.status = s]
              /\ cmds'[i].status = "done" => trading = (cmds[i].action = "start")
<1>0. cmds \in Seq(Command) /\ Len(cmds) \in Nat /\ DOMAIN cmds = 1 .. Len(cmds)
  BY DEF Base, TypeOK
<1>1. CASE UNCHANGED cmds
  BY <1>0, <1>1
<1>2. CASE \E c \in Clients : Enqueue(c)
  <2> PICK c \in Clients : Enqueue(c)
    BY <1>2
  <2> DEFINE m == [action |-> req[c].op, config |-> req[c].row.config,
                   version |-> req[c].row.version, status |-> "pending"]
  <2>1. cmds' = Append(cmds, m) /\ m \in Command /\ m.status = "pending"
    BY DEF Enqueue, Base, TypeOK, Command, Request, State
  <2> HIDE DEF m
  <2> QED BY <1>0, <2>1, QueueGrows DEF Base
<1>3. CASE MarkDone
  <2> DEFINE word == IF ep = "markDone" THEN "done" ELSE "failed"
  <2>1. /\ cur \in 1 .. Len(cmds) /\ cur \in Pending /\ \A j \in Pending : cur <= j
        /\ cmds[cur] \in Command
    <3>1. cur \in Pending /\ \A j \in Pending : cur <= j
      BY <1>3 DEF MarkDone, Base, Places
    <3> QED BY <3>1, PendingInQueue DEF Base
  <2>2. cmds' = [cmds EXCEPT ![cur] = [@ EXCEPT !.status = word]]
    BY <1>3, Zenon DEF MarkDone
  <2>3. \A i \in DOMAIN cmds : cmds'[i] = IF i = cur THEN [cmds[i] EXCEPT !.status = word] ELSE cmds[i]
    BY <1>0, <2>2
  <2>4. Len(cmds') = Len(cmds)
    BY <1>3, QueueServed
  <2>5. word \in {"done", "failed"} /\ (word = "done" => ep = "markDone")
    OBVIOUS
  <2>6. [cmds[cur] EXCEPT !.status = word].status = word
    BY <2>1 DEF Command
  <2>7. word = "done" => trading = (cmds[cur].action = "start")
    <3> SUFFICES ASSUME word = "done" PROVE trading = (cmds[cur].action = "start")
      OBVIOUS
    <3>1. /\ cmds[cur].action = "start" => trading
          /\ cmds[cur].action = "stop" => ~trading
      BY <2>1, <2>5 DEF Acting
    <3>2. trading \in BOOLEAN /\ cmds[cur].action \in {"start", "stop"}
      BY <2>1 DEF Base, TypeOK, Command
    <3>3. CASE cmds[cur].action = "start"
      BY <3>1, <3>2, <3>3, Zenon
    <3>4. CASE cmds[cur].action = "stop"
      <4>1. (cmds[cur].action = "start") = FALSE
        BY <3>4
      <4> QED BY <3>1, <3>2, <3>4, <4>1, Zenon
    <3> QED BY <3>2, <3>3, <3>4
  <2> HIDE DEF word
  <2>8. ASSUME NEW i \in DOMAIN cmds, cmds'[i] # cmds[i]
        PROVE  /\ i \in Pending /\ \A j \in Pending : i <= j
               /\ \E s \in {"done", "failed"} : cmds'[i] = [cmds[i] EXCEPT !.status = s]
               /\ cmds'[i].status = "done" => trading = (cmds[i].action = "start")
    <3>1. i = cur /\ cmds'[i] = [cmds[i] EXCEPT !.status = word]
      BY <2>3, <2>8
    <3>2. cmds'[i].status = "done" => trading = (cmds[i].action = "start")
      BY <2>6, <2>7, <3>1, Zenon
    <3> QED BY <2>1, <2>5, <3>1, <3>2
  <2> QED BY <1>0, <2>4, <2>8
<1>4. ASSUME ~UNCHANGED cmds
      PROVE  MarkDone \/ \E c \in Clients : Enqueue(c)
  BY <1>4 DEF Next, vars, dbVars, BeginSave, BeginStop, Serve, WriteState, SetRunActive,
       RequestFails, Boot, Engine, SyncOnStartup, ClearEnabled, SyncRunStatus, ProcessCommand,
       CommandFails, NoCommand, Poll, SyncConfigVersion, Crash
<1> QED BY <1>1, <1>2, <1>3, <1>4

\* Commands are taken off in the order in which they were queued, each once, and none is called done
\* unless the engine does what it says, whatever fails or crashes in between and however many
\* requests are served at a time (_process_commands, claim_pending, mark_done).
THEOREM ServedInOrder == Spec => CommandsInOrder
<1>1. Init => Acting
  BY DEF Init, Acting
<1>2. Base /\ Acting /\ [Next]_vars => Acting'
  BY ActingStep
<1>3. Base /\ Acting /\ [Next]_vars =>
        [/\ Len(cmds) <= Len(cmds')
         /\ \A i \in DOMAIN cmds : cmds'[i] # cmds[i] =>
              /\ i \in Pending /\ \A j \in Pending : i <= j
              /\ \E s \in {"done", "failed"} : cmds'[i] = [cmds[i] EXCEPT !.status = s]
              /\ cmds'[i].status = "done" => trading = (cmds[i].action = "start")]_vars
  BY QueueStep
<1> QED BY <1>1, <1>2, <1>3, BaseHolds, PTL DEF Spec, CommandsInOrder
================================================================================
