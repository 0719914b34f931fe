---------------------------- MODULE RuntimeControl ----------------------------
(***************************************************************************)
(* Starting, stopping and configuring a running engine.                    *)
(*                                                                         *)
(* The API (api/services/runtime_control_service.py) and the engine        *)
(* (engine/runtime_control.py) share three tables: engine_runtime_state    *)
(* (one row for the user), engine_command (a queue) and engine_run.  Every *)
(* read and every commit is a transaction of its own, so a request is cut  *)
(* between its reads and commits, and so is the engine.                    *)
(*                                                                         *)
(* A configuration maps keys to the request that set them last, Unset      *)
(* where the environment's value applies.  The engine_run row is the one   *)
(* of a fixed run_id.                                                      *)
(***************************************************************************)
EXTENDS Integers, Sequences, FiniteSets

CONSTANTS
  Clients,      \* requests that can be served at a time (API worker threads)
  Ops,          \* requests that are made: a subset of {"save", "start", "stop"}
  Keys,         \* configuration parameters
  MaxRequests,  \* requests made in all (a bound)
  MaxCrashes,   \* deaths of the engine process (a bound)
  MaxFaults,    \* requests, status updates and starts that fail (a bound)
  QuietBoot     \* no request is being served while the engine boots

ASSUME ControlAssumption ==
  /\ Ops \subseteq {"save", "start", "stop"}
  /\ MaxRequests \in Nat /\ MaxCrashes \in Nat /\ MaxFaults \in Nat
  /\ QuietBoot \in BOOLEAN

VARIABLES
  \* the database
  state,      \* engine_runtime_state, or NoState
  cmds,       \* engine_command in id order
  run,        \* engine_run.status
  \* the engine process
  ep,         \* its next read or commit
  phase,      \* "boot" in sync_on_startup, "poll" in the loop
  trading,    \* trading_enabled
  applied,    \* the effective configuration
  last,       \* _last_config_version, 0 for None
  seen,       \* the row read by sync_on_startup
  cur,        \* id of the claimed command, 0 for none
  \* the API
  req,        \* [Clients -> the request being served]
  \* bookkeeping of the model
  requests, crashes, faults,
  pressed,    \* the last start or stop request that is complete, or "none"
  asked       \* a start was asked for since the boot, or was still pending then

dbVars == <<state, cmds, run>>
engineVars == <<ep, phase, trading, applied, last, seen, cur>>
boundVars == <<requests, crashes, faults>>
vars == <<dbVars, engineVars, req, boundVars, pressed, asked>>

Unset == 0
Config == [Keys -> 0 .. MaxRequests]
NoConfig == [k \in Keys |-> Unset]

\* merge_runtime_config: a patch over what is in force.
Overlay(base, patch) == [k \in Keys |-> IF patch[k] # Unset THEN patch[k] ELSE base[k]]

State == [config : Config, version : Nat, enabled : BOOLEAN]
NoState == [config |-> NoConfig, version |-> 0, enabled |-> FALSE]

Command == [action : {"start", "stop"}, config : Config, version : Nat,
            status : {"pending", "done", "failed"}]
Pending == {i \in DOMAIN cmds : cmds[i].status = "pending"}

Request == [op : {"none", "save", "start", "stop"},
            at : {"idle", "write", "enqueue", "run"}, row : State]
Idle == [op |-> "none", at |-> "idle", row |-> NoState]
Serving == {c \in Clients : req[c] # Idle}

\* update_status changes an existing row only.
RunBecomes(s) == run' = IF run = "none" THEN run ELSE s

\* Mutant of Active: a status engine_run does not have.
ActiveWord(b) == IF b THEN "active" ELSE "paused"

Active(b) == IF b THEN "running" ELSE "paused"

Init ==
  /\ state = NoState /\ cmds = <<>> /\ run = "none"
  /\ ep = "down" /\ phase = "boot" /\ trading = FALSE /\ applied = NoConfig
  /\ last = 0 /\ seen = NoState /\ cur = 0
  /\ req = [c \in Clients |-> Idle]
  /\ requests = 0 /\ crashes = 0 /\ faults = 0 /\ pressed = "none"
  /\ asked = FALSE

-----------------------------------------------------------------------------
(* The API: save_config, start, stop *)

NewRequest(c, op) ==
  /\ req[c] = Idle /\ op \in Ops
  /\ requests < MaxRequests /\ requests' = requests + 1
  /\ QuietBoot => phase = "poll" \/ ep = "down"

\* Mutant of NextVersion: saving does not raise the version.
SameVersion(row) == row.version

NextVersion(row) == row.version + 1

\* save_config reads the row and makes the new one from it: next version, the
\* patch (one key) merged, trading_enabled set by start and kept otherwise.
BeginSave(c, op, k) ==
  /\ op \in {"save", "start"}
  /\ NewRequest(c, op)
  /\ req' = [req EXCEPT ![c] =
       [op |-> op, at |-> "write",
        row |-> [config |-> [state.config EXCEPT ![k] = requests + 1],
                 version |-> NextVersion(state),
                 enabled |-> (op = "start") \/ state.enabled]]]
  /\ asked' = (asked \/ op = "start")
  /\ UNCHANGED <<dbVars, engineVars, crashes, faults, pressed>>

\* stop reads the row, to write it back later.
BeginStop(c) ==
  /\ NewRequest(c, "stop")
  /\ req' = [req EXCEPT ![c] =
       [op |-> "stop", at |-> "enqueue", row |-> [state EXCEPT !.enabled = FALSE]]]
  /\ UNCHANGED <<dbVars, engineVars, crashes, faults, pressed, asked>>

Finish(c) ==
  /\ req' = [req EXCEPT ![c] = Idle]
  /\ pressed' = IF req[c].op = "save" THEN pressed ELSE req[c].op

Continue(c, at) == req' = [req EXCEPT ![c].at = at] /\ UNCHANGED pressed

\* upsert: the whole row, whatever is there by now.
WriteState(c) ==
  /\ req[c].at = "write"
  /\ state' = req[c].row
  /\ \/ req[c].op = "save" /\ Finish(c)
     \/ req[c].op = "start" /\ Continue(c, "enqueue")
     \/ req[c].op = "stop" /\ Continue(c, "run")
  /\ UNCHANGED <<cmds, run, engineVars, boundVars, asked>>

\* The command is queued with the row's configuration and version; a stop
\* without a row ends here.
Enqueue(c) ==
  /\ req[c].at = "enqueue"
  /\ cmds' = Append(cmds, [action |-> req[c].op, config |-> req[c].row.config,
                           version |-> req[c].row.version, status |-> "pending"])
  /\ \/ req[c].op = "start" /\ Continue(c, "run")
     \/ req[c].op = "stop" /\ req[c].row = NoState /\ Finish(c)
     \/ req[c].op = "stop" /\ req[c].row # NoState /\ Continue(c, "write")
  /\ UNCHANGED <<state, run, engineVars, boundVars, asked>>

\* set_engine_run_trading_active.
SetRunActive(c) ==
  /\ req[c].at = "run"
  /\ RunBecomes(Active(req[c].op = "start"))
  /\ Finish(c)
  /\ UNCHANGED <<state, cmds, engineVars, boundVars, asked>>

\* A commit fails or the API process dies: the rest is not done.
RequestFails(c) ==
  /\ req[c] # Idle
  /\ faults < MaxFaults /\ faults' = faults + 1
  /\ req' = [req EXCEPT ![c] = Idle]
  /\ UNCHANGED <<dbVars, engineVars, requests, crashes, pressed, asked>>

-----------------------------------------------------------------------------
(* The engine: bootstrap, sync_on_startup, poll *)

\* bootstrap: env with the stored configuration over it, trading off.
Boot ==
  /\ ep = "down"
  /\ QuietBoot => Serving = {}
  /\ ep' = "startup" /\ phase' = "boot" /\ trading' = FALSE /\ last' = 0
  /\ applied' = Overlay(NoConfig, state.config)
  /\ asked' = \E i \in Pending : cmds[i].action = "start"
  /\ UNCHANGED <<dbVars, seen, cur, req, boundVars, pressed>>

\* Mutant of SyncOnStartup: the stored flag is left set.
SyncOnStartupLeavingFlag ==
  /\ ep = "startup"
  /\ trading' = FALSE /\ last' = state.version
  /\ applied' = Overlay(applied, state.config)
  /\ ep' = "status"
  /\ UNCHANGED <<dbVars, phase, seen, cur, req, boundVars, pressed, asked>>

\* sync_on_startup reads the row again.
SyncOnStartup ==
  /\ ep = "startup"
  /\ trading' = FALSE /\ last' = state.version
  /\ applied' = Overlay(applied, state.config)
  /\ \/ state.enabled /\ seen' = state /\ ep' = "clear"
     \/ ~state.enabled /\ UNCHANGED seen /\ ep' = "status"
  /\ UNCHANGED <<dbVars, phase, cur, req, boundVars, pressed, asked>>

\* ... and writes it back with trading_enabled off; a failure is only logged.
ClearEnabled ==
  /\ ep = "clear"
  /\ \/ state' = [seen EXCEPT !.enabled = FALSE] /\ UNCHANGED faults
     \/ faults < MaxFaults /\ faults' = faults + 1 /\ UNCHANGED state
  /\ seen' = NoState /\ ep' = "status"
  /\ UNCHANGED <<cmds, run, phase, trading, applied, last, cur, req, requests,
                 crashes, pressed, asked>>

\* _sync_engine_run_trading_status, a failure is only logged; then back to
\* where it was called from.
SyncRunStatus ==
  /\ ep = "status"
  /\ \/ run' = Active(trading) /\ UNCHANGED faults
     \/ faults < MaxFaults /\ faults' = faults + 1 /\ UNCHANGED run
  /\ ep' = IF cur # 0 THEN "markDone" ELSE IF phase = "boot" THEN "claim" ELSE "tick"
  /\ UNCHANGED <<state, cmds, phase, trading, applied, last, seen, cur, req,
                 requests, crashes, pressed, asked>>

\* Mutant of Oldest: the command that was queued last is served first.
Latest(S) == CHOOSE i \in S : \A j \in S : j <= i

Oldest(S) == CHOOSE i \in S : \A j \in S : i <= j

\* Mutant of ApplyStart: the version is left for _sync_config_version.
ApplyStartOnly(cmd) ==
  /\ trading' = TRUE
  /\ applied' = Overlay(applied, cmd.config)
  /\ UNCHANGED last

\* A start command carries its configuration and version.
ApplyStart(cmd) ==
  /\ trading' = TRUE
  /\ applied' = Overlay(applied, cmd.config)
  /\ last' = cmd.version

\* claim_pending only reads; the command stays pending until mark_done.
ProcessCommand ==
  /\ ep = "claim" /\ Pending # {}
  /\ cur' = Oldest(Pending)
  /\ \/ cmds[cur'].action = "start" /\ ApplyStart(cmds[cur'])
     \/ cmds[cur'].action = "stop" /\ trading' = FALSE /\ UNCHANGED <<applied, last>>
  /\ ep' = "status"
  /\ UNCHANGED <<dbVars, phase, seen, req, boundVars, pressed, asked>>

\* Mutant of MarkDone: the command is not taken off the queue.
MarkNothing ==
  /\ ep = "markDone"
  /\ cur' = 0 /\ ep' = "claim"
  /\ UNCHANGED <<dbVars, phase, trading, applied, last, seen, req, boundVars, pressed, asked>>

MarkDone ==
  /\ ep \in {"markDone", "markFailed"}
  /\ cmds' = [cmds EXCEPT ![cur].status = IF ep = "markDone" THEN "done" ELSE "failed"]
  /\ cur' = 0 /\ ep' = "claim"
  /\ UNCHANGED <<state, run, phase, trading, applied, last, seen, req, boundVars,
                 pressed, asked>>

\* A configuration that cannot be put to work (a predictor that does not load)
\* fails its command after it was merged, before trading is switched on.
CommandFails ==
  /\ ep = "claim" /\ Pending # {}
  /\ cur' = Oldest(Pending)
  /\ cmds[cur'].action = "start"
  /\ faults < MaxFaults /\ faults' = faults + 1
  /\ applied' = Overlay(applied, cmds[cur'].config)
  /\ ep' = "markFailed"
  /\ UNCHANGED <<dbVars, phase, trading, last, seen, req, requests, crashes,
                 pressed, asked>>

\* The queue is empty: engine.start() records the run, or the poll goes on.
NoCommand ==
  /\ ep = "claim" /\ Pending = {}
  /\ phase' = "poll"
  /\ \/ phase = "boot" /\ ep' = "tick" /\ run' = Active(trading)
     \/ phase = "poll" /\ ep' = "config" /\ UNCHANGED run
  /\ UNCHANGED <<state, cmds, trading, applied, last, seen, cur, req, boundVars,
                 pressed, asked>>

\* A tick is over; the next round of the loop polls.
Poll ==
  /\ ep = "tick"
  /\ ep' = "claim"
  /\ UNCHANGED <<dbVars, phase, trading, applied, last, seen, cur, req, boundVars,
                 pressed, asked>>

\* Mutant of SyncConfigVersion: no version yet is taken for no change.
SyncConfigVersionKnown ==
  /\ ep = "config"
  /\ \/ /\ state.version = last \/ last = 0
        /\ ep' = "tick" /\ UNCHANGED <<trading, applied, last>>
     \/ /\ state.version # last /\ last # 0
        /\ applied' = Overlay(applied, state.config)
        /\ trading' = state.enabled /\ last' = state.version
        /\ ep' = "status"
  /\ UNCHANGED <<dbVars, phase, seen, cur, req, boundVars, pressed, asked>>

\* _sync_config_version: another version means another configuration and flag.
SyncConfigVersion ==
  /\ ep = "config"
  /\ \/ /\ state = NoState \/ state.version = last
        /\ ep' = "tick" /\ UNCHANGED <<trading, applied, last>>
     \/ /\ state # NoState /\ state.version # last
        /\ applied' = Overlay(applied, state.config)
        /\ trading' = state.enabled /\ last' = state.version
        /\ ep' = "status"
  /\ UNCHANGED <<dbVars, phase, seen, cur, req, boundVars, pressed, asked>>

Forget ==
  /\ ep' = "down" /\ phase' = "boot" /\ trading' = FALSE /\ applied' = NoConfig
  /\ last' = 0 /\ seen' = NoState /\ cur' = 0

\* The process is killed, or an exception ends the loop and stop() runs.
Crash ==
  /\ ep # "down"
  /\ crashes < MaxCrashes /\ crashes' = crashes + 1
  /\ Forget
  /\ run' \in {run, "stopped"}
  /\ UNCHANGED <<state, cmds, req, requests, faults, pressed, asked>>

-----------------------------------------------------------------------------
Serve(c) == WriteState(c) \/ Enqueue(c) \/ SetRunActive(c)

Engine ==
  \/ SyncOnStartup \/ ClearEnabled \/ SyncRunStatus
  \/ ProcessCommand \/ MarkDone \/ CommandFails \/ NoCommand
  \/ Poll \/ SyncConfigVersion

Next ==
  \/ \E c \in Clients : \/ \E op \in Ops, k \in Keys : BeginSave(c, op, k)
                        \/ BeginStop(c) \/ Serve(c) \/ RequestFails(c)
  \/ Boot \/ Engine \/ Crash

\* A running engine keeps polling.
Spec == Init /\ [][Next]_vars
FairSpec == Spec /\ WF_vars(Engine)

-----------------------------------------------------------------------------
(* Properties *)

TypeOK ==
  /\ state \in State /\ cmds \in Seq(Command)
  /\ run \in {"none", "running", "paused", "stopped"}
  /\ ep \in {"down", "startup", "clear", "status", "claim", "markDone",
            "markFailed", "tick", "config"}
  /\ phase \in {"boot", "poll"} /\ trading \in BOOLEAN /\ applied \in Config
  /\ last \in Nat /\ seen \in State /\ cur \in 0 .. Len(cmds)
  /\ req \in [Clients -> Request]
  /\ requests \in 0 .. MaxRequests /\ crashes \in 0 .. MaxCrashes
  /\ faults \in 0 .. MaxFaults /\ pressed \in {"none", "start", "stop"}
  /\ asked \in BOOLEAN

\* Nothing is being asked and everything asked for was done.
Settled == Serving = {} /\ Pending = {} /\ ep = "tick"

\* After a restart the engine trades only if a start is asked for or was still
\* waiting: the stored trading_enabled never switches it on, not even through a
\* later save that keeps the flag.
BootForcedOff == trading => asked

\* Once a stop is complete and acted on, and nothing was asked since, the engine
\* does not trade (API_REFERENCE: stop ends new entries), as long as nothing
\* failed on the way.
StopSticks == Settled /\ pressed = "stop" /\ faults = 0 => ~trading

\* The version tells whether the engine runs the stored configuration.
VersionTells ==
  ep = "tick" /\ state # NoState /\ state.version = last => applied = state.config

\* Commands leave the queue in the order in which they were asked for, each once, and when one
\* is marked done the engine trades or not as it says, through crashes, failing starts and
\* requests in between; nothing else ever changes in the queue but at its end.
CommandsInOrder ==
  [][/\ Len(cmds) <= Len(cmds')
     /\ \A i \in DOMAIN cmds : cmds'[i] # cmds[i] =>
          /\ i \in Pending /\ \A j \in Pending : i <= j
          /\ \E s \in {"done", "failed"} : cmds'[i] = [cmds[i] EXCEPT !.status = s]
          /\ cmds'[i].status = "done" => trading = (cmds[i].action = "start")]_vars

\* Every command is taken off the queue by an engine that stays up.
CommandsServed ==
  \A i \in 1 .. MaxRequests : i \in Pending ~> (i \notin Pending \/ ep = "down")

\* When the saving ends, a running engine ends up with the stored configuration.
ConfigConverges ==
  (requests = MaxRequests /\ Serving = {}) ~> (applied = state.config \/ ep = "down")
=============================================================================
