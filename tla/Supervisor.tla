------------------------------ MODULE Supervisor ------------------------------
(***************************************************************************)
(* scripts/run_engine.py and the processes it runs: a backfill, then the   *)
(* OHLCV ingest loop and the engine (app/main.py).  When one of them ends, *)
(* or on SIGINT or SIGTERM, it stops the engine, waits for a grace period  *)
(* and kills it, corrects engine_run, and ends the rest.                   *)
(*                                                                         *)
(* A signal handler runs between any two steps of a process.  Of the       *)
(* engine there is what the supervisor's actions can cut: its start, its   *)
(* loop, and the flattening and the records of stop().                     *)
(*                                                                         *)
(* engine_run has a row per run_id, and three writers: the engine for the  *)
(* run_id of its context, which a stored configuration replaces; the       *)
(* script for the run_id of the env files; and the API for the stored one. *)
(***************************************************************************)
EXTENDS Naturals

CONSTANTS
  MaxLaunches,  \* how often the script is run (a bound)
  MaxSignals,   \* signals that a launch gets (a bound)
  MaxFaults,    \* failing calls and processes that die by themselves (a bound)
  RunIds,       \* the run_ids configurations name
  EnvRun        \* the one of the env files: run_context.run_id of load_config()

ASSUME SupervisorAssumption ==
  /\ MaxLaunches \in Nat \ {0} /\ MaxSignals \in Nat /\ MaxFaults \in Nat
  /\ EnvRun \in RunIds

VARIABLES
  \* run_engine.py
  sup,        \* "off", "backfill", "spawn", "forked", "listed", "watch", "stopEngine",
              \* "grace", "mark", "stopOthers", "reap", "ended"
  plan,       \* the processes this launch is still to start, the ingest loop first
  forked,     \* the process that Popen returned and nothing remembers yet
  known,      \* PROCS
  named,      \* _ENGINE_PROC is set
  signal,     \* "none", or the signal that arrived: "INT", "TERM"
  shutting,   \* _SHUTTING_DOWN
  \* the children
  proc,       \* "none", "boot", "synced", "up", "flatten", "record", "persist", "exited"
  told,       \* the engine's  running  is false, or is to become so
  runId,      \* the run_id of the engine's context, of the last engine when there is none
  \* what lasts
  pos,        \* "flat" or "open"
  row,        \* engine_run: "none", "stopped", or running or paused, as "engine" or "ui" wrote it
  \* bookkeeping of the model
  cut,        \* the last engine ended, or had to, without a complete stop()
  recorded,   \* the last engine recorded its end
  unmarked,   \* a correction of engine_run failed
  launches, signals, faults

supVars == <<sup, plan, forked, known, named, signal, shutting>>
engineVars == <<told, runId>>
lastVars == <<pos, row>>
ghostVars == <<cut, recorded, unmarked, launches, signals, faults>>
vars == <<supVars, proc, engineVars, lastVars, ghostVars>>

Children == {"ingest", "engine"}
Nobody == "nobody"
Alive(c) == proc[c] \notin {"none", "exited"}
Starting == proc["engine"] \in {"boot", "synced"}
EngineUp == proc["engine"] \in {"up", "flatten", "record", "persist"}
Exits(c) == proc' = [proc EXCEPT ![c] = "exited"]

\* No handlers (yet): a signal ends the process.
Unready(c) == IF c = "engine" THEN Starting ELSE Alive(c)

Fault == faults < MaxFaults /\ faults' = faults + 1

-----------------------------------------------------------------------------
(* The supervisor *)

\* --ingest-only, --engine-only, --no-backfill.  A script that left a child behind is
\* not run again before that child has ended.
Launch(order, backfill) ==
  /\ sup \in {"off", "ended"} /\ launches < MaxLaunches
  /\ \A c \in Children : ~Alive(c)
  /\ launches' = launches + 1
  /\ plan' = order /\ sup' = IF backfill THEN "backfill" ELSE "spawn"
  /\ forked' = Nobody /\ known' = {} /\ named' = FALSE
  /\ signal' = "none" /\ shutting' = FALSE
  /\ proc' = [c \in Children |-> "none"] /\ told' = FALSE
  /\ unmarked' = FALSE /\ signals' = 0
  /\ UNCHANGED <<runId, lastVars, cut, recorded, faults>>

\* subprocess.run(check=True): a failing backfill ends the script.
Backfill ==
  /\ sup = "backfill" /\ signal = "none"
  /\ \/ sup' = "spawn" /\ UNCHANGED faults
     \/ sup' = "ended" /\ Fault
  /\ UNCHANGED <<plan, forked, known, named, signal, shutting, proc, engineVars, lastVars, cut,
                 recorded, unmarked, launches, signals>>

Planned == IF "ingest" \in plan THEN "ingest" ELSE "engine"

\* Popen returns: a new engine begins with the configuration of the env files ...
Fork ==
  /\ sup = "spawn" /\ signal = "none" /\ plan # {}
  /\ forked' = Planned /\ plan' = plan \ {Planned}
  /\ IF Planned = "engine"
     THEN /\ proc' = [proc EXCEPT !["engine"] = "boot"]
          /\ runId' = EnvRun /\ recorded' = FALSE
     ELSE proc' = [proc EXCEPT !["ingest"] = "up"] /\ UNCHANGED <<runId, recorded>>
  /\ sup' = "forked"
  /\ UNCHANGED <<known, named, signal, shutting, told, lastVars, cut, unmarked, launches, signals,
                 faults>>

\* ... or raises, which leaves main() without a shutdown.
ForkFails ==
  /\ sup = "spawn" /\ signal = "none" /\ plan # {}
  /\ Fault /\ sup' = "ended"
  /\ UNCHANGED <<plan, forked, known, named, signal, shutting, proc, engineVars, lastVars, cut,
                 recorded, unmarked, launches, signals>>

\* What follows a child that is registered.
Onward == IF plan = {} THEN "watch" ELSE "spawn"

\* Mutant of Remember: the process stays in the hand that started it.
RememberTwice ==
  /\ sup = "forked" /\ signal = "none"
  /\ known' = known \cup {forked}
  /\ sup' = IF forked = "engine" THEN "listed" ELSE Onward
  /\ UNCHANGED <<plan, forked, named, signal, shutting, proc, engineVars, lastVars, ghostVars>>

\* ... and the process is put on the list, ...
Remember ==
  /\ sup = "forked" /\ signal = "none"
  /\ known' = known \cup {forked} /\ forked' = Nobody
  /\ sup' = IF forked = "engine" THEN "listed" ELSE Onward
  /\ UNCHANGED <<plan, named, signal, shutting, proc, engineVars, lastVars, ghostVars>>

\* ... the engine is then named, too.
NameEngine ==
  /\ sup = "listed" /\ signal = "none"
  /\ named' = TRUE /\ sup' = Onward
  /\ UNCHANGED <<plan, forked, known, signal, shutting, proc, engineVars, lastVars, ghostVars>>

\* _shutdown begins once.
BeginShutdown == shutting' = TRUE /\ sup' = "stopEngine"

\* The loop that polls the children finds one that ended.
Watch ==
  /\ sup = "watch" /\ signal = "none"
  /\ \E c \in known : ~Alive(c)
  /\ BeginShutdown
  /\ UNCHANGED <<plan, forked, known, named, signal, proc, engineVars, lastVars, ghostVars>>

\* SIGTERM reaches the script, Ctrl+C every process of the terminal: the ingest
\* loop and an engine without handlers (before the end of start()) die of it.
Signalled(s) ==
  /\ sup \notin {"off", "ended"} /\ signal = "none"
  /\ signals < MaxSignals /\ signals' = signals + 1
  /\ signal' = s
  /\ IF s = "TERM" THEN UNCHANGED <<proc, told, cut>>
     ELSE /\ proc' = [c \in Children |->
                       IF Unready(c) THEN "exited" ELSE proc[c]]
          /\ told' = (told \/ proc["engine"] = "up")
          /\ cut' = (cut \/ Starting)
  /\ UNCHANGED <<sup, plan, forked, known, named, shutting, runId, lastVars, recorded, unmarked,
                 launches, faults>>

\* _handle_signal: nothing while a shutdown is under way.  During the backfill
\* there is no other child; subprocess.run kills its own.
HandleSignal ==
  /\ signal # "none" /\ sup \notin {"off", "ended"}
  /\ signal' = "none"
  /\ IF shutting THEN UNCHANGED <<sup, shutting>> ELSE BeginShutdown
  /\ UNCHANGED <<plan, forked, known, named, proc, engineVars, lastVars, ghostVars>>

Steps == signal = "none"

\* SIGTERM to the engine, which dies of it before its handlers are there.
StopEngine ==
  /\ sup = "stopEngine" /\ Steps
  /\ IF named /\ Alive("engine")
     THEN /\ sup' = "grace"
          /\ IF Starting THEN Exits("engine") /\ cut' = TRUE /\ UNCHANGED told
             ELSE told' = TRUE /\ UNCHANGED <<proc, cut>>
     ELSE sup' = "mark" /\ UNCHANGED <<proc, told, cut>>
  /\ UNCHANGED <<plan, forked, known, named, signal, shutting, runId, lastVars, recorded, unmarked,
                 launches, signals, faults>>

\* Mutant of GraceOver: the deadline is only looked at when the engine is gone.
GraceOverPatient == ~Alive("engine")

\* The engine has gone, or 15 seconds have.
GraceOver == TRUE

\* An engine that is still there is killed, wherever it is.
EndGrace ==
  /\ sup = "grace" /\ Steps /\ GraceOver
  /\ sup' = "mark"
  /\ IF Alive("engine") THEN Exits("engine") /\ cut' = TRUE ELSE UNCHANGED <<proc, cut>>
  /\ UNCHANGED <<plan, forked, known, named, signal, shutting, engineVars, lastVars, recorded,
                 unmarked, launches, signals, faults>>

\* update_status changes a row that is there.
Closed(r) == [row EXCEPT ![r] = IF @ = "none" THEN "none" ELSE "stopped"]

\* Mutant of MustMark: only for an engine that had to be killed.
MustMarkKilled == named /\ cut /\ told

\* Whatever end the engine came to.
MustMark == named

\* _mark_engine_stopped: the row of the env files' run_id, whatever run_id the engine
\* had; an error is logged.
Mark ==
  /\ sup = "mark" /\ Steps
  /\ sup' = "stopOthers"
  /\ IF ~MustMark THEN UNCHANGED <<row, unmarked, faults>>
     ELSE \/ row' = Closed(EnvRun) /\ UNCHANGED <<unmarked, faults>>
          \/ Fault /\ unmarked' = TRUE /\ UNCHANGED row
  /\ UNCHANGED <<plan, forked, known, named, signal, shutting, proc, engineVars, pos, cut, recorded,
                 launches, signals>>

\* Mutant of Others: the ingest loop is expected to end by itself.
OthersFirst == known \ {"ingest", "engine"}

\* The processes on the list, without the one named.
Others == IF named THEN known \ {"engine"} ELSE known

\* terminate: the ingest loop dies of it, and so does an engine on the list that has no handlers
\* yet; another one is told ...
StopOthers ==
  /\ sup = "stopOthers" /\ Steps
  /\ sup' = "reap"
  /\ proc' = [c \in Children |-> IF c \in Others /\ Unready(c) THEN "exited" ELSE proc[c]]
  /\ told' = (told \/ ("engine" \in Others /\ EngineUp))
  /\ cut' = (cut \/ ("engine" \in Others /\ Starting))
  /\ UNCHANGED <<plan, forked, known, named, signal, shutting, runId, lastVars, recorded, unmarked,
                 launches, signals, faults>>

\* ... five seconds, kill, SystemExit.
Reap ==
  /\ sup = "reap" /\ Steps
  /\ proc' = [c \in Children |-> IF c \in Others /\ Alive(c) THEN "exited" ELSE proc[c]]
  /\ cut' = (cut \/ ("engine" \in Others /\ Alive("engine")))
  /\ sup' = "ended"
  /\ UNCHANGED <<plan, forked, known, named, signal, shutting, engineVars, lastVars, recorded,
                 unmarked, launches, signals, faults>>

-----------------------------------------------------------------------------
(* The engine, and the API *)

\* record_engine_start: a row that is there is written over.
Opened(r) == [row EXCEPT ![r] = "engine"]

\* sync_on_startup: the stored configuration, if there is one, brings its run_id; an
\* error of the row is logged.
SyncOnStartup(r) ==
  /\ proc["engine"] = "boot"
  /\ proc' = [proc EXCEPT !["engine"] = "synced"] /\ runId' = r
  /\ \/ row' = Opened(r) /\ UNCHANGED faults
     \/ Fault /\ UNCHANGED row
  /\ UNCHANGED <<supVars, told, pos, cut, recorded, unmarked, launches, signals>>

\* start(), then the signal handlers.  A position that was left is restored.
EngineStarts ==
  /\ proc["engine"] = "synced"
  /\ \/ /\ row' = Opened(runId) /\ proc' = [proc EXCEPT !["engine"] = "up"]
        /\ cut' = FALSE /\ UNCHANGED faults
     \/ Fault /\ Exits("engine") /\ cut' = TRUE /\ UNCHANGED row
  /\ UNCHANGED <<supVars, engineVars, pos, recorded, unmarked, launches, signals>>

\* A start command, or a stored configuration the engine polls, names a run: its row is
\* opened, or that fails, and the row of the run before stays as it is, or is paused.
SwitchRun(r) ==
  /\ proc["engine"] \in {"synced", "up"}
  /\ runId' = r
  /\ \/ row' = Opened(r) /\ UNCHANGED faults
     \/ Fault /\ UNCHANGED row
  /\ UNCHANGED <<supVars, proc, told, pos, cut, recorded, unmarked, launches, signals>>

EngineTrades ==
  /\ proc["engine"] = "up"
  /\ pos' = IF pos = "flat" THEN "open" ELSE "flat"
  /\ UNCHANGED <<supVars, proc, engineVars, row, ghostVars>>

\* Mutant of EngineLeavesLoop: a signal ends the process without closing anything.
EngineLeavesLoopBare ==
  /\ proc["engine"] = "up"
  /\ IF told THEN UNCHANGED faults ELSE Fault
  /\ proc' = [proc EXCEPT !["engine"] = IF told THEN "record" ELSE "flatten"]
  /\ UNCHANGED <<supVars, engineVars, lastVars, cut, recorded, unmarked, launches, signals>>

\* The loop ends: it was told to, or a tick raised.
EngineLeavesLoop ==
  /\ proc["engine"] = "up"
  /\ IF told THEN UNCHANGED faults ELSE Fault
  /\ proc' = [proc EXCEPT !["engine"] = "flatten"]
  /\ UNCHANGED <<supVars, engineVars, lastVars, cut, recorded, unmarked, launches, signals>>

\* stop() closes what is open, or fails to and logs it, ...
Flatten ==
  /\ proc["engine"] = "flatten"
  /\ \/ pos' = "flat" /\ UNCHANGED <<cut, faults>>
     \/ Fault /\ cut' = TRUE /\ UNCHANGED pos
  /\ proc' = [proc EXCEPT !["engine"] = "record"]
  /\ UNCHANGED <<supVars, engineVars, row, recorded, unmarked, launches, signals>>

\* ... then records that in the row of its run; when that raises the process ends ...
RecordStop ==
  /\ proc["engine"] = "record"
  /\ \/ /\ row' = Closed(runId) /\ proc' = [proc EXCEPT !["engine"] = "persist"]
        /\ recorded' = TRUE /\ UNCHANGED faults
     \/ Fault /\ Exits("engine") /\ UNCHANGED <<row, recorded>>
  /\ UNCHANGED <<supVars, engineVars, pos, cut, unmarked, launches, signals>>

\* ... and in the state file, which nothing here reads.
PersistStop ==
  /\ proc["engine"] = "persist"
  /\ Exits("engine")
  /\ UNCHANGED <<supVars, engineVars, lastVars, ghostVars>>

\* A process dies by itself: out of memory, or a database error of the ingest loop.
Dies(c) ==
  /\ Alive(c) /\ Fault
  /\ Exits(c) /\ cut' = (cut \/ c = "engine")
  /\ UNCHANGED <<supVars, engineVars, lastVars, recorded, unmarked, launches, signals>>

\* A start or stop of the UI writes the row of the stored run as running or paused, also
\* when no engine runs (set_engine_run_trading_active).
UiWrites(r) ==
  /\ row[r] # "none" /\ row' = [row EXCEPT ![r] = "ui"]
  /\ UNCHANGED <<supVars, proc, engineVars, pos, ghostVars>>

Engine ==
  \/ \E r \in RunIds : SyncOnStartup(r) \/ SwitchRun(r)
  \/ EngineStarts \/ EngineTrades \/ EngineLeavesLoop
  \/ Flatten \/ RecordStop \/ PersistStop

\* The script is not run again.
Over == sup = "ended" /\ launches = MaxLaunches /\ UNCHANGED vars

Init ==
  /\ sup = "off" /\ plan = {} /\ forked = Nobody /\ known = {} /\ named = FALSE
  /\ signal = "none" /\ shutting = FALSE
  /\ proc = [c \in Children |-> "none"] /\ told = FALSE /\ runId = EnvRun
  /\ pos = "flat" /\ row = [r \in RunIds |-> "none"]
  /\ cut = FALSE /\ recorded = FALSE /\ unmarked = FALSE
  /\ launches = 0 /\ signals = 0 /\ faults = 0

Supervise ==
  \/ Backfill \/ Fork \/ ForkFails \/ Remember \/ NameEngine \/ Watch \/ HandleSignal
  \/ StopEngine \/ EndGrace \/ Mark \/ StopOthers \/ Reap

Next ==
  \/ \E order \in (SUBSET Children) \ {{}}, backfill \in BOOLEAN :
       (backfill => "ingest" \in order) /\ Launch(order, backfill)
  \/ Supervise
  \/ \E s \in {"INT", "TERM"} : Signalled(s)
  \/ Engine
  \/ \E c \in Children : Dies(c)
  \/ \E r \in RunIds : UiWrites(r)
  \/ Over

Spec == Init /\ [][Next]_vars

\* Only the script itself has to go on: its waits have deadlines.
FairSpec == Spec /\ WF_vars(Supervise)

-----------------------------------------------------------------------------
(* Properties *)

TypeOK ==
  /\ sup \in {"off", "backfill", "spawn", "forked", "listed", "watch", "stopEngine", "grace",
              "mark", "stopOthers", "reap", "ended"}
  /\ plan \subseteq Children /\ known \subseteq Children
  /\ forked \in Children \cup {Nobody} /\ forked \notin known
  /\ named \in BOOLEAN /\ (named => "engine" \in known)
  /\ signal \in {"none", "INT", "TERM"} /\ shutting \in BOOLEAN
  /\ proc \in [Children -> {"none", "boot", "synced", "up", "flatten", "record", "persist",
                            "exited"}]
  /\ \A c \in known : proc[c] # "none"
  /\ told \in BOOLEAN /\ runId \in RunIds /\ pos \in {"flat", "open"}
  /\ row \in [RunIds -> {"none", "engine", "ui", "stopped"}]

\* run_engine.py:10: on Ctrl+C both processes end.  Whatever made the script end, it leaves
\* no engine behind, and if it ended by a shutdown no ingest loop either, unless a signal
\* came while a child had been started and was not on the list yet.  Only an engine that
\* cannot be started leaves the ingest loop running.
NoChildLeft ==
  sup = "ended" /\ forked = Nobody => ~Alive("engine") /\ (shutting => ~Alive("ingest"))

\* When a script that named its engine has ended, the row of the engine's run is not as the
\* engine left it while running, also when the engine was killed, died or failed to record
\* its end - but for a run other than that of the env files, which only the engine itself
\* can close, and for a correction that could not be stored.  The row of the env files' run
\* is always closed by the correction, also when the engine went on to another run.
StoppedShown ==
  sup = "ended" /\ named =>
    /\ row[runId] = "engine" => ~recorded /\ (runId # EnvRun \/ unmarked)
    /\ row[EnvRun] = "engine" => unmarked

\* When no engine is there and the row of its run says stopped over an open position, the
\* engine could not complete stop(): it was killed after the grace period, signalled before
\* its handlers were there, died, or failed to flatten.
StoppedMeansFlat ==
  sup = "ended" /\ ~Alive("engine") /\ row[runId] = "stopped" /\ pos = "open" => cut

\* A shutdown goes through its stages once and in order, however many signals
\* arrive and whatever children do meanwhile: a grace period never begins again.
Stage ==
  CASE sup = "stopEngine" -> 1 [] sup = "grace" -> 2 [] sup = "mark" -> 3
    [] sup = "stopOthers" -> 4 [] sup = "reap" -> 5 [] sup = "ended" -> 6 [] OTHER -> 0
ShutdownOnce ==
  [][shutting => Stage > 0 /\ (sup' = sup \/ Stage' > Stage \/ sup = "ended")]_vars

\* A signal, and a child that ends, end the script, whatever the engine does.
ShutdownEnds ==
  /\ (signal # "none" /\ sup # "ended") ~> sup = "ended"
  /\ (sup = "watch" /\ \E c \in known : ~Alive(c)) ~> sup = "ended"
===============================================================================
