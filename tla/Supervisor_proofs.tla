--------------------------- MODULE Supervisor_proofs ---------------------------
(***************************************************************************)
(* Theorems about Supervisor for every number of launches, signals and     *)
(* faults.                                                                 *)
(*                                                                         *)
(* Inv, the conjunction of TypeOK, Shape, Kept, Rows and Exposed, is       *)
(* inductive.  Kept is why no child is left, Rows why the rows of          *)
(* engine_run are right in the end, Exposed why only an incomplete stop    *)
(* leaves a position.                                                      *)
(***************************************************************************)
EXTENDS Supervisor, TLAPS

\* Where the supervisor is tells what it remembers: the engine comes last.
Shape ==
  /\ sup \in {"off", "backfill", "spawn", "listed", "watch"} => forked = Nobody
  /\ sup \in {"off", "backfill"} => known = {}
  /\ sup = "forked" => forked \in Children
  /\ sup \in {"backfill", "spawn", "forked"} => plan \cap known = {} /\ forked \notin plan
  /\ sup = "spawn" => plan # {} /\ "engine" \notin known
  /\ sup = "forked" => IF forked = "engine" THEN plan = {} ELSE "engine" \notin known
  /\ sup = "listed" => plan = {} /\ "engine" \in known
  /\ sup = "backfill" => plan # {}
  /\ sup \in {"backfill", "spawn", "forked", "listed", "watch"} => ~shutting
  /\ \A c \in Children : forked = c => proc[c] # "none"

\* A living child is on the list, or in the hand of Popen; once the grace period is over an
\* engine that was named is dead, in the end all on the list are, or the script ended before
\* it had an engine.
Kept ==
  /\ \A c \in Children : Alive(c) => c \in known \/ c = forked
  /\ sup \in {"mark", "stopOthers", "reap", "ended"} /\ named => ~Alive("engine")
  /\ sup = "ended" => (\A c \in known : ~Alive(c)) \/ (~shutting /\ "engine" \notin known)

\* The engine that recorded its end writes no more; the correction of a named engine comes
\* after its last write.
Rows ==
  /\ recorded => proc["engine"] \in {"none", "persist", "exited"} /\ row[runId] # "engine"
  /\ sup \in {"stopOthers", "reap", "ended"} /\ named /\ ~unmarked => row[EnvRun] # "engine"

\* Without an engine that trades or flattens, an open position is what a cut left.
Exposed == pos = "open" /\ proc["engine"] \notin {"up", "flatten"} => cut

Inv == TypeOK /\ Shape /\ Kept /\ Rows /\ Exposed

-----------------------------------------------------------------------------
\* Who is alive, by state.
LEMMA AliveFacts ==
  ASSUME TypeOK
  PROVE  \A c \in Children :
           /\ Alive(c) <=> proc[c] \in {"boot", "synced", "up", "flatten", "record", "persist"}
           /\ ~Alive(c) <=> proc[c] \in {"none", "exited"}
  BY DEF TypeOK, Alive

\* The children after one of them got a new state.
LEMMA ProcFacts ==
  ASSUME TypeOK, NEW c \in Children, NEW p
  PROVE  \A d \in Children : [proc EXCEPT ![c] = p][d] = IF d = c THEN p ELSE proc[d]
  BY DEF TypeOK

\* The invariant holds at the start.
LEMMA InitInv == Init => Inv
  BY SupervisorAssumption
  DEF Init, Inv, TypeOK, Shape, Kept, Rows, Exposed, Alive, Children, Nobody

\* The conjuncts of TypeOK without the two flags, and the flags.
Values ==
  /\ sup \in {"off", "backfill", "spawn", "forked", "listed", "watch", "stopEngine", "grace",
              "mark", "stopOthers", "reap", "ended"}
  /\ plan \subseteq Children /\ known \subseteq Children
  /\ forked \in Children \cup {Nobody} /\ forked \notin known
  /\ (named => "engine" \in known)
  /\ signal \in {"none", "INT", "TERM"}
  /\ proc \in [Children -> {"none", "boot", "synced", "up", "flatten", "record", "persist",
                            "exited"}]
  /\ \A c \in known : proc[c] # "none"
  /\ runId \in RunIds /\ pos \in {"flat", "open"}
  /\ row \in [RunIds -> {"none", "engine", "ui", "stopped"}]

Bits == shutting \in BOOLEAN /\ told \in BOOLEAN /\ named \in BOOLEAN

\* TypeOK in two parts.
LEMMA TypeParts == (TypeOK <=> Values /\ Bits) /\ (TypeOK' <=> Values' /\ Bits')
  BY DEF TypeOK, Values, Bits

\* The flags stay flags.
LEMMA BitStep ==
  ASSUME Bits, [Next]_vars
  PROVE  Bits'
<1> USE DEF vars, supVars, engineVars, lastVars, ghostVars, Bits
<1>1. ASSUME NEW order \in (SUBSET Children) \ {{}}, NEW backfill \in BOOLEAN,
             Launch(order, backfill)
      PROVE  Bits'
  BY <1>1, Zenon DEF Launch
<1>2. CASE Supervise
  <2>1. CASE StopOthers
    <3>1. shutting' = shutting /\ named' = named /\ told' = (told \/ ("engine" \in Others /\ EngineUp))
      BY <2>1, Zenon DEF StopOthers
    <3> QED BY <3>1, Zenon
  <2>2. CASE Supervise /\ ~StopOthers
    BY <2>2, Zenon DEF Supervise, Backfill, Fork, ForkFails, Remember, NameEngine, Watch,
       HandleSignal, BeginShutdown, StopEngine, EndGrace, Mark, Reap
  <2> QED BY <1>2, <2>1, <2>2
<1>3. ASSUME NEW s \in {"INT", "TERM"}, Signalled(s)
      PROVE  Bits'
  <2>1. shutting' = shutting /\ named' = named
          /\ (told' = told \/ told' = (told \/ proc["engine"] = "up"))
    BY <1>3, Zenon DEF Signalled
  <2> QED BY <2>1, Zenon
<1>4. CASE Engine
  BY <1>4, Zenon DEF Engine, SyncOnStartup, SwitchRun, EngineStarts, EngineTrades, EngineLeavesLoop, Flatten,
                     RecordStop, PersistStop
<1>5. CASE (\E c \in Children : Dies(c)) \/ (\E r \in RunIds : UiWrites(r)) \/ Over \/ UNCHANGED vars
  BY <1>5, Zenon DEF Dies, UiWrites, Over
<1> QED BY <1>1, <1>2, <1>3, <1>4, <1>5, Zenon DEF Next

\* A row that is written stays one of the rows.
LEMMA RowFacts ==
  ASSUME Values, NEW r \in RunIds
  PROVE  /\ Opened(r) \in [RunIds -> {"none", "engine", "ui", "stopped"}]
         /\ Closed(r) \in [RunIds -> {"none", "engine", "ui", "stopped"}]
         /\ Opened(r) = [row EXCEPT ![r] = "engine"]
         /\ Closed(r)[r] # "engine"
         /\ \A q \in RunIds : Closed(r)[q] = "engine" => row[q] = "engine"
  BY DEF Values, Opened, Closed

\* The other variables keep their types.
LEMMA ValueStep ==
  ASSUME Values, Shape, [Next]_vars
  PROVE  Values'
<1> USE DEF vars, supVars, engineVars, lastVars, ghostVars, Values, Children, Nobody
<1>1. ASSUME NEW order \in (SUBSET Children) \ {{}}, NEW backfill \in BOOLEAN,
             Launch(order, backfill)
      PROVE  Values'
  BY <1>1 DEF Launch
<1>2. CASE Supervise
  <2>1. CASE Backfill \/ ForkFails \/ Watch \/ HandleSignal
    <3>1. UNCHANGED <<plan, known, named, forked, proc, runId, pos, row>>
      BY <2>1 DEF Backfill, ForkFails, Watch, HandleSignal
    <3>2. signal' \in {"none", "INT", "TERM"} /\ sup' \in {"spawn", "ended", "stopEngine", sup}
      BY <2>1 DEF Backfill, ForkFails, Watch, HandleSignal, BeginShutdown
    <3> QED BY <3>1, <3>2
  <2>2. CASE Fork
    BY <2>2, SupervisorAssumption DEF Fork, Planned, Shape
  <2>3. CASE Remember
    BY <2>3 DEF Remember, Onward, Shape
  <2>8. CASE NameEngine
    BY <2>8 DEF NameEngine, Onward, Shape
  <2>4. CASE StopEngine
    BY <2>4 DEF StopEngine, Exits
  <2>5. CASE EndGrace
    BY <2>5 DEF EndGrace, Exits
  <2>6. CASE Mark
    <3>1. row' = row \/ row' = Closed(EnvRun)
      BY <2>6 DEF Mark
    <3>2. row' \in [RunIds -> {"none", "engine", "ui", "stopped"}]
      BY <3>1, RowFacts, SupervisorAssumption
    <3> QED BY <2>6, <3>2 DEF Mark
  <2>7. CASE StopOthers
    BY <2>7 DEF StopOthers
  <2>9. CASE Reap
    BY <2>9 DEF Reap
  <2> QED BY <1>2, <2>1, <2>2, <2>3, <2>4, <2>5, <2>6, <2>7, <2>8, <2>9 DEF Supervise
<1>3. ASSUME NEW s \in {"INT", "TERM"}, Signalled(s)
      PROVE  Values'
  <2>1. signal' \in {"INT", "TERM"}
          /\ UNCHANGED <<sup, plan, known, named, forked, runId, pos, row>>
    BY <1>3 DEF Signalled
  <2>2. proc' = proc \/ proc' = [c \in Children |-> IF Unready(c) THEN "exited" ELSE proc[c]]
    BY <1>3 DEF Signalled
  <2> QED BY <2>1, <2>2
<1>4. CASE Engine
  <2>1. UNCHANGED <<sup, plan, known, named, forked, signal>>
    BY <1>4 DEF Engine, SyncOnStartup, SwitchRun, EngineStarts, EngineTrades, EngineLeavesLoop,
                Flatten, RecordStop, PersistStop
  <2>2. \E p \in {"synced", "up", "flatten", "record", "persist", "exited"} :
          proc' = [proc EXCEPT !["engine"] = p] \/ proc' = proc
    BY <1>4 DEF Engine, SyncOnStartup, SwitchRun, EngineStarts, EngineTrades, EngineLeavesLoop,
                Flatten, RecordStop, PersistStop, Exits
  <2>3. pos' \in {"flat", "open"} /\ runId' \in RunIds
    BY <1>4 DEF Engine, SyncOnStartup, SwitchRun, EngineStarts, EngineTrades, EngineLeavesLoop,
                Flatten, RecordStop, PersistStop
  <2>4. row' = row \/ \E r \in RunIds : row' = Opened(r) \/ row' = Closed(r)
    BY <1>4 DEF Engine, SyncOnStartup, SwitchRun, EngineStarts, EngineTrades, EngineLeavesLoop,
                Flatten, RecordStop, PersistStop
  <2>5. row' \in [RunIds -> {"none", "engine", "ui", "stopped"}]
    BY <2>4, RowFacts
  <2> QED BY <2>1, <2>2, <2>3, <2>5
<1>5. CASE \E c \in Children : Dies(c)
  BY <1>5 DEF Dies, Exits
<1>6. CASE \E r \in RunIds : UiWrites(r)
  BY <1>6 DEF UiWrites
<1>7. CASE Over \/ UNCHANGED vars
  <2>1. UNCHANGED <<sup, plan, known, named, forked, signal, proc, runId, pos, row>>
    BY <1>7 DEF Over
  <2> QED BY <2>1
<1> QED BY <1>1, <1>2, <1>3, <1>4, <1>5, <1>6, <1>7 DEF Next

-----------------------------------------------------------------------------
(* The inductive parts *)

\* The engine is the last child to be started.
LEMMA ShapeStep ==
  ASSUME TypeOK, Shape, Kept, Rows, Exposed, [Next]_vars
  PROVE  Shape'
<1> USE DEF vars, supVars, engineVars, lastVars, ghostVars, Shape, Children, Nobody
<1>0. Values
  BY TypeParts
<1> USE DEF Values
<1>1. ASSUME NEW order \in (SUBSET Children) \ {{}}, NEW backfill \in BOOLEAN,
             Launch(order, backfill)
      PROVE  Shape'
  <2>1. /\ sup' \in {"backfill", "spawn"} /\ plan' = order /\ plan' # {}
        /\ forked' = Nobody /\ known' = {} /\ shutting' = FALSE
    <3>1. sup' = (IF backfill THEN "backfill" ELSE "spawn")
      BY <1>1 DEF Launch
    <3>2. plan' = order /\ forked' = Nobody /\ known' = {} /\ shutting' = FALSE
      BY <1>1 DEF Launch
    <3>3. sup' \in {"backfill", "spawn"}
      BY <3>1
    <3>4. plan' # {}
      BY <3>2
    <3> QED BY <3>2, <3>3, <3>4, Zenon
  <2> QED BY <2>1
<1>2. CASE Supervise
  <2>1. CASE Backfill
    BY <1>0, <2>1 DEF Backfill, Starting, EngineUp, Unready, Alive
  <2>2. CASE Fork
    BY <1>0, <2>2 DEF Fork, Planned, Starting, EngineUp, Unready, Alive
  <2>3. CASE ForkFails
    BY <1>0, <2>3 DEF ForkFails, Starting, EngineUp, Unready, Alive
  <2>4. CASE Remember
    BY <1>0, <2>4 DEF Remember, Onward, Starting, EngineUp, Unready, Alive
  <2>5. CASE NameEngine
    BY <1>0, <2>5 DEF NameEngine, Onward, Starting, EngineUp, Unready, Alive
  <2>6. CASE Watch \/ HandleSignal
    BY <1>0, <2>6 DEF Watch, HandleSignal, BeginShutdown, Starting, EngineUp, Unready, Alive
  <2>7. CASE StopEngine
    BY <1>0, <2>7 DEF StopEngine, Exits, Starting, EngineUp, Unready, Alive
  <2>8. CASE EndGrace
    BY <1>0, <2>8 DEF EndGrace, Exits, Starting, EngineUp, Unready, Alive
  <2>9. CASE Mark
    BY <1>0, <2>9 DEF Mark, MustMark, Starting, EngineUp, Unready, Alive
  <2>10. CASE StopOthers
    BY <1>0, <2>10 DEF StopOthers, Others, Starting, EngineUp, Unready, Alive
  <2>11. CASE Reap
    BY <1>0, <2>11 DEF Reap, Others, Starting, EngineUp, Unready, Alive
  <2> QED BY <1>2, <2>1, <2>2, <2>3, <2>4, <2>5, <2>6, <2>7, <2>8, <2>9, <2>10, <2>11 DEF Supervise
<1>3. ASSUME NEW s \in {"INT", "TERM"}, Signalled(s)
      PROVE  Shape'
  BY <1>0, <1>3 DEF Signalled, Starting, EngineUp, Unready, Alive
<1>4. CASE Engine
  <2>1. CASE \E r \in RunIds : SyncOnStartup(r)
    BY <1>0, <2>1 DEF SyncOnStartup, Opened, Starting, EngineUp, Unready, Alive
  <2>2. CASE \E r \in RunIds : SwitchRun(r)
    BY <1>0, <2>2 DEF SwitchRun, Opened, Starting, EngineUp, Unready, Alive
  <2>3. CASE EngineStarts
    BY <1>0, <2>3 DEF EngineStarts, Exits, Opened, Starting, EngineUp, Unready, Alive
  <2>4. CASE EngineTrades
    BY <1>0, <2>4 DEF EngineTrades, Starting, EngineUp, Unready, Alive
  <2>8. CASE EngineLeavesLoop
    BY <1>0, <2>8 DEF EngineLeavesLoop, Starting, EngineUp, Unready, Alive
  <2>5. CASE Flatten
    BY <1>0, <2>5 DEF Flatten, Starting, EngineUp, Unready, Alive
  <2>6. CASE RecordStop
    BY <1>0, <2>6 DEF RecordStop, Exits, Starting, EngineUp, Unready, Alive
  <2>7. CASE PersistStop
    BY <1>0, <2>7 DEF PersistStop, Exits, Starting, EngineUp, Unready, Alive
  <2> QED BY <1>4, <2>1, <2>2, <2>3, <2>4, <2>5, <2>6, <2>7, <2>8 DEF Engine
<1>5. CASE \E c \in Children : Dies(c)
  BY <1>0, <1>5 DEF Dies, Exits, Starting, EngineUp, Unready, Alive
<1>6. CASE \E r \in RunIds : UiWrites(r)
  BY <1>0, <1>6 DEF UiWrites, Starting, EngineUp, Unready, Alive
<1>7. CASE Over \/ UNCHANGED vars
  <2>1. UNCHANGED vars
    BY <1>7 DEF Over
  <2> QED BY <1>0, <2>1 DEF Starting, EngineUp, Unready, Alive
<1> QED BY <1>1, <1>2, <1>3, <1>4, <1>5, <1>6, <1>7 DEF Next

\* No living child is forgotten.
LEMMA KeptStep ==
  ASSUME TypeOK, Shape, Kept, Rows, Exposed, [Next]_vars
  PROVE  Kept'
<1> USE DEF vars, supVars, engineVars, lastVars, ghostVars, Kept, Children, Nobody
<1>0. Values
  BY TypeParts
<1> USE DEF Values
<1>1. ASSUME NEW order \in (SUBSET Children) \ {{}}, NEW backfill \in BOOLEAN,
             Launch(order, backfill)
      PROVE  Kept'
  BY <1>0, <1>1 DEF Launch, Alive, EngineUp, Starting, Unready, Shape
<1>2. CASE Supervise
  <2>1. CASE Backfill
    BY <1>0, <2>1 DEF Backfill, Alive, EngineUp, Starting, Unready, Shape
  <2>2. CASE Fork
    BY <1>0, <2>2 DEF Fork, Planned, Alive, EngineUp, Starting, Unready, Shape
  <2>3. CASE ForkFails
    BY <1>0, <2>3 DEF ForkFails, Alive, EngineUp, Starting, Unready, Shape
  <2>4. CASE Remember
    BY <1>0, <2>4 DEF Remember, Onward, Alive, EngineUp, Starting, Unready, Shape
  <2>5. CASE NameEngine
    BY <1>0, <2>5 DEF NameEngine, Onward, Alive, EngineUp, Starting, Unready, Shape
  <2>6. CASE Watch \/ HandleSignal
    BY <1>0, <2>6 DEF Watch, HandleSignal, BeginShutdown, Alive, EngineUp, Starting, Unready, Shape
  <2>7. CASE StopEngine
    BY <1>0, <2>7 DEF StopEngine, Exits, Alive, EngineUp, Starting, Unready, Shape
  <2>8. CASE EndGrace
    BY <1>0, <2>8 DEF EndGrace, Exits, Alive, EngineUp, Starting, Unready, Shape
  <2>9. CASE Mark
    BY <1>0, <2>9 DEF Mark, MustMark, Alive, EngineUp, Starting, Unready, Shape
  <2>10. CASE StopOthers
    BY <1>0, <2>10 DEF StopOthers, Others, Alive, EngineUp, Starting, Unready, Shape
  <2>11. CASE Reap
    BY <1>0, <2>11 DEF Reap, Others, Alive, EngineUp, Starting, Unready, Shape
  <2> QED BY <1>2, <2>1, <2>2, <2>3, <2>4, <2>5, <2>6, <2>7, <2>8, <2>9, <2>10, <2>11 DEF Supervise
<1>3. ASSUME NEW s \in {"INT", "TERM"}, Signalled(s)
      PROVE  Kept'
  BY <1>0, <1>3 DEF Signalled, Alive, EngineUp, Starting, Unready, Shape
<1>4. CASE Engine
  <2>1. CASE \E r \in RunIds : SyncOnStartup(r)
    BY <1>0, <2>1 DEF SyncOnStartup, Opened, Alive, EngineUp, Starting, Unready, Shape
  <2>2. CASE \E r \in RunIds : SwitchRun(r)
    BY <1>0, <2>2 DEF SwitchRun, Opened, Alive, EngineUp, Starting, Unready, Shape
  <2>3. CASE EngineStarts
    BY <1>0, <2>3 DEF EngineStarts, Exits, Opened, Alive, EngineUp, Starting, Unready, Shape
  <2>4. CASE EngineTrades
    BY <1>0, <2>4 DEF EngineTrades, Alive, EngineUp, Starting, Unready, Shape
  <2>8. CASE EngineLeavesLoop
    BY <1>0, <2>8 DEF EngineLeavesLoop, Alive, EngineUp, Starting, Unready, Shape
  <2>5. CASE Flatten
    BY <1>0, <2>5 DEF Flatten, Alive, EngineUp, Starting, Unready, Shape
  <2>6. CASE RecordStop
    BY <1>0, <2>6 DEF RecordStop, Exits, Alive, EngineUp, Starting, Unready, Shape
  <2>7. CASE PersistStop
    BY <1>0, <2>7 DEF PersistStop, Exits, Alive, EngineUp, Starting, Unready, Shape
  <2> QED BY <1>4, <2>1, <2>2, <2>3, <2>4, <2>5, <2>6, <2>7, <2>8 DEF Engine
<1>5. CASE \E c \in Children : Dies(c)
  BY <1>0, <1>5 DEF Dies, Exits, Alive, EngineUp, Starting, Unready, Shape
<1>6. CASE \E r \in RunIds : UiWrites(r)
  BY <1>0, <1>6 DEF UiWrites, Alive, EngineUp, Starting, Unready, Shape
<1>7. CASE Over \/ UNCHANGED vars
  <2>1. UNCHANGED vars
    BY <1>7 DEF Over
  <2> QED BY <1>0, <2>1 DEF Alive, EngineUp, Starting, Unready, Shape
<1> QED BY <1>1, <1>2, <1>3, <1>4, <1>5, <1>6, <1>7 DEF Next

\* No row is written after the last one who may close it.
LEMMA RowsStep ==
  ASSUME TypeOK, Shape, Kept, Rows, Exposed, [Next]_vars
  PROVE  Rows'
<1> USE DEF vars, supVars, engineVars, lastVars, ghostVars, Rows, Children, Nobody
<1>0. Values
  BY TypeParts
<1> USE DEF Values
<1>1. ASSUME NEW order \in (SUBSET Children) \ {{}}, NEW backfill \in BOOLEAN,
             Launch(order, backfill)
      PROVE  Rows'
  BY <1>0, <1>1 DEF Launch, Alive, EngineUp, Starting, Unready, Kept, Shape
<1>2. CASE Supervise
  <2>1. CASE Backfill
    BY <1>0, <2>1 DEF Backfill, Alive, EngineUp, Starting, Unready, Kept, Shape
  <2>2. CASE Fork
    BY <1>0, <2>2 DEF Fork, Planned, Alive, EngineUp, Starting, Unready, Kept, Shape
  <2>3. CASE ForkFails
    BY <1>0, <2>3 DEF ForkFails, Alive, EngineUp, Starting, Unready, Kept, Shape
  <2>4. CASE Remember
    BY <1>0, <2>4 DEF Remember, Onward, Alive, EngineUp, Starting, Unready, Kept, Shape
  <2>5. CASE NameEngine
    BY <1>0, <2>5 DEF NameEngine, Onward, Alive, EngineUp, Starting, Unready, Kept, Shape
  <2>6. CASE Watch \/ HandleSignal
    BY <1>0, <2>6 DEF Watch, HandleSignal, BeginShutdown, Alive, EngineUp, Starting, Unready, Kept, Shape
  <2>7. CASE StopEngine
    BY <1>0, <2>7 DEF StopEngine, Exits, Alive, EngineUp, Starting, Unready, Kept, Shape
  <2>8. CASE EndGrace
    BY <1>0, <2>8 DEF EndGrace, Exits, Alive, EngineUp, Starting, Unready, Kept, Shape
  <2>9. CASE Mark
    BY <1>0, <2>9, RowFacts, SupervisorAssumption DEF Mark, MustMark, Alive, EngineUp, Starting, Unready, Kept, Shape
  <2>10. CASE StopOthers
    BY <1>0, <2>10 DEF StopOthers, Others, Alive, EngineUp, Starting, Unready, Kept, Shape
  <2>11. CASE Reap
    BY <1>0, <2>11 DEF Reap, Others, Alive, EngineUp, Starting, Unready, Kept, Shape
  <2> QED BY <1>2, <2>1, <2>2, <2>3, <2>4, <2>5, <2>6, <2>7, <2>8, <2>9, <2>10, <2>11 DEF Supervise
<1>3. ASSUME NEW s \in {"INT", "TERM"}, Signalled(s)
      PROVE  Rows'
  BY <1>0, <1>3 DEF Signalled, Alive, EngineUp, Starting, Unready, Kept, Shape
<1>4. CASE Engine
  <2>1. CASE \E r \in RunIds : SyncOnStartup(r)
    BY <1>0, <2>1, RowFacts, SupervisorAssumption DEF SyncOnStartup, Opened, Alive, EngineUp, Starting, Unready, Kept, Shape
  <2>2. CASE \E r \in RunIds : SwitchRun(r)
    BY <1>0, <2>2, RowFacts, SupervisorAssumption DEF SwitchRun, Opened, Alive, EngineUp, Starting, Unready, Kept, Shape
  <2>3. CASE EngineStarts
    BY <1>0, <2>3, RowFacts, SupervisorAssumption DEF EngineStarts, Exits, Opened, Alive, EngineUp, Starting, Unready, Kept, Shape
  <2>4. CASE EngineTrades
    BY <1>0, <2>4 DEF EngineTrades, Alive, EngineUp, Starting, Unready, Kept, Shape
  <2>8. CASE EngineLeavesLoop
    BY <1>0, <2>8 DEF EngineLeavesLoop, Alive, EngineUp, Starting, Unready, Kept, Shape
  <2>5. CASE Flatten
    BY <1>0, <2>5 DEF Flatten, Alive, EngineUp, Starting, Unready, Kept, Shape
  <2>6. CASE RecordStop
    BY <1>0, <2>6, RowFacts, SupervisorAssumption DEF RecordStop, Exits, Alive, EngineUp, Starting, Unready, Kept, Shape
  <2>7. CASE PersistStop
    BY <1>0, <2>7 DEF PersistStop, Exits, Alive, EngineUp, Starting, Unready, Kept, Shape
  <2> QED BY <1>4, <2>1, <2>2, <2>3, <2>4, <2>5, <2>6, <2>7, <2>8 DEF Engine
<1>5. CASE \E c \in Children : Dies(c)
  BY <1>0, <1>5 DEF Dies, Exits, Alive, EngineUp, Starting, Unready, Kept, Shape
<1>6. CASE \E r \in RunIds : UiWrites(r)
  BY <1>0, <1>6 DEF UiWrites, Alive, EngineUp, Starting, Unready, Kept, Shape
<1>7. CASE Over \/ UNCHANGED vars
  <2>1. UNCHANGED vars
    BY <1>7 DEF Over
  <2> QED BY <1>0, <2>1 DEF Alive, EngineUp, Starting, Unready, Kept, Shape
<1> QED BY <1>1, <1>2, <1>3, <1>4, <1>5, <1>6, <1>7 DEF Next

\* A position is only left open by a cut.
LEMMA ExposedStep ==
  ASSUME TypeOK, Shape, Kept, Rows, Exposed, [Next]_vars
  PROVE  Exposed'
<1> USE DEF vars, supVars, engineVars, lastVars, ghostVars, Exposed, Children, Nobody
<1>0. Values
  BY TypeParts
<1> USE DEF Values
<1>1. ASSUME NEW order \in (SUBSET Children) \ {{}}, NEW backfill \in BOOLEAN,
             Launch(order, backfill)
      PROVE  Exposed'
  BY <1>0, <1>1 DEF Launch, Alive, EngineUp, Starting, Unready, Kept, Shape
<1>2. CASE Supervise
  <2>1. CASE Backfill
    BY <1>0, <2>1 DEF Backfill, Alive, EngineUp, Starting, Unready, Kept, Shape
  <2>2. CASE Fork
    BY <1>0, <2>2 DEF Fork, Planned, Alive, EngineUp, Starting, Unready, Kept, Shape
  <2>3. CASE ForkFails
    BY <1>0, <2>3 DEF ForkFails, Alive, EngineUp, Starting, Unready, Kept, Shape
  <2>4. CASE Remember
    BY <1>0, <2>4 DEF Remember, Onward, Alive, EngineUp, Starting, Unready, Kept, Shape
  <2>5. CASE NameEngine
    BY <1>0, <2>5 DEF NameEngine, Onward, Alive, EngineUp, Starting, Unready, Kept, Shape
  <2>6. CASE Watch \/ HandleSignal
    BY <1>0, <2>6 DEF Watch, HandleSignal, BeginShutdown, Alive, EngineUp, Starting, Unready, Kept, Shape
  <2>7. CASE StopEngine
    BY <1>0, <2>7 DEF StopEngine, Exits, Alive, EngineUp, Starting, Unready, Kept, Shape
  <2>8. CASE EndGrace
    BY <1>0, <2>8 DEF EndGrace, Exits, Alive, EngineUp, Starting, Unready, Kept, Shape
  <2>9. CASE Mark
    BY <1>0, <2>9 DEF Mark, MustMark, Alive, EngineUp, Starting, Unready, Kept, Shape
  <2>10. CASE StopOthers
    BY <1>0, <2>10 DEF StopOthers, Others, Alive, EngineUp, Starting, Unready, Kept, Shape
  <2>11. CASE Reap
    BY <1>0, <2>11 DEF Reap, Others, Alive, EngineUp, Starting, Unready, Kept, Shape
  <2> QED BY <1>2, <2>1, <2>2, <2>3, <2>4, <2>5, <2>6, <2>7, <2>8, <2>9, <2>10, <2>11 DEF Supervise
<1>3. ASSUME NEW s \in {"INT", "TERM"}, Signalled(s)
      PROVE  Exposed'
  BY <1>0, <1>3 DEF Signalled, Alive, EngineUp, Starting, Unready, Kept, Shape
<1>4. CASE Engine
  <2>1. CASE \E r \in RunIds : SyncOnStartup(r)
    BY <1>0, <2>1 DEF SyncOnStartup, Opened, Alive, EngineUp, Starting, Unready, Kept, Shape
  <2>2. CASE \E r \in RunIds : SwitchRun(r)
    BY <1>0, <2>2 DEF SwitchRun, Opened, Alive, EngineUp, Starting, Unready, Kept, Shape
  <2>3. CASE EngineStarts
    BY <1>0, <2>3 DEF EngineStarts, Exits, Opened, Alive, EngineUp, Starting, Unready, Kept, Shape
  <2>4. CASE EngineTrades
    BY <1>0, <2>4 DEF EngineTrades, Alive, EngineUp, Starting, Unready, Kept, Shape
  <2>8. CASE EngineLeavesLoop
    BY <1>0, <2>8 DEF EngineLeavesLoop, Alive, EngineUp, Starting, Unready, Kept, Shape
  <2>5. CASE Flatten
    BY <1>0, <2>5 DEF Flatten, Alive, EngineUp, Starting, Unready, Kept, Shape
  <2>6. CASE RecordStop
    BY <1>0, <2>6 DEF RecordStop, Exits, Alive, EngineUp, Starting, Unready, Kept, Shape
  <2>7. CASE PersistStop
    BY <1>0, <2>7 DEF PersistStop, Exits, Alive, EngineUp, Starting, Unready, Kept, Shape
  <2> QED BY <1>4, <2>1, <2>2, <2>3, <2>4, <2>5, <2>6, <2>7, <2>8 DEF Engine
<1>5. CASE \E c \in Children : Dies(c)
  BY <1>0, <1>5 DEF Dies, Exits, Alive, EngineUp, Starting, Unready, Kept, Shape
<1>6. CASE \E r \in RunIds : UiWrites(r)
  BY <1>0, <1>6 DEF UiWrites, Alive, EngineUp, Starting, Unready, Kept, Shape
<1>7. CASE Over \/ UNCHANGED vars
  <2>1. UNCHANGED vars
    BY <1>7 DEF Over
  <2> QED BY <1>0, <2>1 DEF Alive, EngineUp, Starting, Unready, Kept, Shape
<1> QED BY <1>1, <1>2, <1>3, <1>4, <1>5, <1>6, <1>7 DEF Next

-----------------------------------------------------------------------------
(* The theorems *)

\* Every step keeps the invariant.
LEMMA NextInv == Inv /\ [Next]_vars => Inv'
<1> SUFFICES ASSUME Inv, [Next]_vars PROVE Inv'
  OBVIOUS
<1>1. TypeOK /\ Shape /\ Kept /\ Rows /\ Exposed /\ Values /\ Bits
  BY TypeParts DEF Inv
<1>2. Values' /\ Bits'
  BY <1>1, ValueStep, BitStep
<1>3. Shape' /\ Kept' /\ Rows' /\ Exposed'
  BY <1>1, ShapeStep, KeptStep, RowsStep, ExposedStep
<1> QED BY <1>2, <1>3, TypeParts DEF Inv

\* It holds of every state.
LEMMA Invariant == Spec => []Inv
  BY InitInv, NextInv, PTL DEF Spec

\* The script's bookkeeping of its children (PROCS) and what lasts keep their types, and
\* a process is never both remembered and still in the hand of Popen.
THEOREM SupervisorTypes == Spec => []TypeOK
<1>1. Inv => TypeOK
  BY DEF Inv
<1> QED BY <1>1, Invariant, PTL

\* However many signals arrive and whatever fails, a script that ends leaves no child
\* behind, but for one that was forked and not yet on the list (run_engine.py:171-186), and
\* the ingest loop when the engine cannot be started.
THEOREM LeavesNoChild == Spec => []NoChildLeft
<1>1. Inv => NoChildLeft
  BY DEF Inv, Kept, NoChildLeft, Children, Nobody
<1> QED BY <1>1, Invariant, PTL

\* What engine_run says in the end: the row of the engine's run is as the engine left it
\* while running only if the engine did not record its end and its run is not the one of the
\* env files, or the correction failed; the row of the env files' run is always closed.
THEOREM EndIsShown == Spec => []StoppedShown
<1>1. Inv => StoppedShown
  BY DEF Inv, Rows, StoppedShown
<1> QED BY <1>1, Invariant, PTL

\* A stopped row over an open position means that stop() was cut short.
THEOREM OnlyCutsLeavePositions == Spec => []StoppedMeansFlat
<1>1. Inv => StoppedMeansFlat
  BY AliveFacts DEF Inv, Exposed, StoppedMeansFlat, Children
<1> QED BY <1>1, Invariant, PTL

\* Once begun, a shutdown is in one of its stages.
Begun ==
  shutting => sup \in {"stopEngine", "grace", "mark", "stopOthers", "reap", "ended"}

\* The stages come one after the other: a signal that is handled meanwhile begins nothing.
LEMMA StageStep ==
  ASSUME Values, Begun, [Next]_vars
  PROVE  Begun' /\ (shutting => sup' = sup \/ Stage' > Stage \/ sup = "ended")
<1> DEFINE Forth == shutting => sup' = sup \/ Stage' > Stage \/ sup = "ended"
<1> SUFFICES Begun' /\ Forth
  OBVIOUS
<1> USE DEF vars, supVars, Begun, Stage
<1>1. ASSUME NEW order \in (SUBSET Children) \ {{}}, NEW backfill \in BOOLEAN,
             Launch(order, backfill)
      PROVE  Begun' /\ Forth
  BY <1>1 DEF Launch
<1>2. CASE Backfill \/ Fork \/ ForkFails \/ Remember \/ NameEngine
  <2>1. sup \in {"backfill", "spawn", "forked", "listed"} /\ shutting' = shutting
    BY <1>2 DEF Backfill, Fork, ForkFails, Remember, NameEngine
  <2> QED BY <2>1
<1>3. CASE Watch
  BY <1>3 DEF Watch, BeginShutdown
<1>4. CASE HandleSignal
  BY <1>4 DEF HandleSignal, BeginShutdown
<1>5. CASE StopEngine \/ EndGrace \/ Mark \/ StopOthers \/ Reap
  <2>1. /\ shutting' = shutting
        /\ <<sup, sup'>> \in {<<"stopEngine", "grace">>, <<"stopEngine", "mark">>,
                              <<"grace", "mark">>, <<"mark", "stopOthers">>,
                              <<"stopOthers", "reap">>, <<"reap", "ended">>}
    BY <1>5 DEF StopEngine, EndGrace, Mark, StopOthers, Reap
  <2> QED BY <2>1
<1>6. CASE \/ \E s \in {"INT", "TERM"} : Signalled(s)
           \/ \E r \in RunIds : UiWrites(r)
           \/ Over
           \/ UNCHANGED vars
  BY <1>6 DEF Signalled, UiWrites, Over
<1>7. CASE Engine \/ \E c \in Children : Dies(c)
  BY <1>7 DEF Engine, SyncOnStartup, SwitchRun, EngineStarts, EngineTrades, EngineLeavesLoop, Flatten, RecordStop,
     PersistStop, Dies
<1> QED BY <1>1, <1>2, <1>3, <1>4, <1>5, <1>6, <1>7 DEF Next, Supervise

\* _shutdown runs once: no signal and no child that ends makes a stage, and with it a grace
\* period, begin again (run_engine.py:85).
THEOREM ShutsDownOnce == Spec => ShutdownOnce
<1>1. Init => Begun
  BY DEF Init, Begun
<1>2. Inv /\ Begun /\ [Next]_vars => Begun'
  BY StageStep, TypeParts DEF Inv
<1>3. ASSUME Inv, Begun, [Next]_vars, shutting
      PROVE  Stage > 0 /\ (sup' = sup \/ Stage' > Stage \/ sup = "ended")
  <2>1. Stage > 0
    BY <1>3 DEF Begun, Stage
  <2> QED BY <1>3, <2>1, StageStep, TypeParts DEF Inv
<1>4. Inv /\ Begun /\ [Next]_vars
        => [shutting => Stage > 0 /\ (sup' = sup \/ Stage' > Stage \/ sup = "ended")]_vars
  BY <1>3
<1> QED BY <1>1, <1>2, <1>4, Invariant, PTL DEF Spec, ShutdownOnce
===============================================================================
