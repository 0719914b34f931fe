------------------------------ MODULE SignalPath ------------------------------
(***************************************************************************)
(* From candles to a decision: the candle gate of the TimesFM and FinCast  *)
(* predictors, the autopilot (adaptive threshold, confirmations by market  *)
(* regime), the consecutive-signal policy, and what the engine does with   *)
(* its answer, entering or leaving a position.                             *)
(*                                                                         *)
(* The ingest process writes candles while a prediction is under way, so a *)
(* prediction is cut at its three reads of the candle table: the gate, the *)
(* history, and the open time stored after the forecast.  One symbol.      *)
(* Scores and thresholds are integers, a threshold in hundredths of the    *)
(* unit of scores.  Times, prices and the forecast itself are choices.     *)
(***************************************************************************)
EXTENDS Integers, Sequences, FiniteSets

CONSTANTS
  MaxCandle,   \* candles ingested (a bound)
  Scores,      \* expected returns a forecast can give
  Floor,       \* compute_entry_threshold of the configuration
  ExitPct,     \* exit threshold in percent of the entry threshold
  Window, MinSamples, Percent,   \* score_window, score_min_samples, score_percentile
  Needs, ApNeeds, \* confirmations configured for the policy, and for the autopilot
  Modes, Kinds,   \* signal modes and predictor types that are configured
  HighVolDelta \* high_vol_consecutive_delta

ASSUME SignalAssumption ==
  /\ MaxCandle \in Nat /\ Scores \subseteq Int /\ Floor \in Nat /\ ExitPct \in Nat
  /\ Window \in Nat \ {0} /\ MinSamples \in Nat \ {0} /\ Percent \in 0 .. 100
  /\ Needs # {} /\ Needs \subseteq Nat \ {0}
  /\ ApNeeds # {} /\ ApNeeds \subseteq Nat \ {0} /\ HighVolDelta \in Nat
  /\ Modes # {} /\ Modes \subseteq {"long_only", "long_short"}
  /\ Kinds # {} /\ Kinds \subseteq {"timesfm", "fincast"}

VARIABLES
  \* the database
  candle,      \* open time of the newest candle, 0 for none
  rows,        \* |score| of the newest model_inference_event rows, Window at most
  config,      \* the effective configuration
  \* the predictor
  loaded,      \* a model is loaded
  broken,      \* _price_history_provider_failed
  lastInfer,   \* _last_infer_candle_open_time, 0 for none
  entryThr,    \* _entry_threshold
  \* the policy
  required, mode, history,
  \* the autopilot
  autopilot,   \* "none" when it was off at boot, else "on" or "off"
  scores,      \* the calibrator's deque
  \* the engine
  pos, trading,
  pc,          \* "idle", "decide", "read", "infer"
  seen,        \* newest candle of the history that was read, 0 without one
  \* bookkeeping of the model
  counted,     \* newest candle of the last forecast of this predictor
  blind,       \* an open time could not be read at the gate or after the forecast
  streak       \* how often the last signal was heard in a row

dbVars == <<candle, rows, config>>
predictorVars == <<loaded, broken, lastInfer, entryThr>>
policyVars == <<required, mode, history>>
engineVars == <<pos, trading>>
ghostVars == <<counted, blind, streak>>
vars == <<dbVars, predictorVars, policyVars, autopilot, scores, engineVars, pc, seen,
          ghostVars>>

Signals == {"BUY", "HOLD", "SELL"}
NoStreak == [dir |-> "none", count |-> 0]
Config == [need : Needs, apNeed : ApNeeds, mode : Modes, autopilot : BOOLEAN, kind : Kinds]

Abs(n) == IF n < 0 THEN -n ELSE n
MaxOf(a, b) == IF a > b THEN a ELSE b

-----------------------------------------------------------------------------
(* The consecutive-signal policy *)

\* Mutant of Record: a list that never drops.
RecordUnbounded(h, a) == Append(h, a)

\* deque(maxlen=required).append
Record(h, a) ==
  IF Len(h) < required THEN Append(h, a) ELSE Append(Tail(h), a)

\* Mutant of IsConsecutive: the signals that are there agree.
IsAgreeing(h, a) == h # <<>> /\ \A i \in DOMAIN h : h[i] = a

IsConsecutive(h, a) == Len(h) = required /\ \A i \in DOMAIN h : h[i] = a

AllowsEntry(h, a) ==
  /\ a = "BUY" \/ (a = "SELL" /\ mode = "long_short")
  /\ IsConsecutive(h, a)

AllowsLongExit(h) == IsConsecutive(h, "SELL")

AllowsShortExit(h) == mode = "long_short" /\ IsConsecutive(h, "BUY")

\* The run of equal signals (not in the code: the policy keeps the signals).
Heard(a) ==
  [dir |-> a,
   count |-> IF a # streak.dir THEN 1
             ELSE IF streak.count < required THEN streak.count + 1 ELSE streak.count]

\* reset(symbol)
Reset == history' = <<>> /\ streak' = NoStreak

\* set_consecutive_required: the history goes when the number changes.
SetRequired(n) ==
  /\ required' = n
  /\ IF n = required THEN UNCHANGED <<history, streak>> ELSE Reset

-----------------------------------------------------------------------------
(* The autopilot *)

LastOf(s, n) == IF Len(s) <= n THEN s ELSE SubSeq(s, Len(s) - n + 1, Len(s))

\* ThresholdCalibrator.record
AddScore(s, x) == LastOf(Append(s, Abs(x)), Window)

\* round(p / 100 * n): to the even neighbour from halfway.
Rank(n) ==
  LET down == (Percent * n) \div 100
      rest == (Percent * n) % 100
  IN  IF rest > 50 \/ (rest = 50 /\ down % 2 = 1) THEN down + 1 ELSE down

\* sorted(scores)[round(p / 100 * (len - 1))]
Percentile(s) ==
  LET idx == Rank(Len(s) - 1)
  IN  CHOOSE v \in {s[i] : i \in DOMAIN s} :
        /\ Cardinality({i \in DOMAIN s : s[i] < v}) <= idx
        /\ idx < Cardinality({i \in DOMAIN s : s[i] <= v})

ComputeThreshold(s) ==
  IF Len(s) < MinSamples THEN Floor ELSE MaxOf(Floor, 100 * Percentile(s))

\* RegimeDetector.detect: the volatility decides before the trend does; too few
\* bars, or none because they could not be read, make no regime.
Detect(enough, vol, trend) ==
  IF ~enough THEN "unknown"
  ELSE CASE vol = "high" -> "high_vol"
         [] vol = "low" -> "low_vol"
         [] OTHER -> IF trend THEN "trending" ELSE "ranging"

ThresholdPct(r) ==
  CASE r = "high_vol" -> 150 [] r = "low_vol" -> 85 [] r = "ranging" -> 120
    [] OTHER -> 100

ConsecutiveDelta(r) ==
  CASE r = "high_vol" -> HighVolDelta [] r = "ranging" -> 1 [] OTHER -> 0

\* set_thresholds ignores what is not positive.
SetThreshold(t) == entryThr' = IF t > 0 THEN t ELSE entryThr

\* apply_before_predict
ApplyAutopilot(r) ==
  IF autopilot = "on"
  THEN /\ SetThreshold((ComputeThreshold(scores) * ThresholdPct(r)) \div 100)
       /\ SetRequired(config.apNeed + ConsecutiveDelta(r))
  ELSE UNCHANGED <<entryThr, required, history, streak>>

\* record_prediction_score
RecordScore(x) == scores' = IF autopilot = "on" THEN AddScore(scores, x) ELSE scores

SaveInference(x) == rows' = LastOf(Append(rows, Abs(x)), Window)

-----------------------------------------------------------------------------
(* The ingest process *)

\* ingest_ohlcv_once upserts the candle that has begun since the last poll; a
\* failing request upserts nothing.
Ingest ==
  /\ candle < MaxCandle
  /\ candle' = candle + 1
  /\ UNCHANGED <<rows, config, predictorVars, policyVars, autopilot, scores, engineVars,
                 pc, seen, ghostVars>>

-----------------------------------------------------------------------------
(* A tick of the engine *)

\* The exchange is asked first: a position can have ended (and the policy is
\* reset) or appear, or turn out to be on the other side (and it is not).
Sync ==
  /\ pc = "idle" /\ pc' = "decide"
  /\ \/ UNCHANGED <<pos, history, streak>>
     \/ pos # "flat" /\ pos' = "flat" /\ Reset
     \/ pos' \in {"LONG", "SHORT"} \ {pos} /\ UNCHANGED <<history, streak>>
  /\ UNCHANGED <<dbVars, predictorVars, required, mode, autopilot, scores, trading, seen,
                 counted, blind>>

\* Flat and off: nothing is predicted.
SkipTick ==
  /\ pc = "decide" /\ pos = "flat" /\ ~trading
  /\ pc' = "idle"
  /\ UNCHANGED <<dbVars, predictorVars, policyVars, autopilot, scores, engineVars, seen,
                 ghostVars>>

\* TP or SL is reached: an exit order, which fills or does not.
TakeExit ==
  /\ pc = "decide" /\ pos # "flat"
  /\ pc' = "idle"
  /\ \/ pos' = "flat" /\ Reset
     \/ UNCHANGED <<pos, history, streak>>
  /\ UNCHANGED <<dbVars, predictorVars, required, mode, autopilot, scores, trading, seen,
                 counted, blind>>

BeginPrediction ==
  /\ pc = "decide" /\ (pos # "flat" \/ trading)
  /\ pc' = "gate"
  /\ \E enough, trend \in BOOLEAN, vol \in {"high", "mid", "low"} :
       ApplyAutopilot(Detect(enough, vol, trend))
  /\ UNCHANGED <<dbVars, loaded, broken, lastInfer, mode, autopilot, scores, engineVars,
                 seen, counted, blind>>

\* The latest open time, or none: no candle, or the query failed.
OpenTimes == {candle, 0}

\* Mutant of IsNewCandle: the candle of the last forecast passes.
IsNoOlderCandle(open) == open = 0 \/ open >= lastInfer

IsNewCandle(open) == open = 0 \/ open > lastInfer

\* The gate is closed: HOLD with score 0, which the engine records like any
\* score, and saves while it is flat; the policy does not hear it.
AwaitCandle ==
  /\ pc = "gate" /\ \E open \in OpenTimes : ~IsNewCandle(open)
  /\ pc' = "idle"
  /\ RecordScore(0)
  /\ IF pos = "flat" THEN SaveInference(0) ELSE UNCHANGED rows
  /\ UNCHANGED <<candle, config, predictorVars, policyVars, autopilot, engineVars, seen,
                 ghostVars>>

PassGate ==
  /\ pc = "gate"
  /\ \E open \in OpenTimes : IsNewCandle(open) /\ blind' = (blind \/ open = 0)
  /\ pc' = "read"
  /\ UNCHANGED <<dbVars, predictorVars, policyVars, autopilot, scores, engineVars, seen,
                 counted, streak>>

\* The policy hears the signal and the engine acts on it, or not: an entry has
\* the strategy, the risk checks and the exchange before it, an exit the
\* minimum holding time and the exchange.
Hear(a) ==
  LET h == Record(history, a) IN
  \/ history' = h /\ streak' = Heard(a) /\ UNCHANGED pos
  \/ /\ pos = "flat" /\ AllowsEntry(h, a)
     /\ pos' = IF a = "BUY" THEN "LONG" ELSE "SHORT"
     /\ Reset
  \/ /\ (pos = "LONG" /\ AllowsLongExit(h)) \/ (pos = "SHORT" /\ AllowsShortExit(h))
     /\ pos' = "flat"
     /\ Reset

Answer(a, x) ==
  /\ pc' = "idle" /\ seen' = 0
  /\ RecordScore(x) /\ SaveInference(x)
  /\ Hear(a)
  /\ UNCHANGED <<candle, config, required, mode, autopilot, trading>>

\* The history comes from the table, or from the ticks once a read has failed
\* or while the table holds too little.
ReadHistory ==
  /\ pc = "read"
  /\ broken' \in {broken, TRUE}
  /\ \/ /\ loaded /\ pc' = "infer"
        /\ seen' \in IF broken' THEN {0} ELSE OpenTimes
        /\ UNCHANGED <<candle, rows, config, policyVars, autopilot, scores, engineVars, streak>>
     \/ Answer("HOLD", 0)      \* model_unloaded, insufficient_context
  /\ UNCHANGED <<loaded, lastInfer, entryThr, counted, blind>>

\* After the forecast the latest open time is read again and stored.
StampedOpen(open) == IF open # 0 THEN open ELSE lastInfer

Threshold == IF pos = "flat" THEN entryThr ELSE (entryThr * ExitPct) \div 100

ToAction(x) ==
  IF 100 * x > Threshold THEN "BUY" ELSE IF 100 * x < -Threshold THEN "SELL" ELSE "HOLD"

Forecast ==
  /\ pc = "infer"
  /\ \E x \in Scores, open \in OpenTimes :
       /\ lastInfer' = StampedOpen(open)
       /\ blind' = (open = 0)
       /\ counted' = IF seen # 0 THEN seen ELSE counted
       /\ Answer(ToAction(x), x)
  /\ UNCHANGED <<loaded, broken, entryThr>>

ForecastFails ==
  /\ pc = "infer"
  /\ Answer("HOLD", 0)
  /\ UNCHANGED <<predictorVars, counted, blind>>

\* The two predictors go through the same steps.
Predict == AwaitCandle \/ PassGate \/ ReadHistory \/ Forecast \/ ForecastFails
TimesFMPredict == config.kind = "timesfm" /\ Predict
FinCastPredict == config.kind = "fincast" /\ Predict

-----------------------------------------------------------------------------
(* Between ticks *)

\* A new predictor object; its model loads or does not.
LoadPredictor ==
  /\ loaded' \in BOOLEAN
  /\ broken' = FALSE /\ lastInfer' = 0 /\ entryThr' = Floor
  /\ counted' = 0 /\ blind' = FALSE

\* apply_runtime_config: the predictor is replaced when its type or its model
\* parameters changed, the calibrator always.
ApplyConfig(c, reload) ==
  /\ pc = "idle"
  /\ config' = c
  /\ required' = c.need /\ mode' = c.mode
  /\ IF c.need = required /\ c.mode = mode THEN UNCHANGED <<history, streak>> ELSE Reset
  /\ IF autopilot = "none" THEN UNCHANGED <<autopilot, scores>>
     ELSE autopilot' = (IF c.autopilot THEN "on" ELSE "off") /\ scores' = <<>>
  /\ c.kind # config.kind => reload
  /\ IF reload THEN LoadPredictor
     ELSE SetThreshold(Floor) /\ UNCHANGED <<loaded, broken, lastInfer, counted, blind>>
  /\ UNCHANGED <<candle, rows, engineVars, pc, seen>>

SetTrading(b) ==
  /\ pc = "idle"
  /\ trading' = b
  /\ UNCHANGED <<dbVars, predictorVars, policyVars, autopilot, scores, pos, pc, seen,
                 ghostVars>>

\* The process dies at any point and is started again: what the tables and the
\* exchange hold is left, and the calibrator is filled from the stored rows.
Restart ==
  /\ LoadPredictor
  /\ required' = config.need /\ mode' = config.mode /\ Reset
  /\ autopilot' = IF config.autopilot THEN "on" ELSE "none"
  /\ scores' = IF config.autopilot THEN rows ELSE <<>>
  /\ trading' = FALSE /\ pc' = "idle" /\ seen' = 0
  /\ UNCHANGED <<dbVars, pos>>

Init ==
  /\ candle = 0 /\ rows = <<>> /\ config \in Config
  /\ loaded \in BOOLEAN /\ broken = FALSE /\ lastInfer = 0 /\ entryThr = Floor
  /\ required = config.need /\ mode = config.mode /\ history = <<>>
  /\ autopilot = (IF config.autopilot THEN "on" ELSE "none") /\ scores = <<>>
  /\ pos = "flat" /\ trading = FALSE /\ pc = "idle" /\ seen = 0
  /\ counted = 0 /\ blind = FALSE /\ streak = NoStreak

Next ==
  \/ Ingest
  \/ Sync \/ SkipTick \/ TakeExit \/ BeginPrediction
  \/ TimesFMPredict \/ FinCastPredict
  \/ \E c \in Config, reload \in BOOLEAN : ApplyConfig(c, reload)
  \/ \E b \in BOOLEAN : SetTrading(b)
  \/ Restart

Spec == Init /\ [][Next]_vars

-----------------------------------------------------------------------------
(* Properties *)

\* Types; the deques keep within their bounds.
TypeOK ==
  /\ candle \in 0 .. MaxCandle /\ config \in Config
  /\ rows \in Seq(Nat) /\ Len(rows) <= Window
  /\ scores \in Seq(Nat) /\ Len(scores) <= Window
  /\ loaded \in BOOLEAN /\ broken \in BOOLEAN /\ blind \in BOOLEAN
  /\ lastInfer \in 0 .. candle /\ seen \in 0 .. candle /\ counted \in 0 .. candle
  /\ entryThr \in Nat
  /\ required \in Nat \ {0} /\ mode \in Modes
  /\ history \in Seq(Signals) /\ Len(history) <= required
  /\ autopilot \in {"none", "on", "off"}
  /\ pos \in {"flat", "LONG", "SHORT"} /\ trading \in BOOLEAN
  /\ pc \in {"idle", "decide", "gate", "read", "infer"}
  /\ streak \in [dir : Signals \cup {"none"}, count : Nat] /\ streak.count <= required

\* The kept history is the tail of what was heard: the run of equal signals ends
\* it, and the signal before the run, where it is still there, is another one.
HistoryIsStreak ==
  /\ streak.count <= Len(history)
  /\ history = <<>> <=> streak = NoStreak
  /\ \A i \in DOMAIN history :
       /\ i > Len(history) - streak.count => history[i] = streak.dir
       /\ i = Len(history) - streak.count => history[i] # streak.dir

Promise == INSTANCE Confirmation WITH
  need <- required, dir <- streak.dir, count <- streak.count,
  hearing <- pc \in {"gate", "read", "infer"}

\* The engine enters and leaves on the model's word only as Confirmation
\* promises: after a full run of equal signals heard since the position last
\* changed hands, the parameters changed or the process started.
ConfirmedOnly == Promise!Spec

\* Unless an open time could not be read, no candle is the newest of two
\* forecasts of a predictor: one candle never counts as two confirmations, also
\* when the next one is written while a prediction is under way.
EachCandleOnce == pc = "infer" /\ seen # 0 /\ ~blind => seen > counted
===============================================================================
