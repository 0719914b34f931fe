# Verification of the Binnair trading engine

TLA+ models of the trading engine under `src/src/binnair_trading_engine`, checked
with TLC on small instances and proved with TLAPS for every value of the constants.
All paths below are relative to that package unless they start with `src/`.

## 1. The system

A *trading engine* process trades one symbol on Binance USDT-M futures (one-way
mode). Every poll interval it fetches a market snapshot and runs one tick:
reconcile the remembered position with the exchange, then either look after the
open position (TP/SL, model exit) or look for an entry (predictor → signal policy
→ sizing → risk checks → market order). An *API* process serves the UI: it
changes the engine's configuration and switches trading on and off through
database tables, and streams the account to browsers. A *supervisor* script
starts both with an OHLCV ingest loop and shuts them down.

| component | code | state it keeps | operations | interacts by |
|---|---|---|---|---|
| trading engine | `engine/core.py`, `app/` | trading flag, position manager, shutdown flag | start, process_tick, exit tick, submit exit, sync, stop/flatten | REST to the exchange, commits to Postgres |
| position manager | `position/manager.py` | one open position per symbol | open, close, correct, restore | called by the engine |
| futures adapter | `exchange/binance_futures.py` | none (exchange holds it) | place_order and fill polls, place_exit_orders, get_position | HTTPS, each call may fail or time out |
| paper adapter | `exchange/paper.py` | an inventory | the same | in memory |
| storage | `storage/postgres_db.py`, `infra/persistence` | order_request, position_snapshot, trade_result, performance_daily, engine_run … | one transaction per repository call | Postgres |
| runtime control | `engine/runtime_control.py`, `api/services/runtime_control_service.py` | engine_runtime_state, engine_command, engine_run; last version seen by the poller | save, start, stop; boot sync, poll | shared tables only |
| signal policy, entry pipeline | `signal/policy.py`, `engine/entry_pipeline.py` | consecutive-signal history | process | called per tick |
| risk checker | `risk/default.py` | loss streak, pause | check, record_trade_result | called before entry, after close |
| exit manager | `strategy/exit_manager.py` | none | check_exit | called per tick |
| sizing, strategy | `risk/sizing.py`, `strategy/passthrough.py` | none | quantity, TP/SL | called per entry |
| autopilot | `autopilot/` | calibration window, regime | thresholds, TP/SL before predict | changes policy and predictor |
| predictors | `predictor/` | last candle seen | predict | history provider |
| live stream | `api/services/live_hub.py`, `live_bridge.py` | latest account snapshot, clients | merge, broadcast, refresh | user-data websocket, REST |
| market data | `market_data/` | OHLCV tables | backfill, ingest loop | REST, Postgres |
| supervisor | `src/scripts/run_engine.py` | child processes | spawn, graceful stop, kill | signals, engine_run |
| read API | `api/repositories`, `api/services/history_service.py` | none | queries | Postgres |

Hard behaviours: a position lives in three places (exchange, memory, tables) and
every step between them can fail; orders may fill after the engine has stopped
waiting; a timed-out request may have been executed; the process may die between
a fill and its commit; the control tables are written by two processes without
transactions spanning read and write; commands are replayed after a crash;
shutdown must end and should end flat. `PROJECT.json` lists them one by one under
`hazards`, each with the properties that watch it.

What makes each component correct: *engine* – memory and tables agree between
ticks, never more than one entry's exposure, exits only reduce, stop ends and ends
flat; *storage* – a closed trade is booked once; *runtime control* – trading is on
exactly when it was asked for and the stored configuration is the one that runs;
*risk checker* – pauses and limits hold over time, an entry's loss at its stop stays
in its budget; *policy* – a signal is confirmed by the required run of equal signals,
and no candle confirms twice; *live stream* – a client ends up with the latest account
state, and the stream comes back; *supervisor* – it ends, leaves no process and no
run shown as active; *read API* – the reports that are computed from different tables
agree, fills are shown, pages skip nothing.

## 2. Modules

| module | contents | checked by | proved in |
|---|---|---|---|
| `TradingEngine` | the engine with exchange, position manager and position tables | `MCTradingEngine`, `TradingEngine*.cfg` | `TradingEngine_proofs` |
| `PositionLedger` | abstract: what the position tables promise, whatever fails | as the property `LedgerKept` of `TradingEngine` | `PositionLedger_proofs` |
| `RuntimeControl` | API service, poller and the three control tables | `MCRuntimeControl`, `RuntimeControl*.cfg` | `RuntimeControl_proofs` |
| `Confirmation` | abstract: what the signal path promises about trading on the model's word | as the property `ConfirmedOnly` of `SignalPath` | `SignalPath_proofs` |
| `SignalPath` | candles, predictor, autopilot, policy, pipeline and exit on a signal | `MCSignalPath` | `SignalPath_proofs` |
| `RiskGate` | sizing, TP/SL, risk checker, exit check, paper exchange | `MCRiskGate` | `RiskGate_proofs` |
| `LiveStream` | bridge, hub, WebSocket clients, Binance's user stream | `MCLiveStream` | `LiveStream_proofs` |
| `Supervisor` | the supervisor script and its two processes | `MCSupervisor` | `Supervisor_proofs` |
| `Records` | the trade schema as written by the engine and read by the API | `MCRecords` | `Records_proofs` |

`SignalPath` decides *whether* to enter, `RiskGate` *how much and whether it may*,
`TradingEngine` what becomes of the order, and `Records` which rows it leaves;
each takes what the others decide as a choice. They are separate because their steps
interleave with different partners: candles and configuration, time and results,
the exchange, readers. `RuntimeControl` and `Supervisor` are the two ways the
engine is switched from outside.

### TradingEngine

*State.* `exch` is the signed net position of the account; `entryOpen`, `lateExits`
and `prot` are orders the exchange still works on after the engine stopped waiting.
`local` is `PositionManager`'s open position; `closing` the closed one between
`close_position` and its two commits; `ord` the `Order` being placed. `snap` is what
`get_latest_open_position_snapshots` would return, `closedIds` and `rows` the CLOSED
snapshots and `trade_result` rows, `recent` the sides of `order_request` rows inside
the duplicate-order window. `pc` names the next REST call or commit: the process
is single threaded, so these are the only points where the exchange, a failure or a
crash can come in between. `next` is where control goes after a position was saved.

*Actions.* `Boot`, `StartSync`, `Started`: bootstrap and `start()`. `TickSync`,
`DecideNothing/Exit/Entry`: `process_tick` and `_process_exit_tick`. `ExitCheck`,
`SendAccepted/Rejected`, `PollFilled/Exhausted/Cancelled`, `SaveEntryOrder`,
`SaveExitOrder`, `ResyncAfterExit`: `_submit_exit_order`, `place_order` with
`_wait_for_market_fill`, and what follows. `ProtectTP/SL`: `place_exit_orders`.
`SaveOpen`, `SaveClosed`, `SaveTrade`: the commits of `save_position`.
`StopRequested`, `FlattenSync`, `FlattenPick`, `Exit`: `stop()`. `Raise` is any call or
commit that throws (a timed-out order may still have been accepted); `Crash` kills the
process. The exchange's own actions fill, expire and trigger orders or lose the
position to a liquidation or a manual close.

*Rounding.* `place_order` sends floor(qty/step)*step in floats, which for some multiples of
the step is a whole step less (0.3/0.1 is 2.99…, so 0.2 is sent). `Lossy` is the set of those numbers of lots,
`RoundQtyDown` the conversion, and `Sent` what is asked for: an exit is of whole lots and may lose one; the
number of an entry stands for what the floor left of the sized quantity, and a quantity
below one step is refused without a request.

*Abstracted.* Quantities are lots, adopted positions whole numbers of them; prices, signals, TP/SL levels and the risk checks
other than the duplicate window are the choices `DecideEntry`/`DecideExit` leave open.
A position's `id` stands for its row identity and is bookkeeping for
`LedgerKept`. `apply_runtime_config` and the autopilot change only what those
choices depend on.

### PositionLedger

The abstract specification of the position tables of one symbol: at most one open position,
the identities that have a CLOSED snapshot, the `trade_result` rows of each, and the position that
was closed and is to be booked next. `Open` stores a position that was never closed, or corrects the
stored one; `Close` takes the stored one away and marks it closed; `Book` writes its one row, as the
next thing after the close; `Interrupted` is a crash or the beginning of stop(), after which a
trade that was not booked never is. Only once stop() has begun may another position take
the place of the stored one (`Replace`) or one be closed that was never stored (`Close`): a position whose
first snapshot failed is flattened all the same. `TradingEngine` implements it with
`open <- snap`, `closed <- closedIds`, `ending <- stopping`, and `closing` as the pending one at the
commit of the trade row.

### RuntimeControl

*State.* `state`, `cmds`, `run` are the rows of engine_runtime_state, engine_command and
engine_run; `trading`, `applied`, `last` the engine's flag, effective configuration and
`_last_config_version`; `ep` its next read or commit; `req` what each API worker is
in the middle of. `requests`, `crashes`, `faults`, `pressed`, `asked` are
bookkeeping.

*Actions.* `BeginSave` (of save_config, also inside start), `BeginStop`, `WriteState`,
`Enqueue`, `SetRunActive`: each a transaction of the service, in the order of the code.
`Boot`, `SyncOnStartup`, `ClearEnabled`, `SyncRunStatus`, `ProcessCommand`, `MarkDone`,
`CommandFails`, `NoCommand`, `Poll`, `SyncConfigVersion`: bootstrap and the poller.

*Abstracted.* A configuration maps keys to the request that set them last; one user
and one run_id.

### Confirmation and SignalPath

`Confirmation` is the abstract specification: a position, a count of equal signals heard
in a row, and six actions. A position is entered or left on a model signal only
when the signal completes a run of `need` equal ones, none heard before the last
entry, exit, restart or change of parameters; an adopted position alone keeps the run.

`SignalPath` is the code. *State*: the newest candle and the inference rows of the
database (`candle`, `rows`, `config`), the predictor's `loaded`, `broken`
(`_price_history_provider_failed`), `lastInfer`, `entryThr`, the policy's `required`,
`mode`, `history`, the calibrator's `scores`, the position and the trading flag. `pc`
cuts a prediction at its three reads of the candle table, between which the ingest process
writes. *Actions*: `Ingest`; `Sync`, `SkipTick`, `TakeExit` (TP/SL and sync ends),
`BeginPrediction` (autopilot before predict, `apply_before_predict`), the predictions of both kinds
(`PassGate`, `ReadHistory`, `Forecast`, with the failing and awaiting branches) up to
`Answer`, which records the score, saves the inference and hears the signal; `ApplyConfig`,
`SetTrading`, `Restart`. *Abstracted*: a forecast is any score; thresholds are integers
in hundredths of a score's unit; the regime is a choice among those `detect` can return.

### RiskGate

*State*: `limits`, `losses`, `pausedUntil` of the checker; the position with its exit
prices and where it came from; `book`, the paper exchange's own inventory; `lastOrder` and `cash`,
what the duplicate query and `get_daily_pnl` read. *Actions*: `Enter` (sizing, TP/SL, all five
checks in order, order, rows, position), `Refuse`, `Leave`, `Gone`, `Adopt`, `Turned`, the
crashes inside an entry and an exit, `Restart`, `Reconfigure`, `Tick`. *Abstracted*: prices and
quantities are whole numbers, so the quantity is rounded down (`RiskBudgetKept` bounds the order
value from below for one quantity more), an order is filled whole; the exchange's failures and the rounding to
its step are in `TradingEngine`. An order is sized and checked, and its TP/SL are set, from the price the tick saw;
`Fills` are the prices it can be filled at: that price on paper, one within `Slip` of it live, where
the position's entry, and the exit price that is booked, are `avgPrice` of the order. A market order
can be filled further off than any bound: the properties hold with the slippage there was.

### LiveStream

*State*: the account's version and the events on the wire; the listen key and the state
of the user stream loop; `snap` the hub's cache; per task the REST call (`fetch`) and the
broadcast (`out`) it is in the middle of; the clients, the hub's list of them and what
each shows. The API process is one event loop, so a step is what runs between two awaits; REST
reads run in threads, in two steps. *Actions*: `Rest`, `Sends`, `PaperPoll`, `EnsureKey`,
`Connect`, `ConnectRaises`, `HandleEvent`, `MarkPrice`, `Cut`, `KeyExpires`; `Register`, `Leave`,
`AskRefresh`, `Return` of clients; `Stop`, `Ended`. *Abstracted*: the account is the number of its
last change.

### Supervisor

*State*: the script's place, the children still to start, the one that `Popen` returned but
nothing remembers yet (`forked`), `PROCS`, whether `_ENGINE_PROC` is set (`named`), the pending signal,
`_SHUTTING_DOWN`; of each child how far it is; the run_id of the engine's context; position and the rows of engine_run, which
outlast the processes. engine_run has a row per run_id and three writers: the engine for its own
run_id (that of the env files at first, of the stored configuration once one is applied), the script's correction for
the run_id of the env files, and the API for the stored one. A row is `"engine"` or `"ui"` by who last wrote
running or paused into it, `"stopped"`, or not there.
*Actions*: `Launch`, `Backfill`, `Fork`, `ForkFails`, `Remember`, `NameEngine`, `Watch`, `HandleSignal`, `StopEngine`,
`EndGrace`, `Mark`, `StopOthers`, `Reap` of the script; `SyncOnStartup` (opens the row before `start()`), `EngineStarts`,
`SwitchRun`, `EngineTrades`, `EngineLeavesLoop`, `Flatten`, `RecordStop`, `PersistStop` of the engine; `UiWrites` of the
API; `Signalled`, `Dies`. A signal can be handled between any two steps.

### Records

*State*: the six tables, as sequences of rows; what became of each order at the exchange; the
engine's run, position and next commit; the day; a reader. *Actions*: `Send`, `SaveRequest`,
`SaveExecution`, `SaveSnapshot`, `RecordClosedTrade`, `SaveProtection`, `SaveEquity`, `SaveOpening`
(one commit each), `Gone`, `TakeOver` (the sync of a tick or of a start), `Start` (recovers, then goes on to the sync and to
`ReadBalance`), `ApplyRun`, `Crash`; `ExchangeMoves`, `Passes`;
`BeginReading`, `CountRows`, `SelectRows` of the order page, two statements. The other queries
(`Summary`, `PerformanceSummary`, `DailyOf`, `PeriodOf`, `PnlToday`, `Enriched`, `ListedExecutions`, `Timeline`)
are operators over the tables, evaluated in every state; a SUM is the fold of a column over the
set of row indices (`SumPnl`). `ListedExecutions` is a page of the executions as the service merges it: a page of
the saved ones (`ExecutionPage`), and on the first page the fills only the exchange knows of among the newest page of orders
(`Extras`), cut to the page size again. The day is the Korean one, as in the code. *Abstracted*: the two
statements of the executions page see the same tables, a page is at most 200 rows; a row has the columns
the reports tell apart; a missing opening equity is a value that no balance has (`NoneAssumption`).

## 3. Runs

| run | cfg | checks | shows |
|---|---|---|---|
| core | `TradingEngineCore` | TypeOK, MemoryMatchesTables, ExposureBounded, ExitsOnlyReduce | entries of one or two lots under a dust threshold of two, partial and late fills, two faults; positionRisk answers truthfully |
| recovery | `TradingEngineRecovery` | StopCompletes, StrayPositionAdopted, StopAdvances, LedgerKept | crashes, restarts, late fills, wrong positionRisk answers, under fairness; the tables implement `PositionLedger` |
| stop | `TradingEngineStop` | StoppedFlat | no faults, no late fills, exits of three lots sent as two: stop() leaves nothing, or the lot the rounding lost |
| phantom | `TradingEnginePhantom` | ReconcileOnlyWhenGone | **violated** once a positionRisk error reads as "no position" |
| rc_config | `RuntimeControlConfig` | VersionTells, BootForcedOff, ConfigConverges | serial requests, two crashes |
| rc_stop | `RuntimeControlStop` | TypeOK, StopSticks, CommandsServed, CommandsInOrder | starts and stops only, also during boot, a crash and a failure |
| rc_stop_race | `RuntimeControlStopRace` | StopSticks | **violated** once saves are allowed |
| signal | `SignalPath` | TypeOK, EachCandleOnce, ConfirmedOnly | candles written during predictions, resets, reconfigurations, restarts: the detailed path implements `Confirmation` |
| risk | `RiskGate` | TypeOK, BookFollowsEngine, RiskBudgetKept, ExitsAsNamed, LossPauseHolds, DailyLimitHolds | entries and exits over two days, filled beside the tick's price, with crashes, restarts and changed limits |
| stream | `LiveStream` | TypeOK, HubCurrent, ClientsAgree, StreamComesBack, GoneClientsDropped | snapshots racing events, broadcasts racing broadcasts, cuts, under fairness |
| supervisor | `Supervisor` | TypeOK, NoChildLeft, StoppedShown, StoppedMeansFlat, ShutdownEnds | two launches, two signals each, two faults, two run ids, under fairness of the script |
| records | `Records` | TypeOK, DailyIsAggregate, ReportsAgree, FillsShown, PagesSkipNothing | orders and closes over midnight and a run-id change or crash, with a reader |

*Bounds.* One or two lots per entry distinguish partial from complete fills, and a
threshold of two lots makes dust possible. Two faults allow a failure and another one
while it is being repaired. `Lossy` has one number of lots: two in `core` (the remainder is dust
beside the next entry), three in `stop` (with `MaxLots = 3`), and none in the runs that are about something else; of the
floats, steps of 0.1 lose a lot at 3, 6, 7, 12, …, steps of 0.001 at 43, 51, …. One identified position is enough for `LedgerKept`:
later positions of the run are untracked, take the place of the identified one and book nothing under
its identity. Three
control requests give every order of save, start and stop around a poll; further
ones repeat the pattern. `signal`: two candles are the last one inferred and the next; two
confirmations in trend, one from the autopilot and a regime delta of two give runs that are too short, exact and too
long; a window of one score moves the threshold with every forecast. `risk`: four
moments with a midnight after the second let a pause, a duplicate window and a day end while
something depends on them; two limit sets differ in every limit but the daily one; one upset (crash
in an order, or something the exchange does by itself) is enough to skew a day's executions; with two prices,
exit prices one away and a slippage of one a live entry can be filled at its own exit price.
`stream`: two changes order an event and a snapshot both ways, two clients make
broadcasts overtake each other, two cuts lose an event and a key, or interrupt a repair; one refresh of a
client runs beside the bridge's own. `supervisor`: a second
launch finds what the first left; a second signal arrives in a shutdown; two run ids are that of the env
files and that of a stored configuration. `records`: the
tables' size (a market order counts 4, a snapshot 2, a protective order and a balance 1) of eight holds an
entry with both protective orders, a complete trade (open, closed) with an order, two trades of
adopted positions, two orders, or, with a crash between, two executed ones, which is two pages of executions; one crash or change of run id; two days; pages of one row. In the other modules nothing else is bounded: the runs
explore all interleavings and unbounded numbers of ticks, stops and restarts.

*Symmetry* is used over the run ids of `Records` only (no liveness is checked there).

*Pure operators* are compared with reference definitions by assumptions TLC evaluates over bounded inputs, and by
theorems for all (section 5):
`PercentileIsRanked` (the calibrator's percentile is the ranked element of the sorted
window) and `TimelineIsNewest` (the timeline, cut to a few rows per table, is the newest of all rows
while the cut per table is not below the total).

*Fairness.* `TradingEngine`, `RuntimeControl`: weak fairness of the engine's own steps only: the main
loop polls, ticks and sleeps at most a second, each request has a timeout, the fill
polls are five. Nothing is assumed about the operator, the exchange filling orders, or
the API. `LiveStream`: the event loop runs its tasks, requests end by timeout, the mark-price stream
is enabled and keeps coming, and Binance ends every connection within a day; nothing
about clients, account changes or refreshes. `Supervisor`: the script's own steps; its waits have
deadlines, so nothing is assumed of the engine or the ingest process.

*Deadlock* is checked in every run but `records`: there the bounds on rows, days and
crashes leave nothing to do once they are used up.

*Assumptions as constants.* `ReadErrors = FALSE` says positionRisk does not fail with an
HTTP status; `SlowFills = FALSE` says a market order is done within the duplicate window
(180 s) and before a restart; both are what the code relies on without checking, and
`ExposureBounded` holds only under them. `QuietBoot` says no control request is being
served while the engine boots; `rc_config` needs it (a save that read the row before
boot can write trading_enabled back).

*Exceptions inside properties.* Several properties name the situation in which the code
does not keep them, recorded by a bookkeeping variable: `stale` and `crossed`
(`HubCurrent`, `ClientsAgree`: a REST snapshot older than what it replaces; a broadcast overtaken by
another task's), `skewed` (`DailyLimitHolds`: the day's executions are not the two legs of
its trades), `shorted` (`BookFollowsEngine`: paper exits ignore reduce_only), `blind`
(`EachCandleOnce`: an open time could not be read), `cut`, `unmarked` and `forked`
(`StoppedMeansFlat`, `StoppedShown`, `NoChildLeft`; `StoppedShown` leaves out, too, a run other than the env files'
whose engine never recorded its end), `SlipNow` (`RiskBudgetKept`, `ExitsAsNamed`: what the fill is off the tick's price), `Lossy`
(`StoppedFlat`), `lost` (`ReportsAgree`), `raced` (`PagesSkipNothing`: an
order was added between the count and the rows). Outside of them the property holds in every state of the run.

*Configuration assumed.* `Supervisor`: the Postgres backend and `flatten_on_shutdown`. `LiveStream`: mark
prices enabled, and a send reaches the client before the task suspends.

## 4. Where the code and its documents disagree

Two runs end in a counterexample.

* **phantom** – `get_position` returns None on an HTTP error; the sync then closes the
  held position in the tables as EXCHANGE_SYNC.
* **rc_stop_race** – stop is two commits; a poll between them that also finds a newer
  configuration turns trading on again, and the later write keeps the version.

Known divergences met while modelling, without a run of their own:

*Trading engine*
* With `oco_enabled`, `engine/core.py:812` leaves TP/SL to the exchange's protective orders,
  which an adopted position, or one whose protective orders were refused, does not have.
* CLOSED snapshot and trade_result are two transactions; a crash between them leaves a trade
  unbooked for good (`src/docs/PERSISTENCE.md:24`: one completed trade = one row). `Records` keeps such
  closes in `lost`.
* A position the sync finds turned to the other side keeps the old side's TP/SL; under
  another run id it also leaves an OPEN row behind.
* `_round_qty_down` (`exchange/binance_futures.py:223-230`) can lose a whole step of an exact multiple, also in the exit
that stop() sends: the exit is FILLED and taken for the whole position, and a lot stays on the
exchange without a row. After an exit in trading the next tick's sync adopts it if it is worth a minimum order;
after stop() nothing looks at it until the next start.
* In long_only mode a SHORT position (adopted, or opened before the mode changed) has no model exit.

*Runtime control*
* Two saves served at once take the same version; the engine never applies the
  second if it polled between them (`src/docs/API_REFERENCE.md:260`).
* A start pressed before boot: engine on, status off (`src/docs/UI_CONTROL_GUIDE.md:132`).
* A crash before `mark_done` repeats the start at the next boot
  (`src/docs/UI_CONTROL_GUIDE.md:92`: no automatic resume).
* With failing starts (`MaxFaults > 0`, saves allowed) `VersionTells` fails:
  `apply_runtime_config` merges the configuration before it loads the predictor, so a start
  that fails leaves its configuration in force under the version of a later save.

*Signals and risk*
* `get_daily_pnl` (`postgres.py:512`, "당일 실현손익") sums the cash flow of the day's executions: an open
  LONG counts as a loss, a close of yesterday's position as a gain.
* The inference row is documented as written for BUY/SELL only (`postgres.py:640`); HOLD answers
  record a score too, of 0.0 when nothing was forecast, and feed the calibrated threshold.
* A live entry takes `avgPrice` for its entry price and keeps the TP/SL of the intent (`engine/core.py:736-739`): filled
beyond one of them it is left at the next tick, a TAKE_PROFIT with a loss or a STOP_LOSS with a gain; the loss at the stop exceeds
the budget by what the fill was off.
* `src/docs/API_REFERENCE.md:247` calls min_threshold the actual lower bound; low volatility multiplies
  it by 0.85.

*Live stream*
* An HTTP error on a refresh is stored as a wallet without positions (`exchange/binance_futures.py:98-110`).
* `wallet_update` events merge keys that REST snapshots do not use; `listenKeyExpired` only
  forgets the key (`live_bridge.py:238-243`) and leaves the connection to end by itself.
* `register` is outside the try of `ws_controller.py`: a client that fails during the greeting stays
  listed until the next broadcast.

*Supervisor*
* A signal between `Popen` and the registration of the child (`src/scripts/run_engine.py:171`, `183`)
  leaves that child running (`:10` says both end). One between the registration and the assignment of `_ENGINE_PROC` stops the
  engine as any other child: five seconds, and no correction of its row.
* An OSError of the engine's `Popen` ends the script and leaves the ingest loop running.
* `_mark_engine_stopped` (`:51`, "자식이 강제 종료돼 stop() 못 탔을 때 engine_run status 보정") closes the row of the env
  files' run_id: the row of a killed engine whose run_id came from the UI stays running or paused.
* The row of a run the engine has switched away from is paused at most, never closed, also when the process ends.
* A start or stop in the UI after the process has ended writes running or paused over stopped (`src/docs/PERSISTENCE.md:16` and
  `:117`: stopped means the end of the process).

*Records and read API*
* The day of performance_daily and of the dashboard is the Korean one (`postgres.py:808-809`, `_ensure_kst`), where
  `src/docs/PERSISTENCE.md:25` says "run_id + UTC 일자별" and `src/docs/API_REFERENCE.md:134` says "오늘(UTC) 청산 건수": from midnight
  to nine in Korea the two name different days. `DailyIsAggregate` and `ReportsAgree` are about the code's day; they
  say that the tables agree on it, not that it is the documented one.
* `GET /history/executions` (`src/docs/API_REFERENCE.md:79`, "체결( fill ) 내역"): fills without an execution row are merged into
  the first page only, from the newest min(limit, 200) orders (`history_service.py:108-131`), so older ones are on no
  page; a saved execution that such a fill pushes off the first page is on no page either, as the second one
  begins after it. Count and rows are two statements.
* Losses in the history summary count break-even trades (`history_repository.py:637`); pending
  orders count protective and late orders (`:673`).
* Tick details are looked up by a correlation id that is written empty; `trade_id` is a fresh UUID, so
  the check for an existing trade never finds one; `cumulative_realized_pnl` of equity rows is always 0; the
  opening equity can be set after trades of the day.
* A timeline of more than 20 rows can leave out newer orders.

## 5. Proofs

For every value of the constants:

| module | theorem | states |
|---|---|---|
| `TradingEngine_proofs` | `TypeCorrect` | `Spec => []TypeOK` |
| | `Safety` | `Spec => []Safe`, the inductive invariant |
| | `MemoryIsDurable` | `Spec => []MemoryMatchesTables` |
| | `NoDoubleBooking` | `Spec => []BookedAtMostOnce` |
| | `NoStackedEntries` | without read errors and slow fills, `Spec => []ExposureBounded` |
| | `ExitsReduce` | `Spec => ExitsOnlyReduce` |
| | `StopsFlat` | without late fills and with `FlattenOnShutdown`, `Spec => []StoppedFlat`, whatever the rounding |
| | `StopNeverReturns` | `Spec => StopAdvances` |
| | `ReconcilesWhenGone` | without read errors, `Spec => ReconcileOnlyWhenGone` |
| `PositionLedger_proofs` | `LifecycleHolds` | `Spec => [](Safe /\ Lifecycle /\ EntersFlat)`, the invariant of the refinement |
| | `ImplementsLedger` | `Spec => LedgerKept`: `TradingEngine` implements `PositionLedger` |
| `SignalPath_proofs` | `SignalTypes` | `Spec => []TypeOK` |
| | `PolicyHearsStreaks` | `Spec => []HistoryIsStreak` |
| | `CandlesCountOnce` | `Spec => []EachCandleOnce` |
| | `PercentileExact` | the percentile is the ranked element of the sorted window |
| | `ImplementsConfirmation` | `Spec => ConfirmedOnly`: `SignalPath` implements `Confirmation` |
| `Supervisor_proofs` | `SupervisorTypes` | `Spec => []TypeOK` |
| | `LeavesNoChild` | `Spec => []NoChildLeft` |
| | `EndIsShown` | `Spec => []StoppedShown` |
| | `OnlyCutsLeavePositions` | `Spec => []StoppedMeansFlat` |
| | `ShutsDownOnce` | `Spec => ShutdownOnce` |
| `RiskGate_proofs` | `TypeCorrect` | `Spec => []TypeOK` |
| | `PaperBookCorrect` | `Spec => []BookFollowsEngine` |
| | `ExitsNamedRight` | `Spec => []ExitsAsNamed` |
| | `PauseKept` | `Spec => LossPauseHolds` |
| | `DailyLimitKept` | `Spec => DailyLimitHolds` |
| | `BudgetKept` | `Spec => []RiskBudgetKept` |
| `RuntimeControl_proofs` | `ControlTypes` | `Spec => []TypeOK` |
| | `NeverUnasked` | with `QuietBoot` and `MaxFaults = 0`, `Spec => []BootForcedOff` |
| | `StopHolds` | with one client that does not save, `Spec => []StopSticks` |
| | `VersionsTell` | with `QuietBoot`, `MaxFaults = 0` and one client, `Spec => []VersionTells` |
| | `ServedInOrder` | `Spec => CommandsInOrder` |
| `LiveStream_proofs` | `StreamTypes` | `Spec => []TypeOK` |
| | `HubIsCurrent` | `Spec => []HubCurrent` |
| | `ClientsShowHub` | `Spec => []ClientsAgree` |
| `Records_proofs` | `RecordsTypes` | `Spec => []TypeOK` |
| | `FillsAreShown` | `Spec => []FillsShown` |
| | `PagesComplete` | `Spec => []PagesSkipNothing` |
| | `DailyAggregates` | `Spec => []DailyIsAggregate` |
| | `ReportsConsistent` | `Spec => []ReportsAgree` |
| | `TimelineExact` | the timeline is the newest of all rows, if no table is cut below the total |

*TradingEngine.* `Safe` adds to `TypeOK`: `Control` (which continuation and which kind of order
belongs to which `pc`, in and out of stop()), `Memory` (outside stop() tables and
memory differ only while a save is under way) and `Booking` (a position in memory, in an
OPEN snapshot, or being closed is unbooked, and so is every identity not handed out).
`MemoryMatchesTables` alone is not inductive: it says nothing of the states
between two ticks. `BookedAtMostOnce` needs `Booking` because a crash between
the CLOSED snapshot and the trade_result row must not let recovery find the
position open again. None of these assume anything about failures.
`ExposureBounded` needs `Exposure` as well: entries in flight are bounded by one
order, an order still in flight has its side in the duplicate window (or the engine is
down, stopping or about to save it), the tick decides on an entry only after a truthful
sync saw a flat exchange, and an entry is sent only on top of dust.
`StoppedFlat` needs `Flattening`: as long as nothing has failed no entry is left behind, and from the
sync of stop() on, memory, then the order, then what is left of it covers what the exchange holds, on
the same side; everything else that happens there only brings the position nearer to zero. The exit that is sent covers it but
for the lot that `RoundQtyDown` can lose, and the order's fill leaves no more than that.
`StopNeverReturns` is the safety half of `StopCompletes`: `Distance` counts the calls and
commits stop() has left at each of its places, which every step decreases, a failing one too. It needs
`Control` and `Idle` (only the saves have a place to return to, so control cannot come back to a
flatten that is over); what TLC adds under fairness is that the steps are taken. `ReconcilesWhenGone` removes the cause of the
counterexample of run `phantom`: where positionRisk answers truthfully, the sync closes a position only
when the exchange holds none or a remainder below the minimum.

*PositionLedger.* The step simulation needs two invariants beside `Safe`. `Lifecycle`: an OPEN
snapshot, a remembered position and one being closed are of an identity without a CLOSED
snapshot, and outside stop() what a commit under way closes is the stored position and what it
stores is its correction, or a position where none was stored. `EntersFlat`: from the decision on an entry to its fill neither memory nor tables
hold a position, so the position the entry opens replaces none. Only four kinds of
step touch the ledger's variables (`SaveOpen`, `SaveClosed`, `SaveTrade`, and those that end or
begin stop()); all others stutter.

*SignalPath.* The invariant is `TypeOK`, `HistoryIsStreak`, `Counted` (a streak that is not empty
has a signal and at least one of it) and `Clock` (while open times can be read: the newest candle a
forecast was made of is not newer than `lastInfer`, and a prediction goes on only with a newer one).
`EachCandleOnce` needs `Clock`, because the open time stored after a forecast is read again and
can be newer than the history that was forecast from. The refinement maps `need`, `dir` and `count`
to the policy's parameter and the streak; every step is shown to be one of `Confirmation`'s
actions or a stutter, using that `is_consecutive` over the kept history is the streak having
reached `required` (`HistoryIsStreak`). The percentile is shown to be a score of
the window by well-foundedness of the naturals, and to be the ranked one (`PercentileExact`) by counting: the
bijection to the sorted window carries the scores below and up to it, and no two scores have the rank.

*Supervisor.* The invariant is `TypeOK`, `Shape` (what is started, in the hand of `Popen` or remembered
at each place of the script), `Kept` (a living child is remembered or is the one just forked; after the
grace period an engine that was named is dead, at the end everything remembered is, or the script
ended before it had an engine), `Rows` (an engine that recorded its end writes its row no more; the correction comes
after the last write of an engine that was named, so the row of the env files' run is not as an engine left it) and
`Exposed` (without an engine that trades or flattens, an
open position is what a cut left). The rows are followed run by run, as the engine, the script and the API each
write another one. `ShutsDownOnce` needs that a shutdown that has begun is at
one of its stages (`Begun`), in which a further signal finds `_SHUTTING_DOWN` set. No fairness is used.

*RiskGate.* The invariant is `TypeOK`, `Holding` (what a position looks like), `Levels` (its exit
prices lie on their sides of the entry price, but for the slippage of its fill), `Streak` (the checker's count is the number of
losing trades since the start of the process, and a streak long enough for the limits in force at its
last loss has a pause that ends when it should), `Inventory` (the paper book against
the position) and `Ledger` (the cash of the day is its result less the price of what is
held). `DailyLimitHolds` needs `Ledger`, because the checker reads cash and the property speaks of
results; the two agree when the engine is flat, which an entry requires. `LossPauseHolds` needs
`Streak`, because `check` forgets a pause and `record_trade_result` lengthens it. `BudgetKept` is arithmetic over
`Size`: the divisions that round down are shown to be exact bounds, then multiplied out for every
equity, distance and scale; the fill adds its slippage times the quantity (`SlippedBudget`).

*RuntimeControl.* `Base` is types, where the engine is in its round and what a request holds.
`BootForcedOff` needs `Unasked`: without a start asked for, no start waits, none is being served, and
after the boot neither the table nor a request on its way to it holds a set flag; `Quiet` keeps
requests out of the boot. `StopSticks` needs `Told`: a stored flag that is on came with the last start
of the queue, so an engine that has served that start knows its version and will not take the
flag for news while the stop has queued its command and not yet written its row. Commands are
served in order (`Fifo`), and from there on `Stopped` says that the last command is the stop and that
an engine that trades has yet to come to it. `VersionTells` needs that nothing in
the queue, in a request or in the engine is newer than the row, and that a configuration never loses
a key. `ServedInOrder` adds `Acting` to `Base`: between its execution and its mark nothing else switches
trading, so a command that is marked done is in force; it is the safety half of `CommandsServed`. The assumptions are those of the runs; without them the divergences of section 4 happen.

*LiveStream.* `Base` is types and `Linked` (which parts of the bridge work together: a stream that is
open has a running bridge, which has a snapshot). `HubCurrent` speaks of rest only; what holds on the
way is `Current`: unless a change was missed, the last event on the wire brings the account, or the wire
is empty and the cache is the account. It needs `Known` (neither the cache, nor an answer, nor an event is
newer than the account), because a REST answer that is not older than the cache it replaces must then be
the account. `ClientsAgree` needs `Shown`: a client that is not overtaken shows the cache, or the only
message it is still due is the cache; whoever gets one of two messages that are due counts as overtaken.

*Records.* `Orders` keeps the order tables in step with the exchange (an execution is of an order that is
filled, a row without a fate was never accepted), `Engine` types the commit that is due and the rows it
writes, and `Reader` says that a client has seen every old order among the first `offset` ones of the
list, which stays true while orders are added at its head. The last page reaches the oldest order because
a page that is full has exactly `Limit` rows.
`FillsShown` needs no more than `Orders`; its last part is counting: what a cut to the newest n leaves out has n newer ones
among what is kept (`CutHasNewer`), an execution is on the page of its place, the number of newer ones divided by the page size
(`PageOfPlace`), and the first page differs from its place only by the fills merged into it.
`DailyIsAggregate` and `ReportsAgree` compare sums and counts over three tables. The lemmas they rest on
say how a fold over a set of row indices changes when a row is added and how it splits over disjoint
sets; they are proved from the library's theorems on finite sets, by the least counterexample in the size of a subset
where an induction would be natural. The invariant relates the tables row by row: `Linked` (a
trade row is of a CLOSED snapshot of the same run, day and result, which no other row is of; an unbooked
close is small, lost or the one being saved), `Closes` (run by run and day by day the closed snapshots add up to the
trade rows and the unbooked closes), `DaysRight` (the day's row is the aggregate of the trade
rows of its run and day), `Opening` (the opening equity to be set is a balance just recorded) and `DaysAddUp` (the
days of a run add up to its trades).
`TimelineExact` rests on `CutRowsAreOlder`: of the rows of a table that are cut, the newest one has only kept rows
before it, and as many of them as are kept.

Every invariant and every action property of a passing run is stated by a theorem. The other way round,
`NoDoubleBooking` follows from what `LedgerKept` says too, `PolicyHearsStreaks` and `LifecycleHolds` are of
invariants made for a proof, and `ReconcilesWhenGone` and `ShutsDownOnce` have no passing run of their own.
Only model-checked are the liveness
properties `StopCompletes`, `StrayPositionAdopted`, `ConfigConverges`, `CommandsServed`,
`StreamComesBack`, `GoneClientsDropped` and `ShutdownEnds` (fairness and ENABLED are outside the prover's
reach; `StopAdvances`, `CommandsInOrder` and `ShutdownOnce` are the parts of three of them that need neither). `StopSticks`
does not hold once saves are allowed, as the run `rc_stop_race` shows.

## 6. Not modelled, and the plan

Not modelled: parsing and merging of configuration (`config/settings.py`,
`config/runtime_config.py`, `config/env_loader.py`), which are pure functions over strings and
dictionaries; DTO and mapper declarations; the spot adapter, which bootstrap does
not wire for the futures engine; field mapping of wallet and stream messages; leverage and wallet
I/O; model inference; the autopilot's TP/SL adjustment and state JSON; logging.

Left for later:

1. The safety halves of `StreamComesBack` and `GoneClientsDropped`.
2. The merge of runtime patches against a reference definition.
