---------------------------- MODULE TradingEngine ----------------------------
(***************************************************************************)
(* One TradingEngine process trading one symbol on Binance futures         *)
(* (one-way mode, live, i.e. not paper_mode), together with the three      *)
(* places where a position is remembered: the exchange, the                *)
(* PositionManager of the process, and the position_snapshot and           *)
(* trade_result tables.                                                    *)
(*                                                                         *)
(* The engine is single threaded (engine/core.py).  It is cut at every     *)
(* REST call and at every database commit: between two cuts nothing else   *)
(* of the process runs, but at a cut the exchange may fill, expire or      *)
(* trigger orders, a call may fail, and the process may die.  pc names the *)
(* next call or commit, next where control goes once the position tables   *)
(* are written.                                                            *)
(*                                                                         *)
(* Quantities are lots of the symbol's step size; a positive net quantity  *)
(* is LONG, a negative one SHORT.  Prices, signals and sizing are          *)
(* abstracted to the choices they allow.                                   *)
(***************************************************************************)
EXTENDS Integers, FiniteSets

CONSTANTS
  MaxLots,        \* largest quantity sizing gives an entry order
  MinLots,        \* exchange quantities below this are dust (_is_dust_notional)
  Lossy,          \* quantities whose float quotient by the step size lies below them
  MaxPositions,   \* positions that get an identity of their own (a bound)
  MaxFaults,      \* failed calls, lost connections and crashes (a bound)
  OcoEnabled,     \* exchange.oco_enabled
  FlattenOnShutdown,  \* flatten_on_shutdown
  ReadErrors,     \* positionRisk may answer with an HTTP error
  LateFills,      \* a market order may be unfilled after the fill polls
  SlowFills       \* ... and even outlive the duplicate window or a restart

ASSUME LotsAssumption == MaxLots \in Nat \ {0} /\ MinLots \in Nat \ {0}
ASSUME LossyAssumption == Lossy \subseteq Nat \ {0, 1}
ASSUME BoundsAssumption == MaxPositions \in Nat /\ MaxFaults \in Nat
ASSUME FlagsAssumption ==
  {OcoEnabled, FlattenOnShutdown, ReadErrors, LateFills, SlowFills} \subseteq BOOLEAN

VARIABLES
  \* the exchange
  exch,       \* signed net position
  entryOpen,  \* [Side -> lots of entry orders the engine stopped waiting for]
  lateExits,  \* sides with reduce-only orders it stopped waiting for
  prot,       \* [Side -> protective TP/SL orders resting on that side]
  \* memory of the process
  pc, next, stopping,
  tradingEnabled,
  local,      \* PositionManager: the open position, or NoPosition
  closing,    \* the CLOSED position on its way to the tables, or NoPosition
  ord,        \* the order being placed, or NoOrder
  \* the database
  snap,       \* latest position_snapshot if OPEN, else NoPosition
  closedIds,  \* positions with a CLOSED position_snapshot
  rows,       \* [Ids -> number of trade_result rows]
  recent,     \* sides with an order_request inside the duplicate window
  \* bookkeeping of the model
  nextId, faults

exchVars == <<exch, entryOpen, lateExits, prot>>
dbVars == <<snap, closedIds, rows, recent>>
vars == <<exchVars, pc, next, stopping, tradingEnabled, local, closing, ord,
          dbVars, nextId, faults>>

Side == {"BUY", "SELL"}
\* A quantity seen from side s: BUY adds to the net position, SELL takes away.
Signed(s, n) == IF s = "BUY" THEN n ELSE -n
AbsLots(n) == IF n < 0 THEN -n ELSE n
MinOf(a, b) == IF a < b THEN a ELSE b

Ids == 1 .. MaxPositions
Untracked == 0
FreshId == IF nextId <= MaxPositions THEN nextId ELSE Untracked

Position == [net : Int, id : Ids \cup {Untracked}]
NoPosition == [net |-> 0, id |-> Untracked]

\* Mutant of CloseSide: SHORT positions forgotten.
CloseSideSell(net) == "SELL"

\* The side of the order that closes a position with this net quantity.
CloseSide(net) == IF net > 0 THEN "SELL" ELSE "BUY"

OrderStatus == {"DRAFT", "NEW", "FILLED", "REJECTED"}
Order == [purpose : {"none", "entry", "exit"}, side : Side, qty : Nat,
          left : Nat, reduceOnly : BOOLEAN, status : OrderStatus]
NoOrder == [purpose |-> "none", side |-> "BUY", qty |-> 0, left |-> 0,
            reduceOnly |-> FALSE, status |-> "DRAFT"]
EntryOrder(s, q) == [purpose |-> "entry", side |-> s, qty |-> q, left |-> 0,
                     reduceOnly |-> FALSE, status |-> "DRAFT"]
\* Mutants of ExitOrder: not reduce-only; a signed quantity.
ExitOrderPlain(s, q) == [EntryOrder(s, q) EXCEPT !.purpose = "exit"]
ExitOrderSigned(s, q) == [EntryOrder(s, Signed(s, q)) EXCEPT !.purpose = "exit",
                                                             !.reduceOnly = TRUE]
ExitOrder(s, q) == [purpose |-> "exit", side |-> s, qty |-> q, left |-> 0,
                    reduceOnly |-> TRUE, status |-> "DRAFT"]

\* Mutant of IsDust: off by one.
IsDustInclusive(net) == AbsLots(net) <= MinLots

\* A remainder below the minimum notional is not treated as a position.
IsDust(net) == AbsLots(net) < MinLots

\* _round_qty_down of a whole number of lots: floor(qty / step) * step in floats,
\* where 0.3 / 0.1 is 2.99... and its floor 2.
RoundQtyDown(n) == IF n \in Lossy THEN n - 1 ELSE n

\* The quantity place_order asks for.  That of an entry stands for what the floor
\* leaves of the sized quantity, which is no whole number of lots.
Sent == IF ord.purpose = "exit" THEN RoundQtyDown(ord.qty) ELSE ord.qty

\* How much of the exchange position a reduce-only order of side s can close.
Reducible(s) == IF Signed(s, exch) < 0 THEN AbsLots(exch) ELSE 0

\* Mutant of Resume: stop() flattens until it is flat.
ResumeFlattening ==
  IF stopping THEN IF local.net # 0 THEN "flatten" ELSE "stopped" ELSE "loop"

\* Where the engine goes when a tick, or the flatten of stop(), is over.
Resume == IF stopping THEN "stopped" ELSE "loop"

Init ==
  /\ exch = 0
  /\ entryOpen = [s \in Side |-> 0]
  /\ lateExits = {}
  /\ prot = [s \in Side |-> {}]
  /\ pc = "down" /\ next = "loop" /\ stopping = FALSE
  /\ tradingEnabled = FALSE
  /\ local = NoPosition /\ closing = NoPosition /\ ord = NoOrder
  /\ snap = NoPosition /\ closedIds = {} /\ rows = [i \in Ids |-> 0]
  /\ recent = {}
  /\ nextId = 1 /\ faults = 0

-----------------------------------------------------------------------------
(* Reconciling PositionManager with the exchange *)

\* get_position: the truth, or an HTTP error that reads as "no position".
PositionAnswer(a) ==
  \/ a = exch /\ faults' = faults
  \/ /\ ReadErrors /\ faults < MaxFaults
     /\ a = 0 /\ faults' = faults + 1

\* _sync_position_with_exchange for the answer a: close without an order, adopt,
\* correct, or leave alone.  The changed position is written before control
\* continues at cont.
SyncWith(a, cont) ==
  LET seen == IF IsDust(a) THEN 0 ELSE a IN
  \/ /\ local.net # 0 /\ seen = 0
     /\ closing' = local /\ local' = NoPosition
     /\ pc' = "saveClosed" /\ next' = cont
     /\ UNCHANGED nextId
  \/ /\ local.net = 0 /\ seen # 0
     /\ local' = [net |-> seen, id |-> FreshId]
     /\ nextId' = MinOf(nextId + 1, MaxPositions + 1)
     /\ pc' = "saveOpen" /\ next' = cont
     /\ UNCHANGED closing
  \/ /\ local.net # 0 /\ seen # 0 /\ seen # local.net
     /\ local' = [local EXCEPT !.net = seen]
     /\ pc' = "saveOpen" /\ next' = cont
     /\ UNCHANGED <<closing, nextId>>
  \/ /\ local.net = seen
     /\ pc' = cont
     /\ UNCHANGED <<next, local, closing, nextId>>

Sync(at, cont) ==
  /\ pc = at
  /\ \E a \in {exch, 0} : PositionAnswer(a) /\ SyncWith(a, cont)
  /\ UNCHANGED <<exchVars, stopping, tradingEnabled, ord, dbVars>>

\* Mutant of TickSync: the exchange is asked only about a position one knows of.
TickSyncWhenHolding ==
  \/ local.net # 0 /\ Sync("loop", "decide")
  \/ /\ pc = "loop" /\ local.net = 0
     /\ pc' = "decide"
     /\ UNCHANGED <<exchVars, next, stopping, tradingEnabled, local, closing, ord,
                    dbVars, nextId, faults>>

StartSync == Sync("boot", "started")
TickSync == Sync("loop", "decide")
ResyncAfterExit == Sync("resync", Resume)
FlattenSync == Sync("flatten", "flattenPick")

\* Mutant of SaveOpen: a correction of a position already stored is not written.
SaveOpenOnce ==
  /\ pc = "saveOpen"
  /\ snap' = IF snap.net = 0 THEN local ELSE snap
  /\ pc' = next /\ next' = "loop"
  /\ UNCHANGED <<exchVars, stopping, tradingEnabled, local, closing, ord,
                 closedIds, rows, recent, nextId, faults>>

\* save_position of an open position: one commit.
SaveOpen ==
  /\ pc = "saveOpen"
  /\ snap' = local
  /\ pc' = next /\ next' = "loop"
  /\ UNCHANGED <<exchVars, stopping, tradingEnabled, local, closing, ord,
                 closedIds, rows, recent, nextId, faults>>

\* Mutant of SaveClosed: the CLOSED snapshot is not written.
SaveClosedSkipped ==
  /\ pc = "saveClosed"
  /\ pc' = "saveTrade"
  /\ UNCHANGED <<exchVars, next, stopping, tradingEnabled, local, closing, ord,
                 dbVars, nextId, faults>>

\* save_position of a closed one: the snapshot is committed first ...
SaveClosed ==
  /\ pc = "saveClosed"
  /\ snap' = NoPosition
  /\ closedIds' = closedIds \cup ({closing.id} \cap Ids)
  /\ pc' = "saveTrade"
  /\ UNCHANGED <<exchVars, next, stopping, tradingEnabled, local, closing, ord,
                 rows, recent, nextId, faults>>

\* ... and the trade_result row in a transaction of its own.
SaveTrade ==
  /\ pc = "saveTrade"
  /\ rows' = IF closing.id \in Ids THEN [rows EXCEPT ![closing.id] = @ + 1]
                                   ELSE rows
  /\ closing' = NoPosition
  /\ pc' = next /\ next' = "loop"
  /\ UNCHANGED <<exchVars, stopping, tradingEnabled, local, ord,
                 snap, closedIds, recent, nextId, faults>>

-----------------------------------------------------------------------------
(* process_tick and _process_exit_tick: what this tick does *)

\* Hold: no signal, waiting for a candle, filtered, sized to nothing, refused
\* by the risk checks, or TP/SL left to the exchange's protective orders.
DecideNothing ==
  /\ pc = "decide"
  /\ pc' = "loop"
  /\ UNCHANGED <<exchVars, next, stopping, tradingEnabled, local, closing, ord,
                 dbVars, nextId, faults>>

\* TP/SL reached (with no exchange-managed exits) or a model exit signal.
DecideExit ==
  /\ pc = "decide"
  /\ local.net # 0
  /\ ord' = ExitOrder(CloseSide(local.net), AbsLots(local.net))
  /\ pc' = "exitCheck"
  /\ UNCHANGED <<exchVars, next, stopping, tradingEnabled, local, closing,
                 dbVars, nextId, faults>>

\* Mutant of DecideEntry: no duplicate-order window.
DecideEntryAgain(s, q) ==
  /\ pc = "decide"
  /\ local.net = 0
  /\ tradingEnabled
  /\ ord' = EntryOrder(s, q)
  /\ pc' = "send"
  /\ UNCHANGED <<exchVars, next, stopping, tradingEnabled, local, closing,
                 dbVars, nextId, faults>>

\* A signal that passed policy, sizing and every risk check; the one check
\* kept in full is the duplicate-order window.
DecideEntry(s, q) ==
  /\ pc = "decide"
  /\ local.net = 0
  /\ tradingEnabled
  /\ s \notin recent
  /\ ord' = EntryOrder(s, q)
  /\ pc' = "send"
  /\ UNCHANGED <<exchVars, next, stopping, tradingEnabled, local, closing,
                 dbVars, nextId, faults>>

\* _submit_exit_order looks at the exchange again: without a position there it
\* resynchronises instead, and it never asks for more than is there.
ExitCheck ==
  /\ pc = "exitCheck"
  /\ \E a \in {exch, 0} :
       /\ PositionAnswer(a)
       /\ \/ a = 0 /\ pc' = "resync" /\ ord' = NoOrder
          \/ /\ a # 0 /\ pc' = "send"
             /\ ord' = [ord EXCEPT !.qty = MinOf(@, AbsLots(a))]
  /\ UNCHANGED <<exchVars, next, stopping, tradingEnabled, local, closing,
                 dbVars, nextId>>

-----------------------------------------------------------------------------
(* place_order and _wait_for_market_fill *)

\* The exchange takes the order, for the rounded quantity.
SendAccepted ==
  /\ pc = "send"
  /\ ord.reduceOnly => Reducible(ord.side) > 0
  /\ ord' = [ord EXCEPT !.qty = Sent, !.left = Sent, !.status = "NEW"]
  /\ pc' = "await"
  /\ UNCHANGED <<exchVars, next, stopping, tradingEnabled, local, closing,
                 dbVars, nextId, faults>>

\* The exchange refuses (any 4xx/5xx answer), or an entry is sized below one step and
\* no request is made: REJECTED.
SendRejected ==
  /\ pc = "send"
  /\ \/ ord.purpose = "entry" /\ UNCHANGED faults
     \/ ord.reduceOnly /\ Reducible(ord.side) = 0 /\ UNCHANGED faults
     \/ faults < MaxFaults /\ faults' = faults + 1
  /\ ord' = [ord EXCEPT !.status = "REJECTED"]
  /\ pc' = "saveOrder"
  /\ UNCHANGED <<exchVars, next, stopping, tradingEnabled, local, closing,
                 dbVars, nextId>>

\* A poll finds the order completely filled.
PollFilled ==
  /\ pc = "await"
  /\ ord.status = "NEW" /\ ord.left = 0
  /\ ord' = [ord EXCEPT !.status = "FILLED"]
  /\ pc' = "saveOrder"
  /\ UNCHANGED <<exchVars, next, stopping, tradingEnabled, local, closing,
                 dbVars, nextId, faults>>

\* The exchange keeps working on an order nobody waits for any more.
Abandon ==
  /\ entryOpen' = [entryOpen EXCEPT ![ord.side] =
                     @ + (IF ord.reduceOnly THEN 0 ELSE ord.left)]
  /\ lateExits' = IF ord.reduceOnly THEN lateExits \cup {ord.side} ELSE lateExits
  /\ UNCHANGED <<exch, prot>>

\* Five polls did not show FILLED: the order stays NEW or PARTIALLY_FILLED, or
\* was CANCELLED by the exchange.
PollsExhausted ==
  /\ pc = "await"
  /\ LateFills
  /\ Abandon
  /\ ord' = [ord EXCEPT !.left = 0]
  /\ pc' = "saveOrder"
  /\ UNCHANGED <<next, stopping, tradingEnabled, local, closing, dbVars,
                 nextId, faults>>

\* The position is already gone, so the exchange cancels a reduce-only order.
PollCancelled ==
  /\ pc = "await"
  /\ ord.reduceOnly /\ ord.left > 0 /\ Reducible(ord.side) = 0
  /\ ord' = [ord EXCEPT !.left = 0]
  /\ pc' = "saveOrder"
  /\ UNCHANGED <<exchVars, next, stopping, tradingEnabled, local, closing,
                 dbVars, nextId, faults>>

\* save_order commits the order_request of every order, whatever its status;
\* then the fill, if any, reaches PositionManager.  A fill whose price is
\* unknown opens no position (the next sync adopts it).
SaveEntryOrder ==
  /\ pc = "saveOrder" /\ ord.purpose = "entry"
  /\ recent' = recent \cup {ord.side}
  /\ ord' = NoOrder
  /\ \/ /\ ord.status = "FILLED"
        /\ local' = [net |-> Signed(ord.side, ord.qty), id |-> FreshId]
        /\ nextId' = MinOf(nextId + 1, MaxPositions + 1)
        /\ pc' = "saveOpen"
        /\ next' = IF OcoEnabled THEN "protectTP" ELSE "loop"
     \/ /\ pc' = "loop"
        /\ UNCHANGED <<next, local, nextId>>
  /\ UNCHANGED <<exchVars, stopping, tradingEnabled, closing, snap, closedIds,
                 rows, faults>>

SaveExitOrder ==
  /\ pc = "saveOrder" /\ ord.purpose = "exit"
  /\ recent' = recent \cup {ord.side}
  /\ ord' = NoOrder
  /\ \/ /\ ord.status = "REJECTED" /\ pc' = "resync"
        /\ UNCHANGED <<next, local, closing>>
     \/ /\ ord.status = "FILLED" /\ local.net # 0
        /\ closing' = local /\ local' = NoPosition
        /\ pc' = "saveClosed" /\ next' = Resume
     \/ /\ ord.status = "NEW" \/ (ord.status = "FILLED" /\ local.net = 0)
        /\ pc' = Resume
        /\ UNCHANGED <<next, local, closing>>
  /\ UNCHANGED <<exchVars, stopping, tradingEnabled, snap, closedIds, rows,
                 nextId, faults>>

\* place_exit_orders: take profit, then stop loss, each on its own and each
\* possibly refused (the trigger may already be passed, or the call fails).
\* Both order_requests are saved once both calls are back.
Protect(at, kind, then) ==
  /\ pc = at
  /\ \E placed \in BOOLEAN :
       prot' = IF placed THEN [prot EXCEPT ![CloseSide(local.net)] = @ \cup {kind}]
                         ELSE prot
  /\ pc' = then
  /\ recent' = IF then = "loop" THEN recent \cup {CloseSide(local.net)} ELSE recent
  /\ UNCHANGED <<exch, entryOpen, lateExits, next, stopping, tradingEnabled,
                 local, closing, ord, snap, closedIds, rows, nextId, faults>>

ProtectTP == Protect("protectTP", "TP", "protectSL")
ProtectSL == Protect("protectSL", "SL", "loop")

-----------------------------------------------------------------------------
(* Starting, stopping, failing *)

\* restore_from_snapshot of the latest position_snapshot, if that is OPEN.
Recovered == snap

\* Mutant of Boot: the snapshot is not restored.
BootForgetful ==
  /\ pc = "down"
  /\ ~SlowFills => \A s \in Side : entryOpen[s] = 0
  /\ pc' = "boot" /\ next' = "loop" /\ stopping' = FALSE
  /\ tradingEnabled' = FALSE
  /\ UNCHANGED <<exchVars, local, closing, ord, dbVars, nextId, faults>>

\* bootstrap (trading forced off) and start() up to its position sync: the
\* latest snapshot is restored.
Boot ==
  /\ pc = "down"
  /\ ~SlowFills => \A s \in Side : entryOpen[s] = 0
  /\ local' = Recovered
  /\ pc' = "boot" /\ next' = "loop" /\ stopping' = FALSE
  /\ tradingEnabled' = FALSE
  /\ UNCHANGED <<exchVars, closing, ord, dbVars, nextId, faults>>

\* record_engine_start; the loop of main() begins.
Started ==
  /\ pc = "started"
  /\ pc' = "loop"
  /\ UNCHANGED <<exchVars, next, stopping, tradingEnabled, local, closing, ord,
                 dbVars, nextId, faults>>

\* RuntimeControlPoller applies a start or stop command between two ticks.
SetTradingEnabled(b) ==
  /\ pc = "loop"
  /\ tradingEnabled' = b
  /\ UNCHANGED <<exchVars, pc, next, stopping, local, closing, ord, dbVars,
                 nextId, faults>>

\* SIGTERM or SIGINT, seen between two ticks.
StopRequested ==
  /\ pc = "loop"
  /\ stopping' = TRUE
  /\ pc' = IF FlattenOnShutdown THEN "flatten" ELSE "stopped"
  /\ UNCHANGED <<exchVars, next, tradingEnabled, local, closing, ord, dbVars,
                 nextId, faults>>

\* _flatten_open_positions_on_shutdown after its sync: close what the manager
\* holds, or what the exchange turns out to hold although the manager does not.
FlattenPick ==
  /\ pc = "flattenPick"
  /\ \/ /\ local.net # 0
        /\ ord' = ExitOrder(CloseSide(local.net), AbsLots(local.net))
        /\ pc' = "exitCheck"
        /\ UNCHANGED faults
     \/ /\ local.net = 0
        /\ \E a \in {exch, 0} :
             /\ PositionAnswer(a)
             /\ \/ ~IsDust(a) /\ pc' = "exitCheck"
                   /\ ord' = ExitOrder(CloseSide(a), AbsLots(a))
                \/ IsDust(a) /\ pc' = "stopped" /\ UNCHANGED ord
  /\ UNCHANGED <<exchVars, next, stopping, tradingEnabled, local, closing,
                 dbVars, nextId>>

\* Everything the process remembers is gone.
Forget ==
  /\ pc' = "down" /\ next' = "loop" /\ stopping' = FALSE
  /\ tradingEnabled' = FALSE
  /\ local' = NoPosition /\ closing' = NoPosition /\ ord' = NoOrder

\* record_engine_stop, then the process exits.
Exit ==
  /\ pc = "stopped"
  /\ Forget
  /\ UNCHANGED <<exchVars, dbVars, nextId, faults>>

\* Where the next thing is a REST call (in "decide" also model inference), and
\* where it is a database commit.
Calls == {"boot", "loop", "decide", "resync", "flatten", "exitCheck",
          "flattenPick", "send", "await", "protectTP", "protectSL"}
Commits == {"saveOpen", "saveClosed", "saveTrade", "saveOrder", "started"}

\* Inside TradingEngine.start(), before main() has installed stop() anywhere.
Starting == \/ pc \in {"boot", "started"}
            \/ pc \in {"saveOpen", "saveClosed", "saveTrade"} /\ next = "started"

\* A lost connection or a failed commit raises.  A request that timed out may
\* have reached the exchange all the same.  The exception ends start()
\* (no stop() yet), ends the loop (finally: stop()), or is swallowed by stop().
Raise ==
  /\ pc \in Calls \cup Commits
  /\ faults < MaxFaults /\ faults' = faults + 1
  /\ \/ pc = "await" /\ Abandon
     \/ /\ pc = "send" /\ (ord.reduceOnly => Reducible(ord.side) > 0)
        /\ entryOpen' = [entryOpen EXCEPT ![ord.side] =
                           @ + (IF ord.reduceOnly THEN 0 ELSE ord.qty)]
        /\ lateExits' = IF ord.reduceOnly THEN lateExits \cup {ord.side} ELSE lateExits
        /\ UNCHANGED <<exch, prot>>
     \/ pc # "await" /\ UNCHANGED exchVars
  /\ \/ Starting /\ Forget
     \/ /\ ~Starting
        /\ stopping' = TRUE
        /\ pc' = IF stopping \/ ~FlattenOnShutdown THEN "stopped" ELSE "flatten"
        /\ next' = "loop" /\ closing' = NoPosition /\ ord' = NoOrder
        /\ UNCHANGED <<tradingEnabled, local>>
  /\ UNCHANGED <<dbVars, nextId>>

\* The process is killed.
Crash ==
  /\ pc # "down"
  /\ faults < MaxFaults /\ faults' = faults + 1
  /\ \/ pc = "await" /\ Abandon
     \/ pc # "await" /\ UNCHANGED exchVars
  /\ Forget
  /\ UNCHANGED <<dbVars, nextId>>

-----------------------------------------------------------------------------
(* The exchange *)

engineVars == <<pc, next, stopping, tradingEnabled, local, closing>>

\* The order the engine waits for fills, possibly in part.
FillAwaited(k) ==
  /\ pc = "await"
  /\ k <= ord.left
  /\ ord.reduceOnly => k <= Reducible(ord.side)
  /\ exch' = exch + Signed(ord.side, k)
  /\ ord' = [ord EXCEPT !.left = @ - k]
  /\ UNCHANGED <<entryOpen, lateExits, prot, engineVars, dbVars, nextId, faults>>

\* A fill of an entry order the engine no longer waits for.
FillLateEntry(s, k) ==
  /\ k <= entryOpen[s]
  /\ exch' = exch + Signed(s, k)
  /\ entryOpen' = [entryOpen EXCEPT ![s] = @ - k]
  /\ UNCHANGED <<lateExits, prot, engineVars, ord, dbVars, nextId, faults>>

\* The same for reduce-only orders.  The engine submits one per tick while the
\* position is still there, so how much they hold together is left open.
FillLateExit(s, k) ==
  /\ s \in lateExits /\ k <= Reducible(s)
  /\ exch' = exch + Signed(s, k)
  /\ lateExits' \in {lateExits, lateExits \ {s}}
  /\ UNCHANGED <<entryOpen, prot, engineVars, ord, dbVars, nextId, faults>>

\* The rest of such orders expires.
ExpireLate(s) ==
  /\ entryOpen[s] > 0 \/ s \in lateExits
  /\ entryOpen' = [entryOpen EXCEPT ![s] = 0]
  /\ lateExits' = lateExits \ {s}
  /\ UNCHANGED <<exch, prot, engineVars, ord, dbVars, nextId, faults>>

\* A protective order triggers: it closes what it can and is gone; its sibling
\* stays.
TriggerProtective(s, kind, k) ==
  /\ kind \in prot[s]
  /\ k <= Reducible(s)
  /\ k = 0 => Reducible(s) = 0
  /\ exch' = exch + Signed(s, k)
  /\ prot' = [prot EXCEPT ![s] = @ \ {kind}]
  /\ UNCHANGED <<entryOpen, lateExits, engineVars, ord, dbVars, nextId, faults>>

\* A liquidation, or a person closing the position by hand.
ClosedOutside ==
  /\ exch # 0
  /\ exch' = 0
  /\ UNCHANGED <<entryOpen, lateExits, prot, engineVars, ord, dbVars, nextId, faults>>

\* The duplicate window of side s passes.  Unless SlowFills, orders of that
\* side are long done by then, and it does not happen inside a tick in which
\* one was still filling.
WindowPasses(s) ==
  /\ s \in recent
  /\ ~SlowFills => entryOpen[s] = 0 /\ pc \in {"loop", "down"}
  /\ recent' = recent \ {s}
  /\ UNCHANGED <<exchVars, engineVars, ord, snap, closedIds, rows, nextId, faults>>

-----------------------------------------------------------------------------
EngineStep ==
  \/ StartSync \/ Started \/ TickSync \/ ResyncAfterExit
  \/ SaveOpen \/ SaveClosed \/ SaveTrade
  \/ DecideNothing \/ DecideExit
  \/ \E s \in Side, q \in 1 .. MaxLots : DecideEntry(s, q)
  \/ ExitCheck \/ SendAccepted \/ SendRejected
  \/ PollFilled \/ PollsExhausted \/ PollCancelled
  \/ SaveEntryOrder \/ SaveExitOrder
  \/ ProtectTP \/ ProtectSL
  \/ FlattenSync \/ FlattenPick \/ Exit

Operator ==
  \/ Boot \/ StopRequested
  \/ \E b \in BOOLEAN : SetTradingEnabled(b)

Failure == Raise \/ Crash

Exchange ==
  \/ \E k \in 1 .. MaxLots : FillAwaited(k)
  \/ \E s \in Side, k \in 1 .. MaxLots : FillLateEntry(s, k) \/ FillLateExit(s, k)
  \/ \E s \in Side : ExpireLate(s) \/ WindowPasses(s)
  \/ \E s \in Side, kind \in {"TP", "SL"}, k \in 0 .. MaxLots :
        TriggerProtective(s, kind, k)
  \/ ClosedOutside

Next == EngineStep \/ Operator \/ Failure \/ Exchange

\* Once running, the process keeps being scheduled: every wait of the code is
\* bounded (five polls, request timeouts, a one second sleep).  Nothing makes
\* an operator start it, the exchange fill, or a fault happen.
Fairness == WF_vars(EngineStep)

Spec == Init /\ [][Next]_vars
FairSpec == Spec /\ Fairness

-----------------------------------------------------------------------------
(* Properties *)

\* The variables stay in their ranges.
ExchangeOK ==
  /\ exch \in Int
  /\ entryOpen \in [Side -> Nat] /\ lateExits \subseteq Side
  /\ prot \in [Side -> SUBSET {"TP", "SL"}]
ControlOK ==
  /\ pc \in Calls \cup Commits \cup {"down", "stopped"}
  /\ next \in {"loop", "started", "decide", "flattenPick", "stopped", "protectTP"}
  /\ stopping \in BOOLEAN /\ tradingEnabled \in BOOLEAN
PositionsOK == local \in Position /\ closing \in Position /\ snap \in Position
TablesOK == closedIds \subseteq Ids /\ rows \in [Ids -> Nat] /\ recent \subseteq Side
BoundsOK == nextId \in 1 .. (MaxPositions + 1) /\ faults \in 0 .. MaxFaults

TypeOK ==
  ExchangeOK /\ ControlOK /\ PositionsOK /\ ord \in Order /\ TablesOK /\ BoundsOK

\* Between two ticks the position the process works with is the one a restart
\* would restore: every path that opens, corrects or closes a position has
\* written it by the time the tick is over, whatever failed before.
MemoryMatchesTables == pc = "loop" => snap = local

\* A position is booked in trade_result at most once, over any sequence of
\* crashes, restarts and resynchronisations ("1 completed trade = 1 row").
BookedAtMostOnce == \A i \in Ids : rows[i] <= 1

\* Entry quantity still on its way into the exchange position on side s.
EntryInFlight(s) ==
  entryOpen[s] + (IF pc = "await" /\ ord.purpose = "entry" /\ ord.side = s
                  THEN ord.left ELSE 0)

\* The position, with everything entry orders can still add to it, never
\* exceeds one entry (plus ignorable dust): the per-tick sync and the duplicate
\* window together keep the engine from stacking a second entry on a first one
\* it has not seen filled.  Assumes what the code assumes: positionRisk answers
\* are true, and a market order is done before its duplicate window ends.
ExposureBounded ==
  \A s \in Side : Signed(s, exch) + EntryInFlight(s) <= MaxLots + MinLots - 1

\* What an exit order fills brings the exchange position nearer to zero, even if
\* that position was closed or reversed after the engine looked at it.
ExitsOnlyReduce ==
  [][(pc = "await" /\ ord.purpose = "exit" /\ ord'.left < ord.left /\ pc' = "await")
       => AbsLots(exch') < AbsLots(exch)]_vars

\* stop() ends: whatever fails while it flattens, and whatever the exchange leaves
\* unfilled, the process terminates.
StopCompletes == stopping ~> pc = "down"

\* How many calls and commits stop() has before it at most, at a pc and with a
\* place to return to, this one included.
Distance(at, cont) ==
  (CASE at = "down" -> 0 [] at = "stopped" -> 1 [] at \in {"saveOpen", "saveTrade"} -> 2
     [] at = "saveClosed" -> 3 [] at = "resync" -> 4 [] at = "saveOrder" -> 5
     [] at = "await" -> 6 [] at = "send" -> 7 [] at = "exitCheck" -> 8
     [] at = "flattenPick" -> 9 [] OTHER -> 12)
  + (IF cont = "flattenPick" THEN 8 ELSE 0)
CallsLeft == Distance(pc, next)

\* stop() never goes back: every call and every commit brings its end nearer, those
\* that fail and those that find the position changed as well, so that it flattens
\* once and needs no more than twelve of them.
StopAdvances ==
  [][stopping /\ pc' # pc => CallsLeft' < CallsLeft /\ CallsLeft <= 12]_vars

\* A position on the exchange that the engine does not know of (an entry filled
\* late, a crash before the snapshot) is adopted, or goes away.
StrayPositionAdopted ==
  (~IsDust(exch) /\ local.net = 0) ~> (IsDust(exch) \/ local.net # 0 \/ pc = "down")

\* With orders that fill while they are waited for and no faults, stop() ends
\* with nothing left on the exchange (flatten_on_shutdown), or with the one lot
\* by which the exit order was rounded short: the engine takes that order for the
\* whole position and does not look again.
StoppedFlat ==
  pc = "stopped" /\ faults = 0 => IsDust(exch) \/ (Lossy # {} /\ AbsLots(exch) = 1)

\* A position is closed in the tables without an order only when the exchange
\* does not hold it any more (README: EXCHANGE_SYNC is recorded when the
\* position has disappeared from the exchange).
ReconcileOnlyWhenGone ==
  [][(pc \in {"boot", "loop", "resync", "flatten"} /\ pc' = "saveClosed")
       => IsDust(exch)]_vars

Ledger == INSTANCE PositionLedger WITH
  open <- snap, closed <- closedIds, ending <- stopping,
  pending <- IF pc = "saveTrade" THEN closing ELSE NoPosition

\* The tables keep what PositionLedger promises, through crashes, failed commits,
\* restarts and resynchronisations: snapshots and trades come in order, once each,
\* and a position is replaced by another one only by a stop() after an error.
LedgerKept == Ledger!Spec
=============================================================================
