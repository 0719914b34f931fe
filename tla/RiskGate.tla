------------------------------- MODULE RiskGate -------------------------------
(***************************************************************************)
(* What stands between a confirmed signal and an order: sizing from equity *)
(* and stop distance, the risk checker (loss streak and pause, daily loss  *)
(* limit, position size, order value, duplicate orders), and what feeds    *)
(* it: results of trades, order rows and executions, and in paper mode the *)
(* exchange's own inventory.  Runs with the paper exchange and live runs.  *)
(*                                                                         *)
(* Prices, distances and quantities are whole numbers.  An order is sized, *)
(* and its exit prices are set, from the price the tick saw; the paper     *)
(* exchange fills it at that price, the live one within Slip of it.  One   *)
(* symbol, one run_id.  TradingEngine has the failures of the exchange and *)
(* the step size; here an order is filled as it is, or nothing happens.    *)
(***************************************************************************)
EXTENDS Integers

CONSTANTS
  MaxTime, DayLen,    \* moments of the run (a bound), moments of a day
  MaxUpsets,          \* crashes inside an order and doings of the exchange (a bound)
  Prices,             \* prices of the symbol
  Slip,               \* how far from the price of the tick the live exchange fills (a bound)
  Distances,          \* stop distances the strategy is set to
  TakeProfit,         \* take-profit distance
  Scales,             \* position scales in percent
  RiskBudget,         \* equity * risk_per_trade_pct
  MaxNotional,        \* equity * max_position_notional_pct
  LeverageCap,        \* equity * max_leverage
  MinOrder,           \* min_order_notional_usdt
  MaxPosition,        \* max_position_qty, 0 for no limit
  Limits,             \* limits the configuration can have
  MinHold             \* min_hold_seconds_before_signal_exit

\* A limit: the losses that pause, the length of the pause, the loss of a day
\* (in money) and the duplicate-order window.
Limit == [losses : Nat, pause : Nat, daily : Nat, window : Nat]

ASSUME RiskAssumption ==
  /\ MaxTime \in Nat \ {0} /\ DayLen \in Nat \ {0} /\ MaxUpsets \in Nat
  /\ Prices # {} /\ Prices \subseteq Nat \ {0} /\ Slip \in Nat
  /\ Distances # {} /\ Distances \subseteq Nat \ {0} /\ TakeProfit \in Nat \ {0}
  /\ Scales # {} /\ Scales \subseteq 10 .. 100
  /\ RiskBudget \in Nat /\ MaxNotional \in Nat /\ LeverageCap \in Nat
  /\ MinOrder \in Nat /\ MaxPosition \in Nat /\ MinHold \in Nat
  /\ Limits # {} /\ Limits \subseteq Limit

VARIABLES
  now,
  paper,         \* the run uses the paper exchange
  limits,        \* _max_consecutive_losses and the other limits of the checker
  losses,        \* _consecutive_losses
  pausedUntil,   \* _paused_until, 0 for None
  pos,           \* the open position, or Flat
  book,          \* the paper exchange's quantity, negative for a sale too many
  lastOrder,     \* when the newest order_request row of a side was written, 0 for never
  cash,          \* get_daily_pnl: what sales of the day brought less what purchases cost
  \* bookkeeping of the model
  realized,      \* what the trades closed today brought
  slump,         \* losing trades in a row since the start of the process
  skewed,        \* today's executions are not the two legs of today's trades
  shorted,       \* the paper exchange was told to sell what it did not hold
  upsets

riskVars == <<limits, losses, pausedUntil>>
tableVars == <<lastOrder, cash>>
ghostVars == <<realized, slump, skewed, shorted, upsets>>
vars == <<now, paper, riskVars, pos, book, tableVars, ghostVars>>

Sides == {"BUY", "SELL"}
Flat == [side |-> "flat", qty |-> 0, entry |-> 0, tp |-> 0, sl |-> 0, at |-> 0, by |-> "none"]
NoSlump == [count |-> 0, at |-> 0, rule |-> [losses |-> 0, pause |-> 0, daily |-> 0, window |-> 0]]

Least(a, b) == IF a < b THEN a ELSE b
Midnight == (now + 1) % DayLen = 0
EntryOrder(side) == IF side = "LONG" THEN "BUY" ELSE "SELL"
ExitOrder(side) == IF side = "LONG" THEN "SELL" ELSE "BUY"

-----------------------------------------------------------------------------
(* Pure parts *)

\* calculate: the quantity of an order, 0 for none.
Quantity(price, distance) ==
  LET risk == RiskBudget \div distance
      q == Least(risk, Least(MaxNotional \div price, LeverageCap \div price))
  IN  IF q * price < MinOrder THEN 0 ELSE q

\* Mutant of Size: scaled up to the limit of the next check.
SizeUnlimited(price, distance, scale) == ((MaxNotional \div price) * scale) \div 100

\* _calculate_quantity: scaled after the minimum was checked.
Size(price, distance, scale) == (Quantity(price, distance) * scale) \div 100

\* The prices the order of a tick that saw price can be filled at: its order.price.
SlipNow == IF paper THEN 0 ELSE Slip
Fills(price) == {fill \in Prices : fill <= price + SlipNow /\ price <= fill + SlipNow}

\* Mutant of NewPosition: a short quantity with its sign.
NewPositionSigned(side, qty, price, fill, distance, by) ==
  [side |-> side, qty |-> IF side = "LONG" THEN qty ELSE -qty, entry |-> fill, at |-> now,
   by |-> by, tp |-> price, sl |-> price]

\* open_position: the entry price is that of the fill, the exit prices of decide are those of
\* the tick (and _compute_tp_sl has but one price for both).
NewPosition(side, qty, price, fill, distance, by) ==
  [side |-> side, qty |-> qty, entry |-> fill, at |-> now, by |-> by,
   tp |-> IF side = "LONG" THEN price + TakeProfit ELSE price - TakeProfit,
   sl |-> IF side = "LONG" THEN price - distance ELSE price + distance]

\* Mutant of CheckExit: the comparisons of a LONG for both sides.
CheckExitLong(p, price) ==
  IF price >= p.tp THEN "TAKE_PROFIT" ELSE IF price <= p.sl THEN "STOP_LOSS" ELSE "none"

\* check_exit: the take-profit is looked at first.
CheckExit(p, price) ==
  LET up == p.side = "LONG" IN
  IF (up /\ price >= p.tp) \/ (~up /\ price <= p.tp) THEN "TAKE_PROFIT"
  ELSE IF (up /\ price <= p.sl) \/ (~up /\ price >= p.sl) THEN "STOP_LOSS"
  ELSE "none"

\* The result of close_position.
Pnl(p, price) ==
  IF p.side = "LONG" THEN (price - p.entry) * p.qty ELSE (p.entry - price) * p.qty

\* Mutant of Flow: purchases counted like sales.
FlowUnsigned(order, qty, price) == qty * price

\* The row of get_daily_pnl: sales count up, purchases down.
Flow(order, qty, price) == IF order = "SELL" THEN qty * price ELSE -(qty * price)

\* Mutant of PaperUpdate: an order always moves the inventory by its quantity.
PaperUpdateBuying(b, order, qty) == b + qty

\* _update_position of the paper exchange: nothing is sold from an empty book.
PaperUpdate(b, order, qty) ==
  IF order = "BUY" THEN b + qty ELSE IF b = 0 THEN 0 ELSE b - qty

-----------------------------------------------------------------------------
(* The risk checker *)

PauseBlocks == pausedUntil # 0 /\ now < pausedUntil

DailyLossBlocks == cash < -limits.daily

\* get_all_positions: the paper book; live, the engine is flat and so is the exchange.
SizeBlocks(order, qty) ==
  /\ MaxPosition > 0
  /\ LET held == IF paper THEN book ELSE 0
         new == IF order = "BUY" THEN held + qty ELSE held - qty
     IN  new > MaxPosition \/ -new > MaxPosition

NotionalBlocks(qty, price) == qty * price > MaxNotional

DuplicateBlocks(order) ==
  lastOrder[order] # 0 /\ lastOrder[order] >= now - limits.window

Passes(order, qty, price) ==
  /\ ~PauseBlocks /\ ~DailyLossBlocks /\ ~SizeBlocks(order, qty)
  /\ ~NotionalBlocks(qty, price) /\ ~DuplicateBlocks(order)

\* check forgets a pause that is over, also when a later check refuses.
EndPause == pausedUntil' = IF PauseBlocks THEN pausedUntil ELSE 0

\* Mutant of Pausing: only the loss that completes the streak pauses.
PausingOnce(n) == limits.losses > 0 /\ n = limits.losses

Pausing(n) == limits.losses > 0 /\ n >= limits.losses

\* record_trade_result: a pause that ended does not end the streak.
RecordTradeResult(pnl) ==
  IF pnl < 0
  THEN /\ losses' = losses + 1
       /\ pausedUntil' = IF Pausing(losses + 1) THEN now + limits.pause ELSE pausedUntil
  ELSE IF pnl > 0 THEN losses' = 0 /\ pausedUntil' = 0
       ELSE UNCHANGED <<losses, pausedUntil>>

\* What the trades of the process say (not in the code).
Slump(pnl) ==
  IF pnl < 0 THEN [count |-> slump.count + 1, at |-> now, rule |-> limits]
  ELSE IF pnl > 0 THEN NoSlump ELSE slump

-----------------------------------------------------------------------------
(* Actions *)

Upset == upsets < MaxUpsets /\ upsets' = upsets + 1 /\ skewed' = TRUE

\* Time passes; at midnight a new day of executions begins.
Tick ==
  /\ now < MaxTime /\ now' = now + 1
  /\ IF Midnight
     THEN cash' = 0 /\ realized' = 0 /\ skewed' = (pos # Flat)
     ELSE UNCHANGED <<cash, realized, skewed>>
  /\ UNCHANGED <<paper, riskVars, pos, book, lastOrder, slump, shorted, upsets>>

\* save_order of an order that was filled: its request and its execution.
Filled(order, qty, price) ==
  /\ lastOrder' = [lastOrder EXCEPT ![order] = now]
  /\ cash' = cash + Flow(order, qty, price)
  /\ book' = IF paper THEN PaperUpdate(book, order, qty) ELSE book

\* The engine is flat and a signal was confirmed.
Enter(side, price, fill, distance, scale) ==
  LET order == EntryOrder(side)
      qty == Size(price, distance, scale)
  IN  /\ pos = Flat /\ qty > 0
      /\ Passes(order, qty, price)
      /\ EndPause
      /\ Filled(order, qty, fill)
      /\ pos' = NewPosition(side, qty, price, fill, distance, "entry")
      /\ shorted' = (shorted \/ side = "SHORT")
      /\ UNCHANGED <<now, paper, limits, losses, realized, slump, skewed, upsets>>

Refuse(side, price, distance, scale) ==
  LET order == EntryOrder(side)
      qty == Size(price, distance, scale)
  IN  /\ pos = Flat /\ qty > 0
      /\ ~Passes(order, qty, price)
      /\ EndPause
      /\ UNCHANGED <<now, paper, limits, losses, pos, book, tableVars, ghostVars>>

\* A position ends: its result is booked, and the checker is told.
Closed(price) ==
  LET pnl == Pnl(pos, price) IN
  /\ pos' = Flat
  /\ RecordTradeResult(pnl)
  /\ realized' = realized + pnl /\ slump' = Slump(pnl)

\* An exit order: TP or SL is reached, or the model says so after the holding time.  What is
\* booked is the price of its fill.
Leave(price, fill) ==
  /\ pos # Flat
  /\ CheckExit(pos, price) # "none" \/ now - pos.at >= MinHold
  /\ Closed(fill)
  /\ Filled(ExitOrder(pos.side), pos.qty, fill)
  /\ shorted' = (shorted \/ pos.side = "SHORT")
  /\ UNCHANGED <<now, paper, limits, skewed, upsets>>

\* Live: the exchange shows no position any more; no order was sent.
Gone(price) ==
  /\ ~paper /\ pos # Flat
  /\ Closed(price)
  /\ Upset
  /\ UNCHANGED <<now, paper, limits, book, tableVars, shorted>>

\* Live: the exchange shows a position the engine does not have.
Adopt(side, price, distance) ==
  /\ ~paper /\ pos = Flat
  /\ pos' = NewPosition(side, Quantity(price, distance), price, price, distance, "sync")
  /\ pos'.qty > 0
  /\ Upset
  /\ UNCHANGED <<now, paper, riskVars, book, tableVars, realized, slump, shorted>>

\* Live: or one on the other side, which keeps the exit prices of the old one.
Turned(price) ==
  /\ ~paper /\ pos # Flat
  /\ pos' = [pos EXCEPT !.side = IF @ = "LONG" THEN "SHORT" ELSE "LONG",
                        !.entry = price, !.by = "turned"]
  /\ Upset
  /\ UNCHANGED <<now, paper, riskVars, book, tableVars, realized, slump, shorted>>

\* A new process: the checker, and the paper exchange, start from nothing.
Forget ==
  /\ losses' = 0 /\ pausedUntil' = 0 /\ book' = 0 /\ slump' = NoSlump

\* The OPEN snapshot is restored.  A position the live exchange lost meanwhile is
\* closed at its own entry price, a result of 0.
Restored(p) == IF p = Flat \/ p.by = "turned" THEN p ELSE [p EXCEPT !.by = "boot"]

Restart ==
  /\ Forget
  /\ \/ pos' = Restored(pos) /\ UNCHANGED <<skewed, upsets>>
     \/ ~paper /\ pos # Flat /\ pos' = Flat /\ Upset
  /\ shorted' = (pos.side = "SHORT")
  /\ UNCHANGED <<now, paper, limits, tableVars, realized>>

\* The rows of an order are two commits, the snapshot is a third.
CutRows(order, qty, price) ==
  /\ lastOrder' = [lastOrder EXCEPT ![order] = now]
  /\ cash' \in {cash, cash + Flow(order, qty, price)}

\* The process ends between the fill of an entry and its OPEN snapshot: a paper
\* position is lost, a live one found again.
CrashInEntry(side, price, fill, distance, scale) ==
  LET order == EntryOrder(side)
      qty == Size(price, distance, scale)
  IN  /\ pos = Flat /\ qty > 0
      /\ Passes(order, qty, price)
      /\ CutRows(order, qty, fill)
      /\ Forget
      /\ pos' = IF paper THEN Flat ELSE NewPosition(side, qty, fill, fill, distance, "sync")
      /\ Upset /\ shorted' = FALSE
      /\ UNCHANGED <<now, paper, limits, realized>>

\* Between the fill of an exit and its CLOSED snapshot: the paper position is
\* there again, the live one is closed with a result of 0.
CrashInExit(price, fill) ==
  /\ pos # Flat
  /\ CheckExit(pos, price) # "none" \/ now - pos.at >= MinHold
  /\ CutRows(ExitOrder(pos.side), pos.qty, fill)
  /\ Forget
  /\ pos' = IF paper THEN Restored(pos) ELSE Flat
  /\ Upset /\ shorted' = (pos.side = "SHORT")
  /\ UNCHANGED <<now, paper, limits, realized>>

\* _update_risk_from_config keeps the streak and a pause.
Reconfigure(l) ==
  /\ l # limits /\ limits' = l
  /\ UNCHANGED <<now, paper, losses, pausedUntil, pos, book, tableVars, ghostVars>>

Init ==
  /\ now = 1 /\ paper \in BOOLEAN /\ limits \in Limits
  /\ losses = 0 /\ pausedUntil = 0 /\ pos = Flat /\ book = 0
  /\ lastOrder = [s \in Sides |-> 0] /\ cash = 0
  /\ realized = 0 /\ slump = NoSlump /\ skewed = FALSE /\ shorted = FALSE
  /\ upsets = 0

Next ==
  \/ Tick
  \/ \E side \in {"LONG", "SHORT"}, price \in Prices, distance \in Distances, scale \in Scales :
       \/ Refuse(side, price, distance, scale)
       \/ \E fill \in Fills(price) : \/ Enter(side, price, fill, distance, scale)
                                    \/ CrashInEntry(side, price, fill, distance, scale)
  \/ \E side \in {"LONG", "SHORT"}, price \in Prices, distance \in Distances :
       Adopt(side, price, distance)
  \/ \E price \in Prices :
       \/ Gone(price) \/ Turned(price)
       \/ \E fill \in Fills(price) : Leave(price, fill) \/ CrashInExit(price, fill)
  \/ Restart
  \/ \E l \in Limits : Reconfigure(l)

Spec == Init /\ [][Next]_vars

-----------------------------------------------------------------------------
(* Properties *)

TypeOK ==
  /\ now \in 1 .. MaxTime /\ paper \in BOOLEAN /\ limits \in Limits
  /\ losses \in Nat /\ pausedUntil \in Nat
  /\ pos = Flat \/ (/\ pos.side \in {"LONG", "SHORT"} /\ pos.qty \in Nat \ {0}
                    /\ pos.entry \in Prices /\ pos.at \in 1 .. now)
  /\ book \in Int /\ lastOrder \in [Sides -> 0 .. now]
  /\ cash \in Int /\ realized \in Int
  /\ skewed \in BOOLEAN /\ shorted \in BOOLEAN /\ upsets \in 0 .. MaxUpsets

Entering == pos = Flat /\ pos' # Flat /\ pos'.by = "entry"

\* After enough losing trades in a row since the start, no order is placed before
\* the pause that followed the last of them is over, whatever restarts of the
\* streak, refused entries and changes of the limits came in between.
LossPauseHolds ==
  [][Entering /\ slump.count > 0 /\ slump.rule.losses > 0
       /\ slump.count >= slump.rule.losses
     => now >= slump.at + slump.rule.pause]_vars

\* No order is placed on a day that has realized more than the limit in losses,
\* unless executions of the day belong to a trade of another day, one that was
\* cut off by a crash, or one the exchange made by itself.
DailyLimitHolds == [][Entering /\ ~skewed => realized >= -limits.daily]_vars

\* The paper exchange holds what the engine believes to hold, as long as nothing
\* was sold short and the position was not restored from the tables.
BookFollowsEngine ==
  paper /\ ~shorted /\ pos.by # "boot" => book = pos.qty

\* What an entry can lose at its stop stays within the budget, and its value within the
\* limits, but for the slippage of its fill: quantity, stop and checks come from the price of
\* the tick, the position from that of the fill.  In paper mode they are kept exactly.  The
\* value can fall below the minimum of an order by slippage, by the scale and by the rounding
\* to whole quantities, no more.
RiskBudgetKept ==
  pos.by = "entry" =>
    LET distance == IF pos.side = "LONG" THEN pos.entry - pos.sl ELSE pos.sl - pos.entry
        slippage == pos.qty * SlipNow
    IN  /\ pos.qty * distance <= RiskBudget + slippage
        /\ pos.qty * pos.entry <= MaxNotional + slippage
        /\ pos.qty * pos.entry <= LeverageCap + slippage
        /\ \E s \in Scales : 100 * (pos.qty + 1) * (pos.entry + SlipNow) > s * MinOrder

\* An engine exit named a take-profit is booked with a gain and one named a stop-loss with a
\* loss, but for the slippage of its two fills: the sides of the strategy, of the exit check
\* and of the result agree.  A position that was turned by the exchange has exit prices of
\* the other side.
ExitsAsNamed ==
  pos # Flat /\ pos.by # "turned" =>
    \A price \in Prices : \A fill \in Fills(price) :
      /\ CheckExit(pos, price) = "TAKE_PROFIT" => Pnl(pos, fill) > -(2 * SlipNow * pos.qty)
      /\ CheckExit(pos, price) = "STOP_LOSS" => Pnl(pos, fill) < 2 * SlipNow * pos.qty
===============================================================================
