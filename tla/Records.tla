-------------------------------- MODULE Records --------------------------------
(***************************************************************************)
(* What the engine writes to the trade schema and what the read API makes  *)
(* of it: order_request and order_execution, position_snapshot,            *)
(* trade_result, performance_daily and equity_snapshot, for one symbol and *)
(* one user.                                                               *)
(*                                                                         *)
(* The engine commits row by row (storage/postgres_db.py), may end between *)
(* any two commits and be started again under another run_id, while orders *)
(* go on at the exchange.  The API reads in statements of their own, each  *)
(* of which sees what is committed by then; the order page joins what the  *)
(* tables say with what the exchange says now.                             *)
(***************************************************************************)
EXTENDS Integers, Sequences, FiniteSets, SequencesExt, Functions

CONSTANTS
  Runs,        \* run ids
  Pnls,        \* realized profits and losses
  Balances,    \* available balances at a start
  None,        \* a row or a column that is not there
  Limit,       \* rows of a page, at most the 200 of an order page
  MaxSize,     \* size of the tables: a market order counts 4, a snapshot 2, a protective
               \* order or a balance 1 (a bound)
  MaxCrashes,  \* ends of the engine and changes of its run id (a bound)
  MaxDay       \* last day, in Korean time (a bound)

ASSUME RecordsAssumption ==
  /\ Runs # {} /\ Pnls \subseteq Int /\ Balances \subseteq Nat \ {0} /\ None \notin Int
  /\ Limit \in Nat \ {0}
  /\ {MaxSize, MaxCrashes, MaxDay} \subseteq Nat

VARIABLES
  \* the tables: sequences of rows, the index of a row is its id
  orders,      \* order_request
  executions,  \* ids of the orders that have a row in order_execution
  snaps,       \* position_snapshot
  trades,      \* trade_result
  daily,       \* performance_daily, by run and day
  equity,      \* equity_snapshot
  \* the exchange
  exch,        \* what became of each order: "none" (refused), "open", "partial", "filled",
               \* "cancelled"
  \* the engine
  up, run,
  mem,         \* the position of PositionManager, or NoPosition
  work,        \* the commit that comes next
  crashes,
  \* the time
  day,         \* the day in Korea: period_date and today are taken in Korean time
  aged,        \* the orders up to this one were sent more than ten minutes ago
  \* a client that pages through the orders
  reader,
  \* bookkeeping of the model
  lost         \* closed snapshots whose trade an end of the engine kept from being booked

tables == <<orders, executions, snaps, trades, daily, equity>>
engine == <<up, run, mem, work, crashes>>
time == <<day, aged>>
vars == <<tables, exch, engine, time, reader, lost>>

NoPosition == [run |-> "none"]
Idle == [at |-> "idle"]
Booting == [at |-> "boot"]
Booted == [at |-> "booted"]
Days == 0..MaxDay

\* Rows of the models that the properties tell apart.  A position is small when its
\* notional at entry is below the minimum of an order.
OrderRow == [run : Runs, type : {"MARKET", "TRIGGER"}, sent : BOOLEAN]
SnapshotRow == [run : Runs, status : {"OPEN", "CLOSED"}, small : BOOLEAN, pnl : Pnls \cup {0},
                day : Days]
TradeRow == [run : Runs, pnl : Pnls, day : Days, snap : Nat \ {0}]
EquityRow == [run : Runs, day : Days, amount : Balances]
DailyRow == [count : Nat, wins : Nat, losses : Nat, even : Nat, sum : Int, profit : Nat,
             loss : Nat, opening : Balances \cup {None}, closing : Int \cup {None}]

\* NULL is not a row.
ASSUME NoneAssumption == None \notin DailyRow

Ids(s) == 1..Len(s)
Markets == {i \in Ids(orders) : orders[i].type = "MARKET"}
Room(n) ==
  Len(orders) + 3 * Cardinality(Markets) + 2 * Len(snaps) + Len(equity) + n <= MaxSize
Count(S) == Cardinality(S)

-----------------------------------------------------------------------------
(* Writing: positions, trades and the aggregate of a day *)

\* DISTINCT ON (symbol) ... ORDER BY snapshot_at DESC, then status = 'OPEN'
LatestOpen == IF snaps # <<>> /\ Last(snaps).status = "OPEN" THEN {Last(snaps)} ELSE {}

\* build_trade_result_create: nothing is booked for a position below the minimum.
Books(row) == row.status = "CLOSED" /\ ~row.small

\* Mutant of BookedDay: the day of the commit.
BookedDayOfCommit(row) == day

\* period_date is the day of closed_at.
BookedDay(row) == row.day

Sign(pnl) == [win |-> IF pnl > 0 THEN 1 ELSE 0, loss |-> IF pnl < 0 THEN 1 ELSE 0,
              even |-> IF pnl = 0 THEN 1 ELSE 0]

EmptyDay == [count |-> 0, wins |-> 0, losses |-> 0, even |-> 0, sum |-> 0, profit |-> 0,
             loss |-> 0, opening |-> None, closing |-> None]

Closing(d) == [d EXCEPT !.closing = IF d.opening = None THEN @ ELSE d.opening + d.sum]

Row(r, d) == IF daily[<<r, d>>] = None THEN EmptyDay ELSE daily[<<r, d>>]

\* Mutant of Added: gross_loss takes the sign of the result.
AddedSigned(d, pnl) ==
  [d EXCEPT !.count = @ + 1, !.sum = @ + pnl,
            !.wins = @ + Sign(pnl).win, !.losses = @ + Sign(pnl).loss,
            !.even = @ + Sign(pnl).even,
            !.profit = IF pnl > 0 THEN @ + pnl ELSE @,
            !.loss = IF pnl < 0 THEN @ + pnl ELSE @]

\* INSERT ... ON CONFLICT DO UPDATE
Added(d, pnl) ==
  [d EXCEPT !.count = @ + 1, !.sum = @ + pnl,
            !.wins = @ + Sign(pnl).win, !.losses = @ + Sign(pnl).loss,
            !.even = @ + Sign(pnl).even,
            !.profit = IF pnl > 0 THEN @ + pnl ELSE @,
            !.loss = IF pnl < 0 THEN @ - pnl ELSE @]

\* Mutant of Upsert: the closing equity is left to the next start.
UpsertOnly(d, pnl) == Added(d, pnl)

\* ... and the closing equity, in the same transaction.
Upsert(d, pnl) == Closing(Added(d, pnl))

Tick == up /\ work = Idle

\* The commit that follows an order, a sync or a start
Goes(w) == work' = w
Snapshot(row, next) == [at |-> "snapshot", row |-> row, next |-> next]

Protecting(n) == IF n = 0 THEN Idle ELSE [at |-> "protect", left |-> n]

\* A sync is part of a tick and of a start, which goes on when it is done.
Syncs == up /\ work \in {Idle, Booting}
AfterSync == IF work = Booting THEN Booted ELSE Idle

OpenRow(p) == [run |-> p.run, status |-> "OPEN", small |-> p.small, pnl |-> 0, day |-> day]
ClosedRow(p, pnl) ==
  [run |-> p.run, status |-> "CLOSED", small |-> p.small, pnl |-> pnl, day |-> day]

\* The engine sends a market order: an entry when it holds nothing, an exit otherwise.
Send(said) ==
  /\ Tick /\ Room(4)
  /\ Goes([at |-> "request", said |-> said])
  /\ UNCHANGED <<tables, exch, up, run, mem, crashes, time, reader, lost>>

\* Mutant of Executed: an order that was accepted is taken for filled.
ExecutedAccepted(said) == said # "rejected"

\* save_order writes an execution for an order that came back FILLED.
Executed(said) == said = "filled"

\* order_request
SaveRequest ==
  /\ work.at = "request"
  /\ orders' = Append(orders, [run |-> run, type |-> "MARKET", sent |-> work.said # "rejected"])
  /\ exch' = Append(exch, IF work.said = "rejected" THEN "none" ELSE work.said)
  /\ Goes(IF Executed(work.said) THEN [at |-> "execution"] ELSE Idle)
  /\ UNCHANGED <<executions, snaps, trades, daily, equity, up, run, mem, crashes, time,
                 reader, lost>>

\* order_execution; then the position is opened or closed in memory.  As many orders
\* protect a new one as the strategy gives it exit prices.
SaveExecution ==
  /\ work.at = "execution"
  /\ executions' = executions \cup {Len(orders)}
  /\ IF mem = NoPosition
     THEN \E small \in BOOLEAN, protect \in {n \in 0..2 : n = 0 \/ Room(n + 2)} :
            LET p == [run |-> run, small |-> small] IN
              mem' = p /\ Goes(Snapshot(OpenRow(p), Protecting(protect)))
     ELSE \E pnl \in Pnls : mem' = NoPosition /\ Goes(Snapshot(ClosedRow(mem, pnl), Idle))
  /\ UNCHANGED <<orders, snaps, trades, daily, equity, exch, up, run, crashes, time, reader,
                 lost>>

\* The sync finds nothing, or less than the minimum, at the exchange.
Gone ==
  /\ Syncs /\ mem # NoPosition /\ Room(2)
  /\ \E pnl \in Pnls : Goes(Snapshot(ClosedRow(mem, pnl), AfterSync))
  /\ mem' = NoPosition
  /\ UNCHANGED <<tables, exch, up, run, crashes, time, reader, lost>>

\* The sync finds a position that is not known, or another one: it belongs to this run.
TakeOver ==
  /\ Syncs /\ Room(2)
  /\ mem' = [run |-> run, small |-> FALSE]
  /\ Goes(Snapshot(OpenRow(mem'), AfterSync))
  /\ UNCHANGED <<tables, exch, up, run, crashes, time, reader, lost>>

\* save_position: the snapshot is a commit of its own, the trade another.
SaveSnapshot ==
  /\ work.at = "snapshot"
  /\ snaps' = Append(snaps, work.row)
  /\ Goes(IF Books(work.row)
          THEN [at |-> "trade", row |-> work.row, next |-> work.next, snap |-> Len(snaps) + 1]
          ELSE work.next)
  /\ UNCHANGED <<orders, executions, trades, daily, equity, exch, up, run, mem, crashes, time,
                 reader, lost>>

\* record_closed_trade
RecordClosedTrade ==
  /\ work.at = "trade"
  /\ LET row == work.row  d == BookedDay(row) IN
       /\ trades' = Append(trades, [run |-> row.run, pnl |-> row.pnl, day |-> row.day,
                                    snap |-> work.snap])
       /\ daily' = [daily EXCEPT ![<<row.run, d>>] = Upsert(Row(row.run, d), row.pnl)]
  /\ Goes(work.next)
  /\ UNCHANGED <<orders, executions, snaps, equity, exch, up, run, mem, crashes, time, reader,
                 lost>>

\* The conditional orders that protect the position, one after the other, each accepted
\* or refused.
SaveProtection ==
  /\ work.at = "protect"
  /\ \E sent \in BOOLEAN :
       /\ orders' = Append(orders, [run |-> run, type |-> "TRIGGER", sent |-> sent])
       /\ exch' = Append(exch, IF sent THEN "open" ELSE "none")
  /\ Goes(Protecting(work.left - 1))
  /\ UNCHANGED <<executions, snaps, trades, daily, equity, up, run, mem, crashes, time,
                 reader, lost>>

\* The process ends: killed, or by the error of a commit.
Crash ==
  /\ up /\ crashes < MaxCrashes
  /\ up' = FALSE /\ crashes' = crashes + 1
  /\ lost' = IF work.at = "trade" THEN lost \cup {work.snap} ELSE lost
  /\ mem' = NoPosition /\ Goes(Idle)
  /\ UNCHANGED <<tables, exch, run, time, reader>>

\* start(): the position of the latest snapshot, whatever run it is of, then a sync ...
Start(r) ==
  /\ ~up
  /\ up' = TRUE /\ run' = r
  /\ mem' = IF LatestOpen = {} THEN NoPosition
            ELSE [run |-> Last(snaps).run, small |-> Last(snaps).small]
  /\ Goes(Booting)
  /\ UNCHANGED <<tables, exch, crashes, time, reader, lost>>

\* ... which may find nothing to change, then the balance, which may be zero or not be
\* known.
ReadBalance ==
  /\ work \in {Booting, Booted}
  /\ \/ Room(1) /\ \E b \in Balances : Goes([at |-> "equity", amount |-> b])
     \/ Goes(Idle)
  /\ UNCHANGED <<tables, exch, up, run, mem, crashes, time, reader, lost>>

SaveEquity ==
  /\ work.at = "equity"
  /\ \/ /\ equity' = Append(equity, [run |-> run, day |-> day, amount |-> work.amount])
        /\ Goes([work EXCEPT !.at = "opening"])
     \/ Goes(Idle) /\ UNCHANGED equity
  /\ UNCHANGED <<orders, executions, snaps, trades, daily, exch, up, run, mem, crashes, time,
                 reader, lost>>

\* set_opening_equity_if_missing, for the day of the snapshot; an error is only logged.
SaveOpening ==
  /\ work.at = "opening"
  /\ LET d == Last(equity).day  old == Row(run, d) IN
       daily' \in {daily,
                   IF old.opening # None THEN daily
                   ELSE [daily EXCEPT ![<<run, d>>] = Closing([old EXCEPT !.opening = work.amount])]}
  /\ Goes(Idle)
  /\ UNCHANGED <<orders, executions, snaps, trades, equity, exch, up, run, mem, crashes, time,
                 reader, lost>>

\* A new configuration names another run; the position keeps its own.
ApplyRun(r) ==
  /\ Tick /\ r # run /\ crashes < MaxCrashes
  /\ run' = r /\ crashes' = crashes + 1
  /\ UNCHANGED <<tables, exch, up, mem, work, time, reader, lost>>

ExchangeMoves ==
  /\ \E i \in Ids(exch), e \in {"partial", "filled", "cancelled"} :
       /\ exch[i] \in {"open", "partial"} /\ e # exch[i]
       /\ exch' = [exch EXCEPT ![i] = e]
  /\ UNCHANGED <<tables, engine, time, reader, lost>>

Passes ==
  /\ \/ day < MaxDay /\ day' = day + 1 /\ UNCHANGED aged
     \/ aged < Len(orders) /\ aged' = Len(orders) /\ UNCHANGED day
  /\ UNCHANGED <<tables, exch, engine, reader, lost>>

-----------------------------------------------------------------------------
(* Reading: the history, performance and dashboard endpoints *)

\* SUM(pnl) over some rows of a table
SumPnl(rows, S) == SumFunctionOnSet([i \in Ids(rows) |-> rows[i].pnl], S)

TradesOf(r) == {i \in Ids(trades) : trades[i].run = r}

\* GET /history/summary: a trade that is not a win is a loss.
Summary(r) ==
  [trades |-> Count(TradesOf(r)), sum |-> SumPnl(trades, TradesOf(r)),
   wins |-> Count({i \in TradesOf(r) : trades[i].pnl > 0}),
   losses |-> Count({i \in TradesOf(r) : ~(trades[i].pnl > 0)})]

\* GET /performance/summary
PerformanceSummary(r) ==
  [total |-> Count(TradesOf(r)), sum |-> SumPnl(trades, TradesOf(r)),
   wins |-> Count({i \in TradesOf(r) : trades[i].pnl > 0}),
   losses |-> Count({i \in TradesOf(r) : trades[i].pnl < 0}),
   even |-> Count({i \in TradesOf(r) : trades[i].pnl = 0})]

\* GET /performance/periods by day
DailyOf(r, d) == Row(r, d)

\* ... and by week or month
PeriodOf(r, ds) ==
  LET S == {i \in TradesOf(r) : trades[i].day \in ds} IN
    [count |-> Count(S), sum |-> SumPnl(trades, S),
     wins |-> Count({i \in S : trades[i].pnl > 0}),
     losses |-> Count({i \in S : trades[i].pnl < 0})]

\* GET /flow/dashboard: realized_pnl_today and closed_positions_today
ClosedToday(r) ==
  {i \in Ids(snaps) : snaps[i].status = "CLOSED" /\ snaps[i].run = r /\ snaps[i].day >= day}
PnlToday(r) == SumPnl(snaps, ClosedToday(r))

\* The status of an order from the tables alone
FillStatus(i) ==
  CASE i \in executions -> "FILLED"
    [] i \notin executions /\ orders[i].sent -> "PENDING"
    [] OTHER -> "REJECTED"

ExchangeStatus(e) ==
  CASE e = "filled" -> "FILLED" [] e = "partial" -> "PARTIAL"
    [] e = "open" -> "PENDING" [] e = "cancelled" -> "CANCELLED"

\* enrich_order_fill_status: an order without an execution is looked up at the
\* exchange; when that fails, a market order is not taken for pending for ever.
Enriched(i, reachable) ==
  CASE FillStatus(i) # "PENDING" -> FillStatus(i)
    [] FillStatus(i) = "PENDING" /\ reachable -> ExchangeStatus(exch[i])
    [] OTHER -> IF orders[i].type = "MARKET" /\ i <= aged THEN "UNKNOWN" ELSE "PENDING"

\* ORDER BY requested_at DESC OFFSET offset LIMIT limit
Page(offset) ==
  {Len(orders) + 1 - k : k \in {k \in Ids(orders) : k > offset /\ k <= offset + Limit}}

\* The members of S that are greater than t, and those with fewer than n greater ones.
Newer(S, t) == {u \in S : u > t}
Newest(S, n) == {t \in S : Count(Newer(S, t)) < n}

\* ORDER BY executed_at DESC OFFSET offset LIMIT limit
ExecutionPage(offset) ==
  {i \in executions : LET n == Count(Newer(executions, i)) IN n >= offset /\ n < offset + Limit}

\* synthetic_execution_from_order: a fill that only the exchange knows of
Synthetic(i, reachable) ==
  i \notin executions /\ orders[i].sent /\ Enriched(i, reachable) = "FILLED"

\* Of the first page of the orders
Extras(reachable) == {i \in Page(0) : Synthetic(i, reachable)}

\* GET /history/executions: a page of the saved executions; the fills that only the
\* exchange knows of are merged into the first, which stays a page.
ListedExecutions(offset, reachable) ==
  IF offset = 0 THEN Newest(ExecutionPage(0) \cup Extras(reachable), Limit)
  ELSE ExecutionPage(offset)

\* Mutant of HasMore: off by one.
HasMoreThanNext(offset, count, total) == offset + count + 1 < total

\* page_response
HasMore(offset, count, total) == offset + count < total

BeginReading ==
  /\ reader.at = "off" /\ orders # <<>>
  /\ reader' = [at |-> "count", offset |-> 0, total |-> 0, seen |-> {}, raced |-> FALSE,
                start |-> Ids(orders)]
  /\ UNCHANGED <<tables, exch, engine, time, lost>>

\* list_orders counts first ...
CountRows ==
  /\ reader.at = "count"
  /\ reader' = [reader EXCEPT !.at = "rows", !.total = Len(orders)]
  /\ UNCHANGED <<tables, exch, engine, time, lost>>

\* ... and then selects; the client goes on as long as there is more.
SelectRows ==
  /\ reader.at = "rows"
  /\ LET page == Page(reader.offset)
         more == HasMore(reader.offset, Count(page), reader.total) IN
       reader' = [reader EXCEPT !.at = IF more THEN "count" ELSE "done",
                                !.seen = @ \cup page,
                                !.raced = Len(orders) # reader.total,
                                !.offset = IF more THEN @ + Limit ELSE @]
  /\ UNCHANGED <<tables, exch, engine, time, lost>>

\* get_flow_timeline: the newest perTable events of each table, merged, sorted and
\* cut.  An event is the time it happened at.
Timeline(events, cap, perTable) ==
  Newest(UNION {Newest(S, perTable) : S \in events}, cap)

-----------------------------------------------------------------------------
Init ==
  /\ orders = <<>> /\ executions = {} /\ snaps = <<>> /\ trades = <<>> /\ equity = <<>>
  /\ daily = [rd \in Runs \X Days |-> None]
  /\ exch = <<>>
  /\ up = FALSE /\ run \in Runs /\ mem = NoPosition /\ work = Idle /\ crashes = 0
  /\ day = 0 /\ aged = 0 /\ lost = {}
  /\ reader = [at |-> "off"]

Next ==
  \/ \E said \in {"rejected", "open", "filled"} : Send(said)
  \/ SaveRequest \/ SaveExecution \/ Gone \/ TakeOver \/ SaveSnapshot \/ RecordClosedTrade
  \/ SaveProtection \/ Crash \/ ReadBalance \/ SaveEquity \/ SaveOpening
  \/ \E r \in Runs : Start(r) \/ ApplyRun(r)
  \/ ExchangeMoves \/ Passes
  \/ BeginReading \/ CountRows \/ SelectRows

Spec == Init /\ [][Next]_vars

-----------------------------------------------------------------------------
(* Properties *)

\* Every row has its type; what is not an order of the exchange has no fate there.
TypeOK ==
  /\ orders \in Seq(OrderRow) /\ executions \subseteq Ids(orders)
  /\ snaps \in Seq(SnapshotRow) /\ trades \in Seq(TradeRow) /\ equity \in Seq(EquityRow)
  /\ \A r \in Runs, d \in Days : daily[<<r, d>>] # None => daily[<<r, d>>] \in DailyRow
  /\ Len(exch) = Len(orders)
  /\ \A i \in Ids(exch) : (exch[i] = "none") = ~orders[i].sent
  /\ mem = NoPosition \/ mem \in [run : Runs, small : BOOLEAN]
  /\ run \in Runs /\ day \in Days /\ aged \in 0..Len(orders)

\* performance_daily is, at every commit, what an aggregation of trade_result would
\* give, run by run and Korean day by Korean day, and its closing equity is the opening equity plus
\* the day's result; the opening equity is a balance that was recorded that day.
DailyIsAggregate ==
  \A r \in Runs, d \in Days :
    LET row == DailyOf(r, d)  p == PeriodOf(r, {d}) IN
      /\ row.count = p.count /\ row.sum = p.sum /\ row.wins = p.wins /\ row.losses = p.losses
      /\ row.count = row.wins + row.losses + row.even
      /\ row.sum = row.profit - row.loss
      /\ row.opening # None =>
           /\ row.closing = row.opening + row.sum
           /\ \E i \in Ids(equity) : equity[i] = [run |-> r, day |-> d, amount |-> row.opening]

Unbooked == {i \in Ids(snaps) : snaps[i].status = "CLOSED"} \ {trades[j].snap : j \in Ids(trades)}

\* The three reports of the same closes agree: the dashboard, which adds up snapshots
\* since the last midnight in Korea, performance_daily of that Korean day, and the
\* summaries over trade_result.  They differ only by closes that were not booked, and
\* such a close is below the minimum of an order, or is the one being saved, or the
\* engine ended between its two commits.  None is booked twice.
ReportsAgree ==
  /\ \A r \in Runs :
       /\ PnlToday(r) = DailyOf(r, day).sum
                          + SumPnl(snaps, Unbooked \cap ClosedToday(r))
       /\ Count(ClosedToday(r)) = DailyOf(r, day).count + Count(Unbooked \cap ClosedToday(r))
       /\ LET s == Summary(r)  p == PerformanceSummary(r) IN
            /\ s.sum = SumFunction([d \in Days |-> DailyOf(r, d).sum])
            /\ s.wins = p.wins /\ s.losses = p.losses + p.even
            /\ p.even = SumFunction([d \in Days |-> DailyOf(r, d).even])
  /\ \A i \in Unbooked :
       snaps[i].small \/ i \in lost \/ (work.at = "trade" /\ work.snap = i)
  /\ \A i, j \in Ids(trades) : trades[i].snap = trades[j].snap => i = j

\* What the order page says is so: filled only if the order is filled, and what the
\* exchange says if it can be asked.  A market order that is ten minutes old is
\* pending only if the exchange says so.
StatusRight ==
  \A i \in Ids(orders), reachable \in BOOLEAN :
    LET shown == Enriched(i, reachable) IN
      /\ shown = "FILLED" => exch[i] = "filled"
      /\ reachable /\ orders[i].sent => shown = ExchangeStatus(exch[i])
      /\ shown = "PENDING" /\ orders[i].type = "MARKET" /\ i <= aged =>
           reachable /\ exch[i] = "open"

\* A fill is on the first page of the executions unless it has a page of newer ones there,
\* or it has no execution row and a page of newer orders.  A saved execution is on
\* the page its place among the saved ones gives it, unless that is the first and a newer
\* fill that only the exchange knows of has taken its place: then it is on none.
PagesOfFills(reachable) ==
  LET first == ListedExecutions(0, reachable)
      page(k) == ListedExecutions(k * Limit, reachable) IN
    /\ \A i \in Ids(orders) : reachable /\ exch[i] = "filled" =>
         \/ i \in first
         \/ Count(Newer(first, i)) >= Limit
         \/ i \notin executions /\ i <= Len(orders) - Limit
    /\ \A i \in executions :
         \/ \E k \in 0..Len(orders) : i \in page(k)
         \/ \E j \in first \ executions : j > i

\* What the order page says is so, nothing but fills is listed among the executions, and
\* the fills that are not listed are those the pages leave out, also when the engine ended
\* before it saved an execution or an order was filled after the engine had looked.
FillsShown ==
  /\ StatusRight
  /\ \A offset \in 0..Len(orders), reachable \in BOOLEAN :
       \A i \in ListedExecutions(offset, reachable) : exch[i] = "filled"
  /\ \A reachable \in BOOLEAN : PagesOfFills(reachable)

\* A client that pages through the orders while the engine adds some has seen every
\* order that was there when it began, unless one was added between the count and the
\* rows of the last page.
PagesSkipNothing == reader.at = "done" /\ ~reader.raced => reader.start \subseteq reader.seen
===============================================================================
