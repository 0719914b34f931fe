---------------------------- MODULE RiskGate_proofs ----------------------------
(***************************************************************************)
(* Theorems about RiskGate for every value of its constants.               *)
(*                                                                         *)
(* Inv is inductive: what a position looks like and where its exit prices  *)
(* lie, the checker's streak against the trades of the process, the paper  *)
(* book against the position, the day's cash flow against its result.      *)
(* What the sizing gives stays within the budget by itself, however        *)
(* quantities are rounded, and a fill adds no more than its slippage: that *)
(* gives RiskBudgetKept.                                                   *)
(***************************************************************************)
EXTENDS RiskGate, TLAPS

Positions ==
  [side : {"LONG", "SHORT"}, qty : Nat \ {0}, entry : Prices, tp : Int, sl : Int, at : Nat,
   by : {"entry", "sync", "boot", "turned"}]

Holding == pos = Flat \/ pos \in Positions

\* The exit prices are on their sides of the entry price, but for the slippage of its fill.
LevelsOf(p) ==
  IF p.side = "LONG" THEN p.sl < p.entry + SlipNow /\ p.entry < p.tp + SlipNow
                     ELSE p.tp < p.entry + SlipNow /\ p.entry < p.sl + SlipNow

Levels == pos # Flat /\ pos.by # "turned" => LevelsOf(pos)

\* The checker counts the losing trades of the process, and a streak that is long enough
\* for the limits in force at its last loss pauses from then on.
Streak ==
  /\ slump \in [count : Nat, at : Nat, rule : Limit] /\ losses = slump.count
  /\ slump.count > 0 /\ slump.rule.losses > 0 /\ slump.count >= slump.rule.losses =>
       slump.at + slump.rule.pause <= pausedUntil \/ slump.at + slump.rule.pause <= now

\* What the paper exchange holds; a position that was restored it does not know.
Inventory ==
  paper =>
    /\ pos.by \notin {"sync", "turned"}
    /\ ~shorted => book = (IF pos.by = "boot" THEN 0 ELSE pos.qty)

\* The cash of the day is its result, but for the price of what is held.
Held(p) == IF p = Flat THEN 0 ELSE IF p.side = "LONG" THEN p.qty * p.entry ELSE -(p.qty * p.entry)
Ledger == ~skewed => cash = realized - Held(pos)

Inv == TypeOK /\ Holding /\ Levels /\ Streak /\ Inventory /\ Ledger

-----------------------------------------------------------------------------
(* Lemmas about the operators *)

\* A quantity is never below zero.
LEMMA QuantityIsNat ==
  ASSUME NEW price \in Prices, NEW distance \in Distances
  PROVE  Quantity(price, distance) \in Nat
<1>1. price \in Nat \ {0} /\ distance \in Nat \ {0}
  BY RiskAssumption
<1>2. RiskBudget \div distance \in Nat /\ MaxNotional \div price \in Nat
        /\ LeverageCap \div price \in Nat
  BY <1>1, RiskAssumption
<1> QED BY <1>2 DEF Quantity, Least

\* Nor is it after scaling.
LEMMA SizeIsNat ==
  ASSUME NEW price \in Prices, NEW distance \in Distances, NEW scale \in Scales
  PROVE  Size(price, distance, scale) \in Nat
<1>1. Quantity(price, distance) \in Nat /\ scale \in Nat
  BY QuantityIsNat, RiskAssumption
<1> DEFINE n == Quantity(price, distance) * scale
<1>2. n \in Nat
  BY <1>1
<1>3. n \div 100 \in Nat
  <2> HIDE DEF n
  <2> QED BY <1>2
<1> QED BY <1>3 DEF Size

\* Whole quantities: rounding down loses less than one.
LEMMA WholeQuantity ==
  ASSUME NEW a \in Nat, NEW b \in Nat \ {0}
  PROVE  a \div b \in Nat /\ (a \div b) * b <= a /\ a < (a \div b + 1) * b
<1> DEFINE q == a \div b
<1>1. q \in Nat
  OBVIOUS
<1>2. b * q <= a /\ a < b * q + b
  OBVIOUS
<1> HIDE DEF q
<1>3. (q + 1) * b = b * q + b /\ q * b = b * q
  BY <1>1
<1>4. b * q \in Nat
  BY <1>1
<1> QED BY <1>1, <1>2, <1>3, <1>4 DEF q

\* More of two factors is more.
LEMMA Products ==
  ASSUME NEW a \in Nat, NEW b \in Nat, NEW c \in Nat, a <= b
  PROVE  a * c <= b * c /\ a * c \in Nat /\ b * c \in Nat
<1>1. (b - a) * c >= 0 /\ (b - a) * c = b * c - a * c
  OBVIOUS
<1>2. a * c \in Nat /\ b * c \in Nat
  OBVIOUS
<1> QED BY <1>1, <1>2

\* What the sizing gives is within the three limits, and above the minimum if it is anything.
LEMMA QuantityWithinLimits ==
  ASSUME NEW price \in Prices, NEW distance \in Distances
  PROVE  LET q == Quantity(price, distance) IN
           /\ q * distance <= RiskBudget /\ q * price <= MaxNotional /\ q * price <= LeverageCap
           /\ q > 0 => q * price >= MinOrder
<1>1. price \in Nat \ {0} /\ distance \in Nat \ {0} /\ RiskBudget \in Nat /\ MaxNotional \in Nat
        /\ LeverageCap \in Nat /\ MinOrder \in Nat
  BY RiskAssumption
<1> DEFINE risk == RiskBudget \div distance  most == MaxNotional \div price
           cap == LeverageCap \div price  q == Least(risk, Least(most, cap))
<1>2. /\ risk \in Nat /\ risk * distance <= RiskBudget
      /\ most \in Nat /\ most * price <= MaxNotional
      /\ cap \in Nat /\ cap * price <= LeverageCap
  BY <1>1, WholeQuantity
<1> HIDE DEF risk, most, cap
<1>3. q \in Nat /\ q <= risk /\ q <= most /\ q <= cap
  BY <1>2 DEF Least
<1>4. Quantity(price, distance) = IF q * price < MinOrder THEN 0 ELSE q
  BY DEF Quantity, risk, most, cap
<1> HIDE DEF q
<1>5. q * distance <= risk * distance /\ q * price <= most * price /\ q * price <= cap * price
        /\ risk * distance \in Nat /\ most * price \in Nat /\ cap * price \in Nat
        /\ q * distance \in Nat /\ q * price \in Nat
  BY <1>1, <1>2, <1>3, Products
<1>6. q * distance <= RiskBudget /\ q * price <= MaxNotional /\ q * price <= LeverageCap
  BY <1>1, <1>2, <1>5
<1>7. CASE q * price < MinOrder
  BY <1>1, <1>4, <1>7
<1>8. CASE ~(q * price < MinOrder)
  BY <1>1, <1>4, <1>5, <1>6, <1>8
<1> QED BY <1>7, <1>8

\* Scaled it is within the same limits, and falls below the minimum by the scale and less than
\* one quantity.
LEMMA SizeWithinLimits ==
  ASSUME NEW price \in Prices, NEW distance \in Distances, NEW scale \in Scales,
         Size(price, distance, scale) > 0
  PROVE  LET n == Size(price, distance, scale) IN
           /\ n * distance <= RiskBudget /\ n * price <= MaxNotional /\ n * price <= LeverageCap
           /\ 100 * (n + 1) * price > scale * MinOrder
<1> DEFINE q == Quantity(price, distance)  n == Size(price, distance, scale)
<1>1. price \in Nat \ {0} /\ distance \in Nat \ {0} /\ scale \in 10 .. 100 /\ q \in Nat /\ n \in Nat
        /\ RiskBudget \in Nat /\ MaxNotional \in Nat /\ LeverageCap \in Nat /\ MinOrder \in Nat
  BY QuantityIsNat, SizeIsNat, RiskAssumption
<1>2. /\ q * distance <= RiskBudget /\ q * price <= MaxNotional /\ q * price <= LeverageCap
      /\ q > 0 => q * price >= MinOrder
  BY QuantityWithinLimits
<1>3. q * scale \in Nat /\ n = (q * scale) \div 100
  <2>1. n = (q * scale) \div 100
    BY DEF Size
  <2> HIDE DEF q, n
  <2> QED BY <1>1, <2>1
<1>4. n > 0
  OBVIOUS
<1> HIDE DEF q, n
<1>5. n * 100 <= q * scale /\ q * scale < (n + 1) * 100
  <2> DEFINE a == q * scale
  <2>1. a \in Nat /\ n = a \div 100
    BY <1>3
  <2> HIDE DEF a
  <2>2. n * 100 <= a /\ a < (n + 1) * 100
    BY <2>1, WholeQuantity
  <2> QED BY <2>2 DEF a
<1>6. n <= q /\ q > 0
  <2>1. q * scale <= q * 100
    <3>1. scale * q <= 100 * q
      BY <1>1, Products
    <3> QED BY <1>1, <3>1
  <2>2. n * 100 <= q * 100
    BY <1>1, <1>3, <1>5, <2>1
  <2> QED BY <1>1, <1>4, <2>2
<1>7. n * distance <= q * distance /\ n * price <= q * price /\ n * distance \in Nat
        /\ n * price \in Nat /\ q * distance \in Nat /\ q * price \in Nat
  BY <1>1, <1>6, Products
<1>8. n * distance <= RiskBudget /\ n * price <= MaxNotional /\ n * price <= LeverageCap
  BY <1>1, <1>2, <1>7
<1>9. 100 * (n + 1) * price > scale * MinOrder
  <2>1. scale * MinOrder <= scale * (q * price)
    <3>1. MinOrder * scale <= (q * price) * scale
      BY <1>1, <1>2, <1>6, <1>7, Products
    <3> QED BY <1>1, <1>7, <3>1
  <2>2. scale * (q * price) = (q * scale) * price
    BY <1>1
  <2>3. (q * scale) * price < ((n + 1) * 100) * price
    <3> DEFINE a == q * scale  b == (n + 1) * 100
    <3>1. a \in Nat /\ b \in Nat /\ a < b
      BY <1>1, <1>3, <1>5
    <3> HIDE DEF a, b
    <3>2. a + 1 <= b /\ a + 1 \in Nat
      BY <3>1
    <3>3. (a + 1) * price <= b * price
      BY <1>1, <3>1, <3>2, Products
    <3>4. (a + 1) * price = a * price + price /\ a * price \in Nat /\ b * price \in Nat
      BY <1>1, <3>1
    <3>5. a * price < b * price
      BY <1>1, <3>3, <3>4
    <3> QED BY <3>5 DEF a, b
  <2>4. ((n + 1) * 100) * price = 100 * (n + 1) * price
    BY <1>1
  <2>5. scale * MinOrder \in Nat /\ scale * (q * price) \in Nat /\ 100 * (n + 1) * price \in Nat
    BY <1>1, <1>7
  <2> QED BY <2>1, <2>2, <2>3, <2>4, <2>5
<1> QED BY <1>8, <1>9 DEF n

\* The slippage is a number.
LEMMA SlipIsNat == SlipNow \in Nat
  BY RiskAssumption DEF SlipNow

\* It is the same for the whole run.
LEMMA SlipIsKept ==
  ASSUME [Next]_vars
  PROVE  SlipNow' = SlipNow
<1>1. CASE Tick \/ Restart
  BY <1>1 DEF Tick, Restart, SlipNow
<1>2. ASSUME NEW side, NEW price, NEW distance, NEW scale, Refuse(side, price, distance, scale)
      PROVE  SlipNow' = SlipNow
  BY <1>2 DEF Refuse, SlipNow
<1>3. ASSUME NEW side, NEW price, NEW distance, NEW scale, NEW fill,
             Enter(side, price, fill, distance, scale)
      PROVE  SlipNow' = SlipNow
  BY <1>3 DEF Enter, SlipNow
<1>4. ASSUME NEW side, NEW price, NEW distance, NEW scale, NEW fill,
             CrashInEntry(side, price, fill, distance, scale)
      PROVE  SlipNow' = SlipNow
  BY <1>4 DEF CrashInEntry, SlipNow
<1>5. ASSUME NEW side, NEW price, NEW distance, Adopt(side, price, distance)
      PROVE  SlipNow' = SlipNow
  BY <1>5 DEF Adopt, SlipNow
<1>6. ASSUME NEW price, Gone(price) \/ Turned(price)
      PROVE  SlipNow' = SlipNow
  BY <1>6 DEF Gone, Turned, SlipNow
<1>7. ASSUME NEW price, NEW fill, Leave(price, fill) \/ CrashInExit(price, fill)
      PROVE  SlipNow' = SlipNow
  BY <1>7 DEF Leave, CrashInExit, SlipNow
<1>8. CASE (\E l \in Limits : Reconfigure(l)) \/ UNCHANGED vars
  BY <1>8 DEF Reconfigure, vars, SlipNow
<1> QED BY <1>1, <1>2, <1>3, <1>4, <1>5, <1>6, <1>7, <1>8 DEF Next

\* A fill is a price of the symbol near the one the tick saw, which is one itself.
LEMMA FillsAreNear ==
  ASSUME NEW price \in Prices
  PROVE  /\ price \in Fills(price)
         /\ \A fill \in Fills(price) :
              /\ fill \in Prices /\ fill \in Fills(fill)
              /\ fill <= price + SlipNow /\ price <= fill + SlipNow
<1>1. SlipNow \in Nat
  BY SlipIsNat
<1>2. \A q \in Prices : q <= q + SlipNow
  BY <1>1, RiskAssumption
<1> QED BY <1>2 DEF Fills

\* A new position has its exit prices on the right sides, but for the slippage of its fill.
LEMMA NewPositions ==
  ASSUME now \in Nat, NEW side \in {"LONG", "SHORT"}, NEW qty \in Nat \ {0}, NEW price \in Prices,
         NEW fill \in Fills(price), NEW distance \in Distances, NEW by \in {"entry", "sync"}
  PROVE  LET p == NewPosition(side, qty, price, fill, distance, by) IN
           /\ p \in Positions /\ p # Flat
           /\ p.side = side /\ p.qty = qty /\ p.entry = fill /\ p.by = by
           /\ LevelsOf(p)
<1> DEFINE p == NewPosition(side, qty, price, fill, distance, by)
<1>1. /\ price \in Nat /\ fill \in Prices /\ fill \in Nat /\ SlipNow \in Nat
      /\ fill <= price + SlipNow /\ price <= fill + SlipNow
      /\ distance \in Nat \ {0} /\ TakeProfit \in Nat \ {0}
  BY FillsAreNear, SlipIsNat, RiskAssumption
<1>2. /\ p.side = side /\ p.qty = qty /\ p.entry = fill /\ p.by = by /\ p.at = now
      /\ p.tp = (IF side = "LONG" THEN price + TakeProfit ELSE price - TakeProfit)
      /\ p.sl = (IF side = "LONG" THEN price - distance ELSE price + distance)
  BY DEF NewPosition
<1>3. p \in Positions /\ p # Flat
  BY <1>1 DEF NewPosition, Positions, Flat
<1>4. LevelsOf(p)
  <2> HIDE DEF p
  <2> QED BY <1>1, <1>2 DEF LevelsOf
<1> QED BY <1>2, <1>3, <1>4

\* The result of a position is what its exit brings less what it cost.
LEMMA ResultIsFlow ==
  ASSUME NEW p \in Positions, NEW price \in Prices
  PROVE  /\ Pnl(p, price) \in Int /\ Held(p) \in Int
         /\ Flow(ExitOrder(p.side), p.qty, price) \in Int
         /\ Flow(ExitOrder(p.side), p.qty, price) = Pnl(p, price) + Held(p)
<1>1. p.qty \in Nat /\ p.entry \in Nat /\ price \in Nat /\ p # Flat /\ p.side \in {"LONG", "SHORT"}
  <2>1. p.qty \in Nat /\ p.entry \in Prices /\ p.side \in {"LONG", "SHORT"}
    BY DEF Positions
  <2>2. p # Flat
    BY <2>1 DEF Flat
  <2> QED BY <2>1, <2>2, RiskAssumption
<1>2. (price - p.entry) * p.qty = p.qty * price - p.qty * p.entry
        /\ (p.entry - price) * p.qty = p.qty * p.entry - p.qty * price
  BY <1>1, SMT
<1>3. p.qty * price \in Nat /\ p.qty * p.entry \in Nat
  BY <1>1, SMT
<1>4. CASE p.side = "LONG"
  BY <1>1, <1>2, <1>3, <1>4 DEF Pnl, Flow, ExitOrder, Held
<1>5. CASE p.side = "SHORT"
  BY <1>1, <1>2, <1>3, <1>5 DEF Pnl, Flow, ExitOrder, Held
<1> QED BY <1>1, <1>4, <1>5

\* An entry costs what is held then.
LEMMA EntryIsHeld ==
  ASSUME now \in Nat, NEW side \in {"LONG", "SHORT"}, NEW qty \in Nat \ {0}, NEW price \in Prices,
         NEW fill \in Fills(price), NEW distance \in Distances, NEW by \in {"entry", "sync"}
  PROVE  /\ Flow(EntryOrder(side), qty, fill) \in Int
         /\ Flow(EntryOrder(side), qty, fill)
              = -Held(NewPosition(side, qty, price, fill, distance, by))
<1>1. qty * fill \in Nat
  <2>1. fill \in Nat
    BY FillsAreNear, RiskAssumption
  <2> QED BY <2>1
<1>2. LET p == NewPosition(side, qty, price, fill, distance, by) IN
        p # Flat /\ p.side = side /\ p.qty = qty /\ p.entry = fill
  BY NewPositions
<1>3. CASE side = "LONG"
  BY <1>1, <1>2, <1>3 DEF Flow, EntryOrder, Held
<1>4. CASE side = "SHORT"
  BY <1>1, <1>2, <1>4 DEF Flow, EntryOrder, Held
<1> QED BY <1>3, <1>4

\* A restored position is worth what it was, and Flat only if it was.
LEMMA RestoredKeeps ==
  ASSUME NEW p, p = Flat \/ p \in Positions
  PROVE  /\ Held(Restored(p)) = Held(p)
         /\ Restored(p).by \in {"none", "turned", "boot"}
         /\ Restored(p).by = "turned" => p.by = "turned"
         /\ Restored(p).by = "none" => Restored(p).qty = 0
<1>1. CASE p = Flat
  BY <1>1 DEF Restored, Flat
<1>2. CASE p # Flat
  <2>1. p \in Positions
    BY <1>2
  <2>2. CASE p.by = "turned"
    BY <2>2 DEF Restored
  <2>3. CASE p.by # "turned"
    <3>1. Restored(p) = [p EXCEPT !.by = "boot"]
      BY <1>2, <2>3 DEF Restored
    <3>2. /\ Restored(p).side = p.side /\ Restored(p).qty = p.qty
          /\ Restored(p).entry = p.entry /\ Restored(p).by = "boot"
      BY <2>1, <3>1 DEF Positions
    <3>3. Restored(p) # Flat
      BY <3>2 DEF Flat
    <3> QED BY <1>2, <3>2, <3>3 DEF Held
  <2> QED BY <2>2, <2>3
<1> QED BY <1>1, <1>2

\* The end of a trade keeps the streak: a loss that completes one pauses from now on.
LEMMA StreakAtClose ==
  ASSUME TypeOK, Streak, now' = now, NEW price \in Prices, pos \in Positions, Closed(price)
  PROVE  Streak'
<1> DEFINE pnl == Pnl(pos, price)
<1>1. pnl \in Int
  BY ResultIsFlow
<1>2. RecordTradeResult(pnl) /\ slump' = Slump(pnl)
  BY DEF Closed
<1>3. limits \in Limit /\ limits.pause \in Nat /\ limits.losses \in Nat /\ now \in Nat
  BY RiskAssumption DEF TypeOK, Limit
<1> HIDE DEF pnl
<1>4. CASE pnl < 0
  <2>1. losses' = losses + 1
          /\ pausedUntil' = (IF Pausing(losses + 1) THEN now + limits.pause ELSE pausedUntil)
    BY <1>2, <1>4 DEF RecordTradeResult
  <2>2. slump' = [count |-> slump.count + 1, at |-> now, rule |-> limits]
    BY <1>2, <1>4 DEF Slump
  <2>3. slump' \in [count : Nat, at : Nat, rule : Limit]
    BY <1>3, <2>2 DEF Streak
  <2>4. losses' = slump'.count /\ slump'.at = now /\ slump'.rule = limits
    BY <2>1, <2>2 DEF Streak
  <2>5. Pausing(losses + 1) => slump'.at + slump'.rule.pause <= pausedUntil'
    BY <1>3, <2>1, <2>4
  <2> QED BY <1>3, <2>1, <2>3, <2>4, <2>5 DEF Streak, Pausing
<1>5. CASE pnl > 0
  <2>1. losses' = 0 /\ slump' = NoSlump
    BY <1>1, <1>2, <1>5 DEF RecordTradeResult, Slump
  <2> QED BY <2>1 DEF Streak, NoSlump, Limit
<1>6. CASE pnl = 0
  <2>1. UNCHANGED <<losses, pausedUntil, slump>>
    BY <1>2, <1>6 DEF RecordTradeResult, Slump
  <2> QED BY <2>1 DEF Streak
<1> QED BY <1>1, <1>4, <1>5, <1>6

-----------------------------------------------------------------------------
(* The parts of the invariant *)

\* The position stays one, and its exit prices stay on their sides.
LEMMA PositionStep ==
  ASSUME Inv, [Next]_vars
  PROVE  Holding' /\ Levels'
<1> USE DEF Holding, Levels, LevelsOf
<1>0. now \in Nat /\ Holding /\ Levels /\ SlipNow' = SlipNow
  BY SlipIsKept DEF Inv, TypeOK
<1> USE <1>0
<1>1. CASE Tick
  BY <1>1 DEF Tick
<1>2. ASSUME NEW side \in {"LONG", "SHORT"}, NEW price \in Prices, NEW distance \in Distances,
             NEW scale \in Scales, NEW fill \in Fills(price),
             Enter(side, price, fill, distance, scale)
      PROVE  Holding' /\ Levels'
  <2>1. Size(price, distance, scale) \in Nat \ {0}
          /\ pos' = NewPosition(side, Size(price, distance, scale), price, fill, distance, "entry")
    BY <1>2, SizeIsNat DEF Enter
  <2> QED BY <1>0, <1>2, <2>1, FillsAreNear, NewPositions DEF Enter
<1>3. ASSUME NEW side \in {"LONG", "SHORT"}, NEW price \in Prices, NEW distance \in Distances,
             NEW scale \in Scales, Refuse(side, price, distance, scale)
      PROVE  Holding' /\ Levels'
  BY <1>3 DEF Refuse
<1>4. ASSUME NEW side \in {"LONG", "SHORT"}, NEW price \in Prices, NEW distance \in Distances,
             NEW scale \in Scales, NEW fill \in Fills(price),
             CrashInEntry(side, price, fill, distance, scale)
      PROVE  Holding' /\ Levels'
  <2>1. Size(price, distance, scale) \in Nat \ {0}
          /\ (pos' = Flat
               \/ pos' = NewPosition(side, Size(price, distance, scale), fill, fill, distance, "sync"))
    BY <1>4, SizeIsNat DEF CrashInEntry
  <2> QED BY <1>0, <1>4, <2>1, FillsAreNear, NewPositions DEF CrashInEntry
<1>5. ASSUME NEW side \in {"LONG", "SHORT"}, NEW price \in Prices, NEW distance \in Distances,
             Adopt(side, price, distance)
      PROVE  Holding' /\ Levels'
  <2> DEFINE p == NewPosition(side, Quantity(price, distance), price, price, distance, "sync")
  <2>1. pos' = p /\ p.qty > 0
    BY <1>5 DEF Adopt
  <2>2. Quantity(price, distance) \in Nat /\ p.qty = Quantity(price, distance)
    BY QuantityIsNat DEF NewPosition
  <2> QED BY <1>0, <1>5, <2>1, <2>2, FillsAreNear, NewPositions DEF Adopt
<1>6. ASSUME NEW price \in Prices, NEW fill \in Fills(price), Leave(price, fill)
      PROVE  Holding' /\ Levels'
  BY <1>6 DEF Leave, Closed
<1>7. ASSUME NEW price \in Prices, Gone(price)
      PROVE  Holding' /\ Levels'
  BY <1>7 DEF Gone, Closed
<1>8. ASSUME NEW price \in Prices, Turned(price)
      PROVE  Holding' /\ Levels'
  BY <1>8 DEF Turned, Positions
<1>9. ASSUME NEW price \in Prices, NEW fill \in Fills(price), CrashInExit(price, fill)
      PROVE  Holding' /\ Levels'
  BY <1>9 DEF CrashInExit, Restored, Positions, Flat
<1>10. CASE Restart
  BY <1>10 DEF Restart, Restored, Positions, Flat
<1>11. ASSUME NEW l \in Limits, Reconfigure(l)
      PROVE  Holding' /\ Levels'
  BY <1>11 DEF Reconfigure
<1>12. CASE UNCHANGED vars
  BY <1>12 DEF vars, ghostVars, riskVars, tableVars
<1> QED BY <1>1, <1>2, <1>3, <1>4, <1>5, <1>6, <1>7, <1>8, <1>9, <1>10, <1>11, <1>12 DEF Next

\* Every variable keeps its type.
LEMMA TypeStep ==
  ASSUME Inv, [Next]_vars
  PROVE  TypeOK'
<1>0. TypeOK /\ Holding /\ Holding' /\ now \in Nat
  BY PositionStep DEF Inv, TypeOK
<1> USE <1>0
<1>1. CASE Tick
  <2>1. now' \in 1 .. MaxTime /\ now' = now + 1 /\ 0 .. now \subseteq 0 .. now'
          /\ 1 .. now \subseteq 1 .. now'
    BY <1>1, RiskAssumption DEF Tick, TypeOK
  <2>2. cash' \in Int /\ realized' \in Int
    BY <1>1 DEF Tick, TypeOK
  <2>3. skewed' \in BOOLEAN
    <3>1. CASE Midnight
      <4>1. skewed' = (pos # Flat)
        BY <1>1, <3>1 DEF Tick
      <4>2. (pos # Flat) \in BOOLEAN
        OBVIOUS
      <4> QED BY <4>1, <4>2, Zenon
    <3>2. CASE ~Midnight
      BY <1>1, <3>2 DEF Tick, TypeOK
    <3> QED BY <3>1, <3>2
  <2>4. lastOrder' \in [Sides -> 0 .. now']
    BY <1>1, <2>1 DEF Tick, TypeOK
  <2>5. UNCHANGED <<paper, limits, losses, pausedUntil, pos, book, shorted, upsets>>
    BY <1>1 DEF Tick, riskVars
  <2> QED BY <2>1, <2>2, <2>3, <2>4, <2>5 DEF TypeOK
<1>2. ASSUME NEW side \in {"LONG", "SHORT"}, NEW price \in Prices, NEW distance \in Distances,
             NEW scale \in Scales, NEW fill \in Fills(price),
             Enter(side, price, fill, distance, scale)
      PROVE  TypeOK'
  <2> DEFINE qty == Size(price, distance, scale)
             p == NewPosition(side, qty, price, fill, distance, "entry")
  <2>1. qty \in Nat \ {0}
    BY <1>2, SizeIsNat DEF Enter
  <2>2. p.at = now /\ EntryOrder(side) \in Sides
    BY DEF NewPosition, EntryOrder, Sides
  <2>3. Flow(EntryOrder(side), qty, fill) \in Int
    BY <2>1, FillsAreNear, EntryIsHeld
  <2> HIDE DEF p, qty
  <2>4. cash' \in Int /\ book' \in Int /\ lastOrder' \in [Sides -> 0 .. now']
    BY <1>2, <2>1, <2>2, <2>3 DEF Enter, TypeOK, EndPause, Filled, PaperUpdate, qty
  <2>5. pos' = p
    BY <1>2 DEF Enter, p, qty
  <2> QED BY <1>2, <2>2, <2>4, <2>5 DEF Enter, TypeOK, EndPause, Filled, PaperUpdate, Holding, Positions, Flat, riskVars, ghostVars
<1>3. ASSUME NEW side \in {"LONG", "SHORT"}, NEW price \in Prices, NEW distance \in Distances,
             NEW scale \in Scales, Refuse(side, price, distance, scale)
      PROVE  TypeOK'
  BY <1>3 DEF Refuse, TypeOK, EndPause, tableVars, ghostVars
<1>4. ASSUME NEW side \in {"LONG", "SHORT"}, NEW price \in Prices, NEW distance \in Distances,
             NEW scale \in Scales, NEW fill \in Fills(price),
             CrashInEntry(side, price, fill, distance, scale)
      PROVE  TypeOK'
  <2> DEFINE qty == Size(price, distance, scale)
             p == NewPosition(side, qty, fill, fill, distance, "sync")
  <2>1. qty \in Nat \ {0}
    BY <1>4, SizeIsNat DEF CrashInEntry
  <2>2. p.at = now /\ EntryOrder(side) \in Sides
    BY DEF NewPosition, EntryOrder, Sides
  <2>3. Flow(EntryOrder(side), qty, fill) \in Int
    BY <2>1, FillsAreNear, EntryIsHeld
  <2> HIDE DEF p, qty
  <2>4. cash' \in Int /\ book' \in Int /\ lastOrder' \in [Sides -> 0 .. now']
    BY <1>4, <2>1, <2>2, <2>3 DEF CrashInEntry, TypeOK, CutRows, Forget, Upset, qty
  <2>5. pos' = p \/ pos' = Flat
    BY <1>4 DEF CrashInEntry, p, qty
  <2>6. pos' = Flat \/ (/\ pos'.side \in {"LONG", "SHORT"} /\ pos'.qty \in Nat \ {0}
                        /\ pos'.entry \in Prices /\ pos'.at \in 1 .. now)
    BY <2>2, <2>5 DEF Holding, Positions, TypeOK
  <2>7. now' = now /\ paper' = paper /\ limits' = limits /\ realized' = realized
          /\ losses' = 0 /\ pausedUntil' = 0 /\ skewed' = TRUE /\ shorted' = FALSE
    BY <1>4 DEF CrashInEntry, Forget, Upset
  <2>8. upsets' \in 0 .. MaxUpsets
    BY <1>4, RiskAssumption DEF CrashInEntry, Upset, TypeOK
  <2> QED BY <2>4, <2>6, <2>7, <2>8 DEF TypeOK
<1>5. ASSUME NEW side \in {"LONG", "SHORT"}, NEW price \in Prices, NEW distance \in Distances,
             Adopt(side, price, distance)
      PROVE  TypeOK'
  <2>1. pos'.at = now
    BY <1>5 DEF Adopt, NewPosition
  <2> QED BY <1>5, <2>1, RiskAssumption DEF Adopt, Upset, TypeOK, Holding, Positions, Flat, riskVars, tableVars
<1>6. ASSUME NEW price \in Prices, NEW fill \in Fills(price), Leave(price, fill)
      PROVE  TypeOK'
  <2>1. pos \in Positions
    BY <1>6 DEF Leave, Holding
  <2>2. Pnl(pos, fill) \in Int /\ Flow(ExitOrder(pos.side), pos.qty, fill) \in Int
    BY <2>1, FillsAreNear, ResultIsFlow
  <2>3. ExitOrder(pos.side) \in Sides /\ pos.qty \in Nat
    BY <2>1 DEF ExitOrder, Sides, Positions
  <2>4. losses' \in Nat /\ pausedUntil' \in Nat
    BY <1>6, <2>2, RiskAssumption DEF Leave, Closed, RecordTradeResult, TypeOK, Limit
  <2>5. cash' \in Int /\ book' \in Int /\ lastOrder' \in [Sides -> 0 .. now'] /\ realized' \in Int
    BY <1>6, <2>2, <2>3 DEF Leave, Closed, Filled, PaperUpdate, TypeOK, tableVars
  <2> QED BY <1>6, <2>4, <2>5 DEF Leave, Closed, Upset, TypeOK
<1>7. ASSUME NEW price \in Prices, Gone(price)
      PROVE  TypeOK'
  <2>1. pos \in Positions
    BY <1>7 DEF Gone, Holding
  <2>2. Pnl(pos, price) \in Int /\ Flow(ExitOrder(pos.side), pos.qty, price) \in Int
    BY <2>1, ResultIsFlow
  <2>3. ExitOrder(pos.side) \in Sides /\ pos.qty \in Nat
    BY <2>1 DEF ExitOrder, Sides, Positions
  <2>4. losses' \in Nat /\ pausedUntil' \in Nat
    BY <1>7, <2>2, RiskAssumption DEF Gone, Closed, RecordTradeResult, TypeOK, Limit
  <2>5. cash' \in Int /\ book' \in Int /\ lastOrder' \in [Sides -> 0 .. now'] /\ realized' \in Int
    BY <1>7, <2>2, <2>3 DEF Gone, Closed, Upset, TypeOK, tableVars
  <2> QED BY <1>7, <2>4, <2>5, RiskAssumption DEF Gone, Closed, Upset, TypeOK
<1>8. ASSUME NEW price \in Prices, Turned(price)
      PROVE  TypeOK'
  BY <1>8, RiskAssumption DEF Turned, Upset, TypeOK, Holding, Positions, Flat, riskVars, tableVars
<1>9. ASSUME NEW price \in Prices, NEW fill \in Fills(price), CrashInExit(price, fill)
      PROVE  TypeOK'
  <2>1. pos \in Positions
    BY <1>9 DEF CrashInExit, Holding
  <2>2. Flow(ExitOrder(pos.side), pos.qty, fill) \in Int /\ ExitOrder(pos.side) \in Sides
    BY <2>1, FillsAreNear, ResultIsFlow DEF ExitOrder, Sides
  <2>3. pos' = Flat \/ pos'.at = pos.at
    BY <1>9, <2>1 DEF CrashInExit, Restored, Positions
  <2>4. cash' \in Int /\ lastOrder' \in [Sides -> 0 .. now']
    BY <1>9, <2>2 DEF CrashInExit, CutRows, TypeOK
  <2> QED BY <1>9, <2>1, <2>3, <2>4, RiskAssumption DEF CrashInExit, Forget, Upset, TypeOK, Holding, Positions, Flat
<1>10. CASE Restart
  <2>1. pos' = Flat \/ pos'.at = pos.at
    BY <1>10 DEF Restart, Restored, Holding, Positions
  <2>2. pos' = Flat \/ (/\ pos'.side \in {"LONG", "SHORT"} /\ pos'.qty \in Nat \ {0}
                        /\ pos'.entry \in Prices /\ pos'.at \in 1 .. now)
    <3>1. CASE pos = Flat
      BY <1>10, <3>1 DEF Restart, Restored
    <3>2. CASE pos # Flat
      BY <2>1, <3>2 DEF Holding, Positions, TypeOK
    <3> QED BY <3>1, <3>2
  <2>3. now' = now /\ paper' = paper /\ limits' = limits /\ realized' = realized /\ cash' = cash
          /\ lastOrder' = lastOrder /\ losses' = 0 /\ pausedUntil' = 0 /\ book' = 0
    BY <1>10 DEF Restart, Forget, tableVars
  <2>4. skewed' \in BOOLEAN /\ upsets' \in 0 .. MaxUpsets
    <3>1. UNCHANGED <<skewed, upsets>> \/ Upset
      BY <1>10 DEF Restart
    <3>2. upsets \in 0 .. MaxUpsets /\ skewed \in BOOLEAN
      BY DEF TypeOK
    <3>3. CASE UNCHANGED <<skewed, upsets>>
      BY <3>2, <3>3
    <3>4. CASE Upset
      <4>1. upsets' \in 0 .. MaxUpsets
        BY <3>2, <3>4, RiskAssumption DEF Upset
      <4>2. skewed' = TRUE
        BY <3>4, Zenon DEF Upset
      <4> QED BY <4>1, <4>2
    <3> QED BY <3>1, <3>3, <3>4
  <2>5. shorted' \in BOOLEAN
    <3>1. shorted' = (pos.side = "SHORT")
      BY <1>10 DEF Restart
    <3>2. (pos.side = "SHORT") \in BOOLEAN
      OBVIOUS
    <3> QED BY <3>1, <3>2, Zenon
  <2> QED BY <2>2, <2>3, <2>4, <2>5 DEF TypeOK
<1>11. ASSUME NEW l \in Limits, Reconfigure(l)
      PROVE  TypeOK'
  BY <1>11 DEF Reconfigure, TypeOK, tableVars, ghostVars
<1>12. CASE UNCHANGED vars
  BY <1>12 DEF vars, TypeOK, riskVars, tableVars, ghostVars
<1> QED BY <1>1, <1>2, <1>3, <1>4, <1>5, <1>6, <1>7, <1>8, <1>9, <1>10, <1>11, <1>12 DEF Next

\* A pause is forgotten only when it is over.
LEMMA PauseForgotten ==
  ASSUME TypeOK, Streak, EndPause, UNCHANGED <<now, losses, slump>>
  PROVE  Streak'
<1>1. slump.at \in Nat /\ slump.rule.pause \in Nat /\ now \in Nat /\ pausedUntil \in Nat
  BY DEF Streak, Limit, TypeOK
<1>2. pausedUntil' = pausedUntil \/ pausedUntil = 0 \/ pausedUntil <= now
  BY <1>1 DEF EndPause, PauseBlocks
<1> QED BY <1>1, <1>2 DEF Streak

\* A new process counts from nothing.
LEMMA ForgottenStreak ==
  ASSUME Forget
  PROVE  Streak'
  BY DEF Forget, NoSlump, Streak, Limit

\* The checker goes on counting what the trades say.
LEMMA StreakStep ==
  ASSUME Inv, [Next]_vars
  PROVE  Streak'
<1>0. TypeOK /\ Holding /\ Streak /\ now \in Nat
  BY DEF Inv, TypeOK
<1> USE <1>0
<1>1. CASE Tick
  <2>1. UNCHANGED <<losses, pausedUntil, slump>> /\ now' = now + 1
    BY <1>1 DEF Tick, riskVars
  <2>2. slump \in [count : Nat, at : Nat, rule : Limit] /\ slump.at \in Nat
          /\ slump.rule.pause \in Nat
    BY DEF Streak, Limit
  <2> QED BY <2>1, <2>2 DEF Streak
<1>2. ASSUME NEW side \in {"LONG", "SHORT"}, NEW price \in Prices, NEW distance \in Distances,
             NEW scale \in Scales, NEW fill \in Fills(price),
             Enter(side, price, fill, distance, scale)
      PROVE  Streak'
  <2>1. UNCHANGED <<now, losses, slump>> /\ EndPause
    BY <1>2 DEF Enter, ghostVars
  <2> QED BY <2>1, PauseForgotten
<1>3. ASSUME NEW side \in {"LONG", "SHORT"}, NEW price \in Prices, NEW distance \in Distances,
             NEW scale \in Scales, Refuse(side, price, distance, scale)
      PROVE  Streak'
  <2>1. UNCHANGED <<now, losses, slump>> /\ EndPause
    BY <1>3 DEF Refuse, ghostVars
  <2> QED BY <2>1, PauseForgotten
<1>4. ASSUME NEW side \in {"LONG", "SHORT"}, NEW price \in Prices, NEW distance \in Distances,
             NEW scale \in Scales, NEW fill \in Fills(price),
             CrashInEntry(side, price, fill, distance, scale)
      PROVE  Streak'
  BY <1>4, ForgottenStreak DEF CrashInEntry
<1>5. ASSUME NEW side \in {"LONG", "SHORT"}, NEW price \in Prices, NEW distance \in Distances,
             Adopt(side, price, distance)
      PROVE  Streak'
  BY <1>5 DEF Adopt, Streak, riskVars, ghostVars
<1>6. ASSUME NEW price \in Prices, NEW fill \in Fills(price), Leave(price, fill)
      PROVE  Streak'
  BY <1>6, FillsAreNear, StreakAtClose DEF Leave, Holding
<1>7. ASSUME NEW price \in Prices, Gone(price)
      PROVE  Streak'
  BY <1>7, StreakAtClose DEF Gone, Holding
<1>8. ASSUME NEW price \in Prices, Turned(price)
      PROVE  Streak'
  BY <1>8 DEF Turned, Streak, riskVars, ghostVars
<1>9. ASSUME NEW price \in Prices, NEW fill \in Fills(price), CrashInExit(price, fill)
      PROVE  Streak'
  BY <1>9, ForgottenStreak DEF CrashInExit
<1>10. CASE Restart
  BY <1>10, ForgottenStreak DEF Restart
<1>11. ASSUME NEW l \in Limits, Reconfigure(l)
      PROVE  Streak'
  BY <1>11 DEF Reconfigure, Streak, riskVars, ghostVars
<1>12. CASE UNCHANGED vars
  BY <1>12 DEF vars, Streak, riskVars, ghostVars
<1> QED BY <1>1, <1>2, <1>3, <1>4, <1>5, <1>6, <1>7, <1>8, <1>9, <1>10, <1>11, <1>12 DEF Next

\* The paper exchange goes on holding what the engine holds.
LEMMA InventoryStep ==
  ASSUME Inv, [Next]_vars
  PROVE  Inventory'
<1>0. Holding /\ Inventory /\ book \in Int /\ paper \in BOOLEAN /\ now \in Nat
  BY DEF Inv, TypeOK
<1> USE <1>0
<1>1. CASE Tick
  BY <1>1 DEF Tick, Inventory, ghostVars
<1>2. ASSUME NEW side \in {"LONG", "SHORT"}, NEW price \in Prices, NEW distance \in Distances,
             NEW scale \in Scales, NEW fill \in Fills(price),
             Enter(side, price, fill, distance, scale)
      PROVE  Inventory'
  <2> DEFINE qty == Size(price, distance, scale)
             p == NewPosition(side, qty, price, fill, distance, "entry")
  <2>1. qty \in Nat \ {0} /\ pos' = p /\ pos = Flat
    BY <1>2, SizeIsNat DEF Enter
  <2>2. p.by = "entry" /\ p.qty = qty /\ p.side = side
    BY <1>2, <2>1, NewPositions DEF Enter
  <2> HIDE DEF p, qty
  <2>3. paper' = paper /\ book' = (IF paper THEN PaperUpdate(book, EntryOrder(side), qty) ELSE book)
          /\ shorted' = (shorted \/ side = "SHORT")
    BY <1>2 DEF Enter, Filled, qty
  <2>4. paper /\ ~shorted => book = 0
    BY <2>1 DEF Inventory, Flat
  <2>5. ASSUME paper, ~shorted'
        PROVE  book' = qty
    <3>1. side = "LONG" /\ ~shorted
      BY <2>3, <2>5
    <3>2. book' = book + qty
      BY <2>3, <2>5, <3>1 DEF PaperUpdate, EntryOrder
    <3> QED BY <2>1, <2>4, <2>5, <3>1, <3>2
  <2>6. pos'.by = "entry" /\ pos'.qty = qty /\ paper' = paper
    BY <2>1, <2>2, <2>3
  <2> QED BY <2>5, <2>6 DEF Inventory
<1>3. ASSUME NEW side \in {"LONG", "SHORT"}, NEW price \in Prices, NEW distance \in Distances,
             NEW scale \in Scales, Refuse(side, price, distance, scale)
      PROVE  Inventory'
  BY <1>3 DEF Refuse, Inventory, ghostVars
<1>4. ASSUME NEW side \in {"LONG", "SHORT"}, NEW price \in Prices, NEW distance \in Distances,
             NEW scale \in Scales, NEW fill \in Fills(price),
             CrashInEntry(side, price, fill, distance, scale)
      PROVE  Inventory'
  BY <1>4 DEF CrashInEntry, Forget, Inventory, Flat
<1>5. ASSUME NEW side \in {"LONG", "SHORT"}, NEW price \in Prices, NEW distance \in Distances,
             Adopt(side, price, distance)
      PROVE  Inventory'
  BY <1>5 DEF Adopt, Inventory
<1>6. ASSUME NEW price \in Prices, NEW fill \in Fills(price), Leave(price, fill)
      PROVE  Inventory'
  <2>1. pos \in Positions /\ pos' = Flat
    BY <1>6 DEF Leave, Closed, Holding
  <2>2. paper' = paper /\ shorted' = (shorted \/ pos.side = "SHORT")
          /\ book' = (IF paper THEN PaperUpdate(book, ExitOrder(pos.side), pos.qty) ELSE book)
    BY <1>6 DEF Leave, Filled
  <2>3. pos.side \in {"LONG", "SHORT"} /\ pos.qty \in Nat \ {0}
    BY <2>1 DEF Positions
  <2>4. ASSUME paper, ~shorted'
        PROVE  book' = 0
    <3>1. pos.side = "LONG" /\ ~shorted
      BY <2>2, <2>3, <2>4
    <3>2. book' = (IF book = 0 THEN 0 ELSE book - pos.qty)
      BY <2>2, <2>4, <3>1 DEF PaperUpdate, ExitOrder
    <3>3. book = 0 \/ book = pos.qty
      BY <2>4, <3>1 DEF Inventory
    <3> QED BY <2>3, <3>2, <3>3
  <2> QED BY <2>1, <2>2, <2>4 DEF Inventory, Flat
<1>7. ASSUME NEW price \in Prices, Gone(price)
      PROVE  Inventory'
  BY <1>7 DEF Gone, Inventory
<1>8. ASSUME NEW price \in Prices, Turned(price)
      PROVE  Inventory'
  BY <1>8 DEF Turned, Inventory
<1>9. ASSUME NEW price \in Prices, NEW fill \in Fills(price), CrashInExit(price, fill)
      PROVE  Inventory'
  <2>1. paper' = paper /\ book' = 0 /\ (paper => pos' = Restored(pos))
    BY <1>9 DEF CrashInExit, Forget
  <2>2. paper => pos.by # "turned"
    BY DEF Inventory
  <2>3. paper => pos'.by \in {"none", "boot"} /\ (pos'.by = "none" => pos'.qty = 0)
    BY <2>1, <2>2, RestoredKeeps DEF Holding
  <2> QED BY <2>1, <2>3 DEF Inventory
<1>10. CASE Restart
  <2>1. paper' = paper /\ book' = 0 /\ (paper => pos' = Restored(pos))
    BY <1>10 DEF Restart, Forget
  <2>2. paper => pos.by # "turned"
    BY DEF Inventory
  <2>3. paper => pos'.by \in {"none", "boot"} /\ (pos'.by = "none" => pos'.qty = 0)
    BY <2>1, <2>2, RestoredKeeps DEF Holding
  <2> QED BY <2>1, <2>3 DEF Inventory
<1>11. ASSUME NEW l \in Limits, Reconfigure(l)
      PROVE  Inventory'
  BY <1>11 DEF Reconfigure, Inventory, ghostVars
<1>12. CASE UNCHANGED vars
  BY <1>12 DEF vars, Inventory, ghostVars
<1> QED BY <1>1, <1>2, <1>3, <1>4, <1>5, <1>6, <1>7, <1>8, <1>9, <1>10, <1>11, <1>12 DEF Next

\* The cash of the day stays its result, but for the price of what is held.
LEMMA LedgerStep ==
  ASSUME Inv, [Next]_vars
  PROVE  Ledger'
<1>0. Holding /\ Ledger /\ cash \in Int /\ realized \in Int /\ now \in Nat
  BY DEF Inv, TypeOK
<1> USE <1>0
<1>1. CASE Tick
  <2>1. CASE Midnight
    <3>1. cash' = 0 /\ realized' = 0 /\ pos' = pos
      BY <1>1, <2>1 DEF Tick
    <3>2. skewed' = (pos # Flat)
      BY <1>1, <2>1 DEF Tick
    <3>3. ~skewed' => pos = Flat
      BY <3>2, Zenon
    <3> QED BY <3>1, <3>3 DEF Ledger, Held
  <2>2. CASE ~Midnight
    BY <1>1, <2>2 DEF Tick, Ledger
  <2> QED BY <2>1, <2>2
<1>2. ASSUME NEW side \in {"LONG", "SHORT"}, NEW price \in Prices, NEW distance \in Distances,
             NEW scale \in Scales, NEW fill \in Fills(price),
             Enter(side, price, fill, distance, scale)
      PROVE  Ledger'
  <2> DEFINE qty == Size(price, distance, scale)
             p == NewPosition(side, qty, price, fill, distance, "entry")
             flow == Flow(EntryOrder(side), qty, fill)
  <2>1. qty \in Nat \ {0} /\ pos' = p /\ Held(pos) = 0
    BY <1>2, SizeIsNat DEF Enter, Held
  <2>2. flow \in Int /\ flow = -Held(p) /\ Held(p) \in Int
    <3>1. p \in Positions
      BY <2>1, NewPositions
    <3> QED BY <2>1, <3>1, EntryIsHeld, ResultIsFlow
  <2> HIDE DEF p, flow
  <2>3. cash' = cash + flow /\ realized' = realized /\ skewed' = skewed
    BY <1>2 DEF Enter, Filled, flow, qty
  <2> QED BY <2>1, <2>2, <2>3 DEF Ledger
<1>3. ASSUME NEW side \in {"LONG", "SHORT"}, NEW price \in Prices, NEW distance \in Distances,
             NEW scale \in Scales, Refuse(side, price, distance, scale)
      PROVE  Ledger'
  BY <1>3 DEF Refuse, Ledger, tableVars, ghostVars
<1>4. ASSUME NEW side \in {"LONG", "SHORT"}, NEW price \in Prices, NEW distance \in Distances,
             NEW scale \in Scales, NEW fill \in Fills(price),
             CrashInEntry(side, price, fill, distance, scale)
      PROVE  Ledger'
  BY <1>4 DEF CrashInEntry, Upset, Ledger
<1>5. ASSUME NEW side \in {"LONG", "SHORT"}, NEW price \in Prices, NEW distance \in Distances,
             Adopt(side, price, distance)
      PROVE  Ledger'
  BY <1>5 DEF Adopt, Upset, Ledger
<1>6. ASSUME NEW price \in Prices, NEW fill \in Fills(price), Leave(price, fill)
      PROVE  Ledger'
  <2> DEFINE pnl == Pnl(pos, fill)
             flow == Flow(ExitOrder(pos.side), pos.qty, fill)
  <2>1. pnl \in Int /\ Held(pos) \in Int /\ flow \in Int /\ flow = pnl + Held(pos)
    BY <1>6, FillsAreNear, ResultIsFlow DEF Leave, Holding
  <2>2. pos' = Flat /\ realized' = realized + pnl /\ cash' = cash + flow /\ skewed' = skewed
    BY <1>6 DEF Leave, Closed, Filled
  <2> HIDE DEF pnl, flow
  <2> QED BY <2>1, <2>2 DEF Ledger, Held
<1>7. ASSUME NEW price \in Prices, Gone(price)
      PROVE  Ledger'
  BY <1>7 DEF Gone, Upset, Ledger
<1>8. ASSUME NEW price \in Prices, Turned(price)
      PROVE  Ledger'
  BY <1>8 DEF Turned, Upset, Ledger
<1>9. ASSUME NEW price \in Prices, NEW fill \in Fills(price), CrashInExit(price, fill)
      PROVE  Ledger'
  BY <1>9 DEF CrashInExit, Upset, Ledger
<1>10. CASE Restart
  <2>1. UNCHANGED <<cash, realized>>
    BY <1>10 DEF Restart, tableVars
  <2>2. (pos' = Restored(pos) /\ UNCHANGED skewed) \/ Upset
    BY <1>10 DEF Restart
  <2>3. Held(Restored(pos)) = Held(pos)
    BY RestoredKeeps DEF Holding
  <2> QED BY <2>1, <2>2, <2>3 DEF Ledger, Upset
<1>11. ASSUME NEW l \in Limits, Reconfigure(l)
      PROVE  Ledger'
  BY <1>11 DEF Reconfigure, Ledger, tableVars, ghostVars
<1>12. CASE UNCHANGED vars
  BY <1>12 DEF vars, Ledger, tableVars, ghostVars
<1> QED BY <1>1, <1>2, <1>3, <1>4, <1>5, <1>6, <1>7, <1>8, <1>9, <1>10, <1>11, <1>12 DEF Next

-----------------------------------------------------------------------------
(* The theorems *)

\* The invariant holds at the start of the run.
LEMMA InitInv == Init => Inv
<1> SUFFICES ASSUME Init PROVE Inv
  OBVIOUS
<1>1. TypeOK
  <2>1. now = 1 /\ limits \in Limits /\ losses = 0 /\ pausedUntil = 0 /\ pos = Flat /\ book = 0
          /\ cash = 0 /\ realized = 0 /\ upsets = 0
    BY DEF Init
  <2>2. paper \in BOOLEAN /\ skewed \in BOOLEAN /\ shorted \in BOOLEAN
    BY DEF Init
  <2>3. lastOrder \in [Sides -> 0 .. now]
    BY <2>1 DEF Init
  <2>4. now \in 1 .. MaxTime /\ upsets \in 0 .. MaxUpsets
    BY <2>1, RiskAssumption
  <2> QED BY <2>1, <2>2, <2>3, <2>4 DEF TypeOK
<1>2. Holding /\ Levels
  BY DEF Init, Holding, Levels
<1>3. Streak
  BY DEF Init, Streak, NoSlump, Limit
<1>4. Inventory /\ Ledger
  BY DEF Init, Inventory, Ledger, Held, Flat
<1> QED BY <1>1, <1>2, <1>3, <1>4 DEF Inv

\* And after every step.
LEMMA NextInv == Inv /\ [Next]_vars => Inv'
  BY PositionStep, TypeStep, StreakStep, InventoryStep, LedgerStep DEF Inv

\* The invariant holds of every state of the program.
THEOREM Invariance == Spec => []Inv
  BY InitInv, NextInv, PTL DEF Spec

\* Every variable keeps its type: a position has a side, a quantity above zero and a price the
\* market had, the counters of the checker never fall below zero.
THEOREM TypeCorrect == Spec => []TypeOK
<1>1. Inv => TypeOK
  BY DEF Inv
<1> QED BY <1>1, Invariance, PTL

\* Whatever the settings, what the paper exchange holds is what the engine believes to hold,
\* as long as nothing was sold short and no restart lost the exchange's own inventory.
THEOREM PaperBookCorrect == Spec => []BookFollowsEngine
<1>1. Inv => BookFollowsEngine
  BY DEF Inv, Inventory, BookFollowsEngine
<1> QED BY <1>1, Invariance, PTL

\* What a position gains by a move of d below the slippage of its two fills is so bounded.
LEMMA Moves ==
  ASSUME NEW q \in Nat \ {0}, NEW slip \in Nat, NEW d \in Int
  PROVE  /\ d > -(2 * slip) => d * q > -(2 * slip * q)
         /\ d < 2 * slip => d * q < 2 * slip * q
<1>1. ASSUME NEW a \in Int, a > 0 PROVE a * q > 0
  BY <1>1
<1>2. (d + 2 * slip) * q = d * q + 2 * slip * q /\ (2 * slip - d) * q = 2 * slip * q - d * q
  OBVIOUS
<1>3. d * q \in Int /\ 2 * slip * q \in Int /\ d + 2 * slip \in Int /\ 2 * slip - d \in Int
  OBVIOUS
<1>4. ASSUME d > -(2 * slip) PROVE d * q > -(2 * slip * q)
  <2>1. d + 2 * slip > 0
    BY <1>4
  <2>2. (d + 2 * slip) * q > 0
    BY <1>1, <1>3, <2>1
  <2> QED BY <1>2, <1>3, <2>2
<1>5. ASSUME d < 2 * slip PROVE d * q < 2 * slip * q
  <2>1. 2 * slip - d > 0
    BY <1>5
  <2>2. (2 * slip - d) * q > 0
    BY <1>1, <1>3, <2>1
  <2> QED BY <1>2, <1>3, <2>2
<1> QED BY <1>4, <1>5

\* A position closed at its take-profit won and one closed at its stop lost, but for the slippage
\* of its fills.
LEMMA LevelsName == Inv => ExitsAsNamed
<1> SUFFICES ASSUME Inv, pos # Flat, pos.by # "turned", NEW price \in Prices,
                    NEW fill \in Fills(price)
             PROVE  /\ CheckExit(pos, price) = "TAKE_PROFIT" =>
                          Pnl(pos, fill) > -(2 * SlipNow * pos.qty)
                    /\ CheckExit(pos, price) = "STOP_LOSS" => Pnl(pos, fill) < 2 * SlipNow * pos.qty
  BY DEF ExitsAsNamed
<1> DEFINE q == pos.qty  entry == pos.entry  slip == SlipNow
<1>1. pos \in Positions
  BY DEF Inv, Holding
<1>2. /\ q \in Nat \ {0} /\ entry \in Nat /\ price \in Nat /\ fill \in Nat /\ slip \in Nat
      /\ pos.tp \in Int /\ pos.sl \in Int /\ pos.side \in {"LONG", "SHORT"}
  BY <1>1, FillsAreNear, SlipIsNat, RiskAssumption DEF Positions
<1>3. fill <= price + slip /\ price <= fill + slip
  BY FillsAreNear
<1>4. LevelsOf(pos)
  BY DEF Inv, Levels
<1>5. CASE pos.side = "LONG"
  <2>1. pos.sl < entry + slip /\ entry < pos.tp + slip
    BY <1>4, <1>5 DEF LevelsOf
  <2>2. Pnl(pos, fill) = (fill - entry) * q
    BY <1>5 DEF Pnl
  <2>3. /\ CheckExit(pos, price) = "TAKE_PROFIT" => price >= pos.tp
        /\ CheckExit(pos, price) = "STOP_LOSS" => price <= pos.sl
    BY <1>5 DEF CheckExit
  <2> HIDE DEF q, entry, slip
  <2>4. price >= pos.tp => fill - entry > -(2 * slip)
    BY <1>2, <1>3, <2>1
  <2>5. price <= pos.sl => fill - entry < 2 * slip
    BY <1>2, <1>3, <2>1
  <2>6. fill - entry \in Int
    BY <1>2
  <2> DEFINE d == fill - entry
  <2> HIDE DEF d
  <2>7. /\ d > -(2 * slip) => d * q > -(2 * slip * q)
        /\ d < 2 * slip => d * q < 2 * slip * q
    BY <1>2, <2>6, Moves DEF d
  <2> QED BY <2>2, <2>3, <2>4, <2>5, <2>7 DEF d, q, slip
<1>6. CASE pos.side = "SHORT"
  <2>1. pos.tp < entry + slip /\ entry < pos.sl + slip
    BY <1>4, <1>6 DEF LevelsOf
  <2>2. Pnl(pos, fill) = (entry - fill) * q
    BY <1>6 DEF Pnl
  <2>3. /\ CheckExit(pos, price) = "TAKE_PROFIT" => price <= pos.tp
        /\ CheckExit(pos, price) = "STOP_LOSS" => price >= pos.sl
    BY <1>6 DEF CheckExit
  <2> HIDE DEF q, entry, slip
  <2>4. price <= pos.tp => entry - fill > -(2 * slip)
    BY <1>2, <1>3, <2>1
  <2>5. price >= pos.sl => entry - fill < 2 * slip
    BY <1>2, <1>3, <2>1
  <2>6. entry - fill \in Int
    BY <1>2
  <2> DEFINE d == entry - fill
  <2> HIDE DEF d
  <2>7. /\ d > -(2 * slip) => d * q > -(2 * slip * q)
        /\ d < 2 * slip => d * q < 2 * slip * q
    BY <1>2, <2>6, Moves DEF d
  <2> QED BY <2>2, <2>3, <2>4, <2>5, <2>7 DEF d, q, slip
<1> QED BY <1>2, <1>5, <1>6

\* An exit at the take-profit gains and one at the stop loses, but for the slippage of the fills:
\* the sides of the strategy, of the exit check and of the result agree, for every price, distance
\* and quantity, and in paper mode exactly.
THEOREM ExitsNamedRight == Spec => []ExitsAsNamed
  BY LevelsName, Invariance, PTL

\* Only Enter opens a position that says so: it passed the checks.
LEMMA EntryPassed ==
  ASSUME Inv, [Next]_vars, Entering
  PROVE  ~PauseBlocks /\ ~DailyLossBlocks
<1>1. pos = Flat /\ pos' # Flat /\ pos'.by = "entry"
  BY DEF Entering
<1>2. CASE Tick \/ Restart
  BY <1>1, <1>2 DEF Tick, Restart, Restored
<1>3. ASSUME NEW side \in {"LONG", "SHORT"}, NEW price \in Prices, NEW distance \in Distances,
             NEW scale \in Scales, NEW fill \in Fills(price),
             Enter(side, price, fill, distance, scale)
      PROVE  ~PauseBlocks /\ ~DailyLossBlocks
  BY <1>3 DEF Enter, Passes
<1>4. ASSUME NEW side \in {"LONG", "SHORT"}, NEW price \in Prices, NEW distance \in Distances,
             NEW scale \in Scales, NEW fill \in Fills(price),
             CrashInEntry(side, price, fill, distance, scale)
      PROVE  FALSE
  BY <1>1, <1>4 DEF CrashInEntry, NewPosition
<1>5. ASSUME NEW side \in {"LONG", "SHORT"}, NEW price \in Prices, NEW distance \in Distances,
             Adopt(side, price, distance)
      PROVE  FALSE
  BY <1>1, <1>5 DEF Adopt, NewPosition
<1>6. ASSUME NEW price \in Prices, NEW fill \in Fills(price),
             Leave(price, fill) \/ CrashInExit(price, fill)
      PROVE  FALSE
  BY <1>1, <1>6 DEF Leave, CrashInExit
<1>7. ASSUME NEW price \in Prices, Gone(price) \/ Turned(price)
      PROVE  FALSE
  BY <1>1, <1>7 DEF Gone, Turned
<1>8. ASSUME NEW side \in {"LONG", "SHORT"}, NEW price \in Prices, NEW distance \in Distances,
             NEW scale \in Scales, Refuse(side, price, distance, scale)
      PROVE  FALSE
  BY <1>1, <1>8 DEF Refuse
<1>9. CASE (\E l \in Limits : Reconfigure(l)) \/ UNCHANGED vars
  BY <1>1, <1>9 DEF Reconfigure, vars
<1> QED BY <1>2, <1>3, <1>4, <1>5, <1>6, <1>7, <1>8, <1>9 DEF Next

\* After enough losing trades in a row no order is placed before the pause is over, for every
\* setting and change of the limits.
THEOREM PauseKept == Spec => LossPauseHolds
<1>1. ASSUME Inv, [Next]_vars, Entering, slump.count > 0, slump.rule.losses > 0,
             slump.count >= slump.rule.losses
      PROVE  now >= slump.at + slump.rule.pause
  <2>1. now \in Nat /\ pausedUntil \in Nat /\ slump.at \in Nat /\ slump.rule.pause \in Nat
    BY <1>1 DEF Inv, TypeOK, Streak, Limit
  <2>2. slump.at + slump.rule.pause <= pausedUntil \/ slump.at + slump.rule.pause <= now
    BY <1>1 DEF Inv, Streak
  <2>3. pausedUntil = 0 \/ pausedUntil <= now
    BY <1>1, <2>1, EntryPassed DEF PauseBlocks
  <2> QED BY <2>1, <2>2, <2>3
<1>2. Inv /\ [Next]_vars =>
        [Entering /\ slump.count > 0 /\ slump.rule.losses > 0
           /\ slump.count >= slump.rule.losses
         => now >= slump.at + slump.rule.pause]_vars
  BY <1>1
<1> QED BY <1>2, Invariance, PTL DEF Spec, LossPauseHolds

\* No order is placed on a day that lost more than the limit, if its executions are the two legs
\* of its trades, although the checker reads the day's cash flow and not its result.
THEOREM DailyLimitKept == Spec => DailyLimitHolds
<1>1. ASSUME Inv, [Next]_vars, Entering, ~skewed
      PROVE  realized >= -limits.daily
  <2>1. cash = realized /\ cash \in Int /\ realized \in Int /\ limits.daily \in Nat
    BY <1>1, RiskAssumption DEF Inv, TypeOK, Ledger, Held, Entering, Limit
  <2>2. ~(cash < -limits.daily)
    BY <1>1, EntryPassed DEF DailyLossBlocks
  <2> QED BY <2>1, <2>2
<1>2. Inv /\ [Next]_vars => [Entering /\ ~skewed => realized >= -limits.daily]_vars
  BY <1>1
<1> QED BY <1>2, Invariance, PTL DEF Spec, DailyLimitHolds

\* What is within a limit before the slippage exceeds it by no more than the slippage after it.
LEMMA SlippedBudget ==
  ASSUME NEW n \in Nat, NEW most \in Nat, NEW a \in Nat, NEW b \in Int, NEW slip \in Nat,
         n * a <= most, b <= a + slip
  PROVE  n * b <= most + n * slip
<1>1. n * (a + slip - b) >= 0
  <2> DEFINE d == a + slip - b
  <2>1. d \in Nat
    OBVIOUS
  <2> HIDE DEF d
  <2>2. n * d >= 0
    BY <2>1
  <2> QED BY <2>2 DEF d
<1>2. n * (a + slip - b) = n * a + n * slip - n * b
  OBVIOUS
<1>3. n * a \in Int /\ n * slip \in Int /\ n * b \in Int
  OBVIOUS
<1> QED BY <1>1, <1>2, <1>3

\* Only a sized entry opens a position that says so; one that was there keeps what it had.
LEMMA BudgetStep == Inv /\ RiskBudgetKept /\ [Next]_vars => RiskBudgetKept'
<1> SUFFICES ASSUME Inv, RiskBudgetKept, [Next]_vars PROVE RiskBudgetKept'
  OBVIOUS
<1>0. now \in Nat
  BY DEF Inv, TypeOK
<1>1. ASSUME pos' = pos PROVE RiskBudgetKept'
  <2>1. SlipNow' = SlipNow
    BY SlipIsKept
  <2> QED BY <1>1, <2>1 DEF RiskBudgetKept
<1>2. ASSUME pos'.by # "entry" PROVE RiskBudgetKept'
  BY <1>2 DEF RiskBudgetKept
<1>3. Flat.by # "entry" /\ Restored(pos).by # "entry"
  <2>1. Restored(pos).by \in {"none", "turned", "boot"}
    BY RestoredKeeps DEF Inv, Holding
  <2> QED BY <2>1 DEF Flat
<1>4. CASE Tick \/ Restart
  BY <1>1, <1>2, <1>3, <1>4 DEF Tick, Restart
<1>5. ASSUME NEW side \in {"LONG", "SHORT"}, NEW price \in Prices, NEW distance \in Distances,
             NEW scale \in Scales, NEW fill \in Fills(price),
             Enter(side, price, fill, distance, scale)
      PROVE  RiskBudgetKept'
  <2> DEFINE n == Size(price, distance, scale)
             far == IF side = "LONG" THEN fill - (price - distance) ELSE (price + distance) - fill
  <2>1. n \in Nat \ {0} /\ pos' = NewPosition(side, n, price, fill, distance, "entry")
    BY <1>5, SizeIsNat DEF Enter
  <2>2. /\ n * distance <= RiskBudget /\ n * price <= MaxNotional /\ n * price <= LeverageCap
        /\ 100 * (n + 1) * price > scale * MinOrder
    BY <2>1, SizeWithinLimits
  <2> HIDE DEF n
  <2>3. /\ pos'.side = side /\ pos'.qty = n /\ pos'.entry = fill
        /\ pos'.sl = IF side = "LONG" THEN price - distance ELSE price + distance
    BY <2>1 DEF NewPosition
  <2>4. /\ price \in Nat /\ fill \in Nat /\ distance \in Nat /\ SlipNow \in Nat /\ SlipNow' = SlipNow
        /\ fill <= price + SlipNow /\ price <= fill + SlipNow
        /\ RiskBudget \in Nat /\ MaxNotional \in Nat /\ LeverageCap \in Nat /\ MinOrder \in Nat
        /\ scale \in Nat
    <3>1. fill \in Prices /\ fill <= price + SlipNow /\ price <= fill + SlipNow
      BY FillsAreNear
    <3>2. SlipNow \in Nat /\ SlipNow' = SlipNow
      BY SlipIsNat, SlipIsKept
    <3>3. price \in Nat /\ fill \in Nat /\ distance \in Nat /\ scale \in Nat
      BY <3>1, RiskAssumption
    <3>4. RiskBudget \in Nat /\ MaxNotional \in Nat /\ LeverageCap \in Nat /\ MinOrder \in Nat
      BY RiskAssumption
    <3> QED BY <3>1, <3>2, <3>3, <3>4
  <2>5. far \in Int /\ far <= distance + SlipNow /\ 0 <= distance + SlipNow
    BY <2>4
  <2>6. far = IF pos'.side = "LONG" THEN pos'.entry - pos'.sl ELSE pos'.sl - pos'.entry
    BY <2>3, <2>4
  <2> HIDE DEF far
  <2>7. n * far <= RiskBudget + n * SlipNow
    BY <2>1, <2>2, <2>4, <2>5, SlippedBudget
  <2>8. n * fill <= MaxNotional + n * SlipNow /\ n * fill <= LeverageCap + n * SlipNow
    BY <2>1, <2>2, <2>4, SlippedBudget
  <2>9. 100 * (n + 1) * (fill + SlipNow) > scale * MinOrder
    <3>1. 100 * (n + 1) \in Nat /\ fill + SlipNow \in Nat
      BY <2>1, <2>4
    <3>2. price * (100 * (n + 1)) <= (fill + SlipNow) * (100 * (n + 1))
      BY <2>4, <3>1, Products
    <3>3. /\ price * (100 * (n + 1)) = 100 * (n + 1) * price
          /\ (fill + SlipNow) * (100 * (n + 1)) = 100 * (n + 1) * (fill + SlipNow)
          /\ 100 * (n + 1) * price \in Nat /\ 100 * (n + 1) * (fill + SlipNow) \in Nat
          /\ scale * MinOrder \in Nat
      BY <2>4, <3>1
    <3> QED BY <2>2, <3>2, <3>3
  <2> QED BY <2>3, <2>4, <2>6, <2>7, <2>8, <2>9 DEF RiskBudgetKept
<1>6. ASSUME NEW side \in {"LONG", "SHORT"}, NEW price \in Prices, NEW distance \in Distances,
             NEW scale \in Scales, NEW fill \in Fills(price),
             CrashInEntry(side, price, fill, distance, scale)
      PROVE  RiskBudgetKept'
  BY <1>2, <1>3, <1>6 DEF CrashInEntry, NewPosition
<1>7. ASSUME NEW side \in {"LONG", "SHORT"}, NEW price \in Prices, NEW distance \in Distances,
             Adopt(side, price, distance)
      PROVE  RiskBudgetKept'
  BY <1>2, <1>7 DEF Adopt, NewPosition
<1>8. ASSUME NEW price \in Prices, NEW fill \in Fills(price),
             Leave(price, fill) \/ CrashInExit(price, fill)
      PROVE  RiskBudgetKept'
  BY <1>2, <1>3, <1>8 DEF Leave, Closed, CrashInExit
<1>9. ASSUME NEW price \in Prices, Turned(price)
      PROVE  RiskBudgetKept'
  <2>1. pos \in Positions
    BY <1>9 DEF Turned, Inv, Holding
  <2>2. pos'.by = "turned"
    BY <1>9, <2>1 DEF Turned, Positions
  <2> QED BY <1>2, <2>2
<1>10. ASSUME NEW price \in Prices, Gone(price)
      PROVE  RiskBudgetKept'
  BY <1>2, <1>3, <1>10 DEF Gone, Closed
<1>11. ASSUME NEW side \in {"LONG", "SHORT"}, NEW price \in Prices, NEW distance \in Distances,
             NEW scale \in Scales, Refuse(side, price, distance, scale)
      PROVE  RiskBudgetKept'
  BY <1>1, <1>11 DEF Refuse
<1>12. CASE (\E l \in Limits : Reconfigure(l)) \/ UNCHANGED vars
  BY <1>1, <1>12 DEF Reconfigure, vars
<1> QED BY <1>4, <1>5, <1>6, <1>7, <1>8, <1>9, <1>10, <1>11, <1>12 DEF Next

\* What an entry can lose at its stop stays within the budget and its value within both limits,
\* for every equity, price, distance and scale, but for the slippage of its fill; and only scale
\* and slippage bring it below the minimum of an order, but for the rounding of one quantity.
THEOREM BudgetKept == Spec => []RiskBudgetKept
<1>1. Init => RiskBudgetKept
  BY DEF Init, RiskBudgetKept, Flat
<1> QED BY <1>1, BudgetStep, Invariance, PTL DEF Spec
================================================================================
