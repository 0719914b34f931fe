------------------------ MODULE TradingEngine_proofs ------------------------
(***************************************************************************)
(* Theorems about TradingEngine for every value of its constants.          *)
(*                                                                         *)
(* Safe, the conjunction of TypeOK, Control, Memory and Booking, is        *)
(* inductive without any assumption about failures: it gives               *)
(* MemoryMatchesTables and BookedAtMostOnce.  With Exposure added it is    *)
(* inductive as long as positionRisk answers are true and market orders    *)
(* are done before their duplicate window ends: that gives                 *)
(* ExposureBounded.  Flattening follows a stop() before which nothing      *)
(* failed and gives StoppedFlat.                                           *)
(***************************************************************************)
EXTENDS TradingEngine, TLAPS

Saves == {"saveOpen", "saveClosed", "saveTrade"}
WithOrder == {"exitCheck", "send", "await", "saveOrder"}

\* Which calls and commits belong to stop(), and what order is being placed.
Control ==
  /\ stopping => /\ pc \in WithOrder \cup Saves \cup
                           {"flatten", "flattenPick", "resync", "stopped"}
                 /\ pc \in Saves => next \in {"flattenPick", "stopped"}
                 /\ pc \in WithOrder => ord.purpose = "exit"
  /\ ~stopping => /\ pc \notin {"flatten", "flattenPick", "stopped"}
                  /\ pc \in Saves => next \notin {"flattenPick", "stopped"}
  /\ pc \in WithOrder => /\ ord.purpose \in {"entry", "exit"}
                         /\ ord.reduceOnly <=> ord.purpose = "exit"
                         /\ ord.qty > 0
  /\ pc = "exitCheck" => ord.purpose = "exit"

\* Outside stop() only a commit under way separates memory from the tables.
Memory ==
  /\ ~stopping /\ pc \notin Saves \cup {"down"} => snap = local
  /\ pc = "saveOpen" => local.net # 0
  /\ pc \in {"saveClosed", "saveTrade"} => local = NoPosition
  /\ pc = "saveTrade" => snap = NoPosition

\* An identity in use has no trade_result row yet.
Unbooked(i) == i \in Ids => rows[i] = 0
Booking ==
  /\ local.id < nextId /\ snap.id < nextId /\ closing.id < nextId
  /\ \A i \in Ids : i >= nextId => rows[i] = 0
  /\ Unbooked(local.id) /\ Unbooked(snap.id)
  /\ pc \in {"saveClosed", "saveTrade"} => Unbooked(closing.id)
  /\ BookedAtMostOnce

Safe == TypeOK /\ Control /\ Memory /\ Booking

\* What is on its way is no more than one entry ...
InFlightBounded == \A s \in Side : EntryInFlight(s) <= MaxLots

\* ... and while it is, its side is inside the duplicate window, unless there
\* will be no entry before the next start, or the order is about to be saved.
Remembered ==
  \A s \in Side : entryOpen[s] > 0 =>
    \/ s \in recent \/ pc = "down" \/ stopping
    \/ pc = "saveOrder" /\ ord.purpose = "entry" /\ ord.side = s

\* After the sync of a tick a flat engine means a flat exchange, but for entries
\* that were remembered.
DecidesFlat ==
  \A s \in Side :
    /\ pc = "decide" \/ (pc \in {"saveClosed", "saveTrade"} /\ next = "decide")
    /\ local.net = 0 /\ s \notin recent
    => Signed(s, exch) < MinLots

\* An entry is sent on top of nothing but dust.
SendsFlat ==
  pc = "send" /\ ord.purpose = "entry" =>
    /\ entryOpen[ord.side] = 0 /\ Signed(ord.side, exch) < MinLots
    /\ ord.qty <= MaxLots

\* Why a second entry cannot be stacked on a first.
Exposure ==
  ExposureBounded /\ InFlightBounded /\ Remembered /\ DecidesFlat /\ SendsFlat

-----------------------------------------------------------------------------
(* Facts about the data the model is built from *)

\* Position and order records keep their types under the updates of the model.
LEMMA PositionFacts ==
  /\ NoPosition \in Position /\ NoPosition.net = 0 /\ NoPosition.id = 0
  /\ \A p \in Position : p.net \in Int /\ p.id \in Ids \cup {0}
  /\ \A n \in Int, i \in Ids \cup {0} :
       LET p == [net |-> n, id |-> i] IN p \in Position /\ p.net = n /\ p.id = i
  /\ \A p \in Position, n \in Int :
       LET q == [p EXCEPT !.net = n] IN q \in Position /\ q.net = n /\ q.id = p.id
  BY BoundsAssumption DEF Position, NoPosition, Ids, Untracked

LEMMA OrderFacts ==
  /\ NoOrder \in Order
  /\ \A o \in Order :
       /\ o.side \in Side /\ o.qty \in Nat /\ o.left \in Nat
       /\ o.reduceOnly \in BOOLEAN
       /\ \A n \in Nat : [o EXCEPT !.qty = n] \in Order
       /\ \A n \in Nat : [o EXCEPT !.left = n] \in Order
       /\ \A t \in OrderStatus : [o EXCEPT !.status = t] \in Order
  /\ \A s \in Side, q \in Nat : EntryOrder(s, q) \in Order /\ ExitOrder(s, q) \in Order
  BY DEF Order, NoOrder, OrderStatus, Side, EntryOrder, ExitOrder

\* What place_order asks for is the quantity of the order, or one lot less.
LEMMA SentFacts ==
  ASSUME ord \in Order
  PROVE  /\ Sent \in Nat /\ Sent <= ord.qty /\ ord.qty <= Sent + 1
         /\ ord.qty > 0 => Sent > 0
         /\ ord.purpose = "entry" \/ Lossy = {} => Sent = ord.qty
<1>1. ord.qty \in Nat /\ (ord.purpose = "entry" => ord.purpose # "exit")
  BY OrderFacts
<1>2. CASE ord.purpose = "exit" /\ ord.qty \in Lossy
  <2>1. Sent = ord.qty - 1 /\ ord.qty > 1
    BY <1>1, <1>2, LossyAssumption DEF Sent, RoundQtyDown
  <2> QED BY <1>1, <1>2, <2>1
<1>3. CASE ~(ord.purpose = "exit" /\ ord.qty \in Lossy)
  <2>1. Sent = ord.qty
    BY <1>3 DEF Sent, RoundQtyDown
  <2> QED BY <1>1, <2>1
<1> QED BY <1>2, <1>3

\* Numeric helpers.
LEMMA LotFacts ==
  /\ \A n \in Int : AbsLots(n) \in Nat /\ (AbsLots(n) = 0 <=> n = 0)
  /\ \A n \in Int, s \in Side : Signed(s, n) \in Int
  /\ \A n \in Int : CloseSide(n) \in Side
  /\ \A a, b \in Nat : MinOf(a, b) \in Nat /\ MinOf(a, b) <= a
                       /\ (a > 0 /\ b > 0 => MinOf(a, b) > 0)
  BY DEF AbsLots, Signed, CloseSide, MinOf, Side

\* The next identity: the one handed out is fresh and the counter stays in range.
LEMMA FreshFacts ==
  ASSUME nextId \in 1 .. (MaxPositions + 1)
  PROVE  LET n == MinOf(nextId + 1, MaxPositions + 1) IN
         /\ n \in 1 .. (MaxPositions + 1) /\ n >= nextId
         /\ FreshId \in Ids \cup {0} /\ FreshId < n
         /\ FreshId # 0 => FreshId = nextId
  BY BoundsAssumption DEF MinOf, FreshId, Ids, Untracked

\* An answer of positionRisk is the position or zero.
LEMMA AnswerFacts ==
  ASSUME exch \in Int, faults \in 0 .. MaxFaults, NEW a \in {exch, 0},
         PositionAnswer(a)
  PROVE  a \in Int /\ faults' \in 0 .. MaxFaults
  BY BoundsAssumption DEF PositionAnswer

\* What one synchronisation may do to the state.
SyncOutcome(cont) ==
  \/ /\ local.net # 0 /\ local' = NoPosition /\ closing' = local
     /\ nextId' = nextId /\ pc' = "saveClosed" /\ next' = cont
  \/ /\ local.net = 0 /\ closing' = closing
     /\ local' \in Position /\ local'.net # 0 /\ local'.id = FreshId
     /\ nextId' = MinOf(nextId + 1, MaxPositions + 1)
     /\ pc' = "saveOpen" /\ next' = cont
  \/ /\ local.net # 0 /\ closing' = closing
     /\ local' \in Position /\ local'.net # 0 /\ local'.id = local.id
     /\ nextId' = nextId /\ pc' = "saveOpen" /\ next' = cont
  \/ /\ local' = local /\ closing' = closing /\ nextId' = nextId
     /\ pc' = cont /\ next' = next

\* What a reconciliation leaves in the position variables is well typed.
LEMMA SyncFacts ==
  ASSUME TypeOK, NEW at, NEW cont, Sync(at, cont)
  PROVE  /\ pc = at /\ SyncOutcome(cont) /\ faults' \in 0 .. MaxFaults
         /\ UNCHANGED <<exch, entryOpen, lateExits, prot, stopping,
                        tradingEnabled, ord, snap, closedIds, rows, recent>>
<1>1. PICK a \in {exch, 0} : PositionAnswer(a) /\ SyncWith(a, cont)
  BY DEF Sync
<1>2. a \in Int /\ faults' \in 0 .. MaxFaults
  BY <1>1, AnswerFacts DEF TypeOK, ExchangeOK, PositionsOK, BoundsOK
<1> DEFINE seen == IF IsDust(a) THEN 0 ELSE a
<1>3. seen \in Int
  BY <1>2
<1>4. FreshId \in Ids \cup {0}
  BY FreshFacts DEF TypeOK, ExchangeOK, PositionsOK, BoundsOK
<1>5. SyncOutcome(cont)
  <2>1. CASE local.net # 0 /\ seen = 0
    BY <1>1, <2>1 DEF SyncWith, SyncOutcome
  <2>2. CASE local.net = 0 /\ seen # 0
    <3>1. /\ local' = [net |-> seen, id |-> FreshId]
          /\ nextId' = MinOf(nextId + 1, MaxPositions + 1)
          /\ pc' = "saveOpen" /\ next' = cont /\ closing' = closing
      BY <1>1, <2>2 DEF SyncWith
    <3>2. local' \in Position /\ local'.net = seen /\ local'.id = FreshId
      BY <3>1, <1>3, <1>4, PositionFacts
    <3> QED BY <3>1, <3>2, <2>2 DEF SyncOutcome
  <2>3. CASE local.net # 0 /\ seen # 0 /\ seen # local.net
    <3>1. /\ local' = [local EXCEPT !.net = seen] /\ nextId' = nextId
          /\ pc' = "saveOpen" /\ next' = cont /\ closing' = closing
      BY <1>1, <2>3 DEF SyncWith
    <3>2. local' \in Position /\ local'.net = seen /\ local'.id = local.id
      BY <3>1, <1>3, PositionFacts DEF TypeOK, ExchangeOK, PositionsOK, BoundsOK
    <3> QED BY <3>1, <3>2, <2>3 DEF SyncOutcome
  <2>4. CASE local.net = seen
    BY <1>1, <2>4 DEF SyncWith, SyncOutcome
  <2> QED BY <2>1, <2>2, <2>3, <2>4
<1> QED
  BY <1>2, <1>5 DEF Sync, exchVars, dbVars

-----------------------------------------------------------------------------
(* Type correctness, one group of variables at a time *)

\* The steps that place, forget, fill or expire orders; no other step changes the
\* exchange.
TouchesExchange ==
  \/ PollsExhausted \/ ProtectTP \/ ProtectSL \/ Raise \/ Crash \/ Exchange

\* Only the named actions touch the variables of the exchange ...
LEMMA ExchangeFrame == [Next]_vars => TouchesExchange \/ UNCHANGED exchVars
<1> SUFFICES ASSUME [Next]_vars, ~TouchesExchange PROVE UNCHANGED exchVars
  OBVIOUS
<1> USE DEF exchVars
<1>1. CASE StartSync \/ TickSync \/ ResyncAfterExit \/ FlattenSync
  BY <1>1 DEF StartSync, TickSync, ResyncAfterExit, FlattenSync, Sync
<1>2. CASE Started \/ SaveOpen \/ SaveClosed \/ SaveTrade \/ DecideNothing \/ DecideExit
  BY <1>2 DEF Started, SaveOpen, SaveClosed, SaveTrade, DecideNothing, DecideExit
<1>3. CASE \E s \in Side, q \in 1 .. MaxLots : DecideEntry(s, q)
  BY <1>3 DEF DecideEntry
<1>4. CASE ExitCheck \/ SendAccepted \/ SendRejected \/ PollFilled \/ PollCancelled
  BY <1>4 DEF ExitCheck, SendAccepted, SendRejected, PollFilled, PollCancelled
<1>5. CASE SaveEntryOrder \/ SaveExitOrder \/ FlattenPick \/ Exit
  BY <1>5 DEF SaveEntryOrder, SaveExitOrder, FlattenPick, Exit
<1>6. CASE Operator
  BY <1>6 DEF Operator, Boot, StopRequested, SetTradingEnabled
<1>7. CASE UNCHANGED vars
  BY <1>7 DEF vars
<1> QED
  BY <1>1, <1>2, <1>3, <1>4, <1>5, <1>6, <1>7
     DEF Next, EngineStep, Failure, TouchesExchange

\* ... and they keep them in their ranges.
LEMMA ExchangeOKStep == TypeOK /\ [Next]_vars => ExchangeOK'
<1> SUFFICES ASSUME TypeOK, [Next]_vars PROVE ExchangeOK'
  OBVIOUS
<1> USE DEF TypeOK, ExchangeOK
<1>1. CASE UNCHANGED exchVars
  BY <1>1 DEF exchVars
<1>2. ord.side \in Side /\ ord.left \in Nat /\ ord.qty \in Nat
  BY OrderFacts
<1>3. CASE Abandon
  BY <1>2, <1>3 DEF Abandon
<1>4. CASE PollsExhausted
  BY <1>3, <1>4 DEF PollsExhausted
<1>5. CASE ProtectTP \/ ProtectSL
  <2>1. CloseSide(local.net) \in Side
    BY PositionFacts, LotFacts DEF PositionsOK
  <2> QED BY <1>5, <2>1 DEF ProtectTP, ProtectSL, Protect
<1>6. CASE Raise
  BY <1>1, <1>2, <1>3, <1>6 DEF Raise
<1>7. CASE Crash
  BY <1>1, <1>3, <1>7 DEF Crash
<1>8. \A s \in Side, k \in Nat : exch + Signed(s, k) \in Int
  BY LotFacts
<1>9. ASSUME NEW k \in 1 .. MaxLots, FillAwaited(k) PROVE ExchangeOK'
  BY <1>2, <1>8, <1>9, LotsAssumption DEF FillAwaited
<1>10. ASSUME NEW s \in Side, NEW k \in 1 .. MaxLots, FillLateEntry(s, k)
       PROVE  ExchangeOK'
  BY <1>8, <1>10, LotsAssumption DEF FillLateEntry
<1>11. ASSUME NEW s \in Side, NEW k \in 1 .. MaxLots, FillLateExit(s, k)
       PROVE  ExchangeOK'
  BY <1>8, <1>11, LotsAssumption DEF FillLateExit
<1>12. ASSUME NEW s \in Side, ExpireLate(s) PROVE ExchangeOK'
  BY <1>12 DEF ExpireLate
<1>13. ASSUME NEW s \in Side, NEW kind \in {"TP", "SL"}, NEW k \in 0 .. MaxLots,
              TriggerProtective(s, kind, k)
       PROVE  ExchangeOK'
  BY <1>8, <1>13, LotsAssumption DEF TriggerProtective
<1>14. ASSUME NEW s \in Side, WindowPasses(s) PROVE ExchangeOK'
  BY <1>1, <1>14 DEF WindowPasses
<1>15. CASE ClosedOutside
  BY <1>15 DEF ClosedOutside
<1> QED
  BY <1>1, <1>4, <1>5, <1>6, <1>7, <1>9, <1>10, <1>11, <1>12, <1>13, <1>14, <1>15,
     ExchangeFrame DEF TouchesExchange, Exchange

\* Control stays within the calls, the commits, "down" and "stopped".
LEMMA ControlOKStep == TypeOK /\ [Next]_vars => ControlOK'
<1> SUFFICES ASSUME TypeOK, [Next]_vars PROVE ControlOK'
  OBVIOUS
<1>0. ControlOK
  BY DEF TypeOK
<1> USE DEF ControlOK, Calls, Commits
<1> DEFINE Conts == {"started", "decide", Resume, "flattenPick"}
<1>1. ASSUME NEW at, NEW cont \in Conts, Sync(at, cont) PROVE ControlOK'
  <2>1. SyncOutcome(cont) /\ UNCHANGED <<stopping, tradingEnabled>>
    BY <1>1, SyncFacts
  <2>2. cont \in {"started", "decide", "loop", "stopped", "flattenPick"}
    BY DEF Resume
  <2> QED BY <1>0, <2>1, <2>2 DEF SyncOutcome
<1>2. CASE StartSync \/ TickSync \/ ResyncAfterExit \/ FlattenSync
  BY <1>1, <1>2 DEF StartSync, TickSync, ResyncAfterExit, FlattenSync
<1>3. CASE Started \/ SaveOpen \/ SaveClosed \/ SaveTrade \/ DecideNothing \/ DecideExit
  BY <1>0, <1>3 DEF Started, SaveOpen, SaveClosed, SaveTrade, DecideNothing, DecideExit
<1>4. CASE \E s \in Side, q \in 1 .. MaxLots : DecideEntry(s, q)
  BY <1>0, <1>4 DEF DecideEntry
<1>5. CASE ExitCheck \/ SendAccepted \/ SendRejected \/ PollFilled \/ PollCancelled
           \/ PollsExhausted
  BY <1>0, <1>5 DEF ExitCheck, SendAccepted, SendRejected, PollFilled,
     PollCancelled, PollsExhausted
<1>6. CASE SaveEntryOrder \/ SaveExitOrder
  BY <1>0, <1>6 DEF SaveEntryOrder, SaveExitOrder, Resume
<1>7. CASE ProtectTP \/ ProtectSL \/ FlattenPick \/ Exit
  BY <1>0, <1>7 DEF ProtectTP, ProtectSL, Protect, FlattenPick, Exit, Forget
<1>8. CASE Operator
  BY <1>0, <1>8 DEF Operator, Boot, StopRequested, SetTradingEnabled
<1>9. CASE Raise \/ Crash
  BY <1>0, <1>9 DEF Raise, Crash, Forget
<1>10. CASE Exchange \/ UNCHANGED vars
  BY <1>0, <1>10 DEF Exchange, FillAwaited, FillLateEntry, FillLateExit, ExpireLate,
     TriggerProtective, ClosedOutside, WindowPasses, engineVars, vars
<1> QED
  BY <1>2, <1>3, <1>4, <1>5, <1>6, <1>7, <1>8, <1>9, <1>10
     DEF Next, EngineStep, Failure

\* The steps that change what process or tables know of the position.
positionVars == <<local, closing, snap, closedIds, rows, nextId>>
TouchesPosition ==
  \/ StartSync \/ TickSync \/ ResyncAfterExit \/ FlattenSync
  \/ SaveOpen \/ SaveClosed \/ SaveTrade \/ SaveEntryOrder \/ SaveExitOrder
  \/ Boot \/ Exit \/ Raise \/ Crash

\* The steps that write local, closing, snap or nextId; all others leave them.
LEMMA PositionFrame ==
  [Next]_vars => \/ TouchesPosition
                 \/ UNCHANGED positionVars /\ (pc' = pc \/ pc' \notin Saves)
<1> SUFFICES ASSUME [Next]_vars, ~TouchesPosition
             PROVE  UNCHANGED positionVars /\ (pc' = pc \/ pc' \notin Saves)
  OBVIOUS
<1> USE DEF positionVars, dbVars, Saves
<1>1. CASE Started \/ DecideNothing \/ DecideExit
           \/ \E s \in Side, q \in 1 .. MaxLots : DecideEntry(s, q)
  BY <1>1 DEF Started, DecideNothing, DecideExit, DecideEntry
<1>2. CASE ExitCheck \/ SendAccepted \/ SendRejected \/ PollFilled \/ PollCancelled
           \/ PollsExhausted
  BY <1>2 DEF ExitCheck, SendAccepted, SendRejected, PollFilled, PollCancelled,
     PollsExhausted
<1>3. CASE ProtectTP \/ ProtectSL \/ FlattenPick \/ StopRequested
           \/ \E b \in BOOLEAN : SetTradingEnabled(b)
  BY <1>3 DEF ProtectTP, ProtectSL, Protect, FlattenPick, StopRequested,
     SetTradingEnabled
<1>4. CASE Exchange \/ UNCHANGED vars
  BY <1>4 DEF Exchange, FillAwaited, FillLateEntry, FillLateExit, ExpireLate,
     TriggerProtective, ClosedOutside, WindowPasses, engineVars, vars
<1> QED
  BY <1>1, <1>2, <1>3, <1>4 DEF Next, EngineStep, Operator, Failure, TouchesPosition

\* What the steps of PositionFrame do to those variables.
LEMMA PositionsOKStep ==
  TypeOK /\ [Next]_vars => PositionsOK' /\ closedIds' \subseteq Ids
                           /\ rows' \in [Ids -> Nat]
                           /\ nextId' \in 1 .. (MaxPositions + 1)
<1> SUFFICES ASSUME TypeOK, [Next]_vars
             PROVE  PositionsOK' /\ closedIds' \subseteq Ids /\ rows' \in [Ids -> Nat]
                    /\ nextId' \in 1 .. (MaxPositions + 1)
  OBVIOUS
<1>0. /\ PositionsOK /\ closedIds \subseteq Ids /\ rows \in [Ids -> Nat]
      /\ nextId \in 1 .. (MaxPositions + 1)
  BY DEF TypeOK, TablesOK, BoundsOK
<1> USE DEF PositionsOK
<1>1. NoPosition \in Position
  BY PositionFacts
<1>2. ASSUME NEW at, NEW cont, Sync(at, cont)
      PROVE  PositionsOK' /\ nextId' \in 1 .. (MaxPositions + 1)
             /\ UNCHANGED <<snap, closedIds, rows>>
  <2>1. SyncOutcome(cont) /\ UNCHANGED <<snap, closedIds, rows>>
    BY <1>2, SyncFacts
  <2>2. MinOf(nextId + 1, MaxPositions + 1) \in 1 .. (MaxPositions + 1)
    BY <1>0, FreshFacts
  <2> QED BY <1>0, <1>1, <2>1, <2>2 DEF SyncOutcome
<1>3. CASE StartSync \/ TickSync \/ ResyncAfterExit \/ FlattenSync
  BY <1>0, <1>2, <1>3 DEF StartSync, TickSync, ResyncAfterExit, FlattenSync
<1>4. CASE SaveOpen \/ SaveClosed
  BY <1>0, <1>1, <1>4 DEF SaveOpen, SaveClosed
<1>5. CASE SaveTrade
  BY <1>0, <1>1, <1>5 DEF SaveTrade
<1>6. CASE SaveEntryOrder
  <2>1. Signed(ord.side, ord.qty) \in Int
    BY OrderFacts, LotFacts DEF TypeOK
  <2>2. FreshId \in Ids \cup {0}
        /\ MinOf(nextId + 1, MaxPositions + 1) \in 1 .. (MaxPositions + 1)
    BY <1>0, FreshFacts
  <2>3. [net |-> Signed(ord.side, ord.qty), id |-> FreshId] \in Position
    BY <2>1, <2>2, PositionFacts
  <2> QED BY <1>0, <1>6, <2>2, <2>3 DEF SaveEntryOrder
<1>7. CASE SaveExitOrder
  BY <1>0, <1>1, <1>7 DEF SaveExitOrder
<1>8. CASE Boot \/ Exit \/ Raise \/ Crash
  BY <1>0, <1>1, <1>8 DEF Boot, Recovered, Exit, Raise, Crash, Forget, dbVars
<1>9. CASE UNCHANGED positionVars
  BY <1>0, <1>9 DEF positionVars
<1> QED
  BY <1>3, <1>4, <1>5, <1>6, <1>7, <1>8, <1>9, PositionFrame DEF TouchesPosition

\* The order being placed keeps its type (a fill never takes more than is left).
LEMMA OrderStep == TypeOK /\ [Next]_vars => ord' \in Order
<1> SUFFICES ASSUME TypeOK, [Next]_vars PROVE ord' \in Order
  OBVIOUS
<1>0. ord \in Order /\ local \in Position /\ exch \in Int
  BY DEF TypeOK, PositionsOK, ExchangeOK
<1>1. /\ ord.side \in Side /\ ord.qty \in Nat /\ ord.left \in Nat
      /\ \A n \in Nat : [ord EXCEPT !.qty = n] \in Order
      /\ \A n \in Nat : [ord EXCEPT !.left = n] \in Order
      /\ \A t \in OrderStatus : [ord EXCEPT !.status = t] \in Order
  BY <1>0, OrderFacts
<1>2. \A n \in Int : AbsLots(n) \in Nat /\ CloseSide(n) \in Side
  BY LotFacts
<1>3. \A n \in Int : ExitOrder(CloseSide(n), AbsLots(n)) \in Order
  BY <1>2, OrderFacts
<1>4. NoOrder \in Order
  BY OrderFacts
<1>5. CASE UNCHANGED ord
  BY <1>0, <1>5
<1>6. CASE StartSync \/ TickSync \/ ResyncAfterExit \/ FlattenSync
  BY <1>5, <1>6 DEF StartSync, TickSync, ResyncAfterExit, FlattenSync, Sync
<1>7. CASE Started \/ SaveOpen \/ SaveClosed \/ SaveTrade \/ DecideNothing
           \/ ProtectTP \/ ProtectSL \/ Operator
  BY <1>5, <1>7 DEF Started, SaveOpen, SaveClosed, SaveTrade, DecideNothing,
     ProtectTP, ProtectSL, Protect, Operator, Boot, StopRequested, SetTradingEnabled
<1>8. CASE DecideExit
  BY <1>0, <1>3, <1>8, PositionFacts DEF DecideExit
<1>9. ASSUME NEW s \in Side, NEW q \in 1 .. MaxLots, DecideEntry(s, q)
      PROVE  ord' \in Order
  BY <1>9, OrderFacts, LotsAssumption DEF DecideEntry
<1>10. CASE ExitCheck
  <2>1. PICK a \in {exch, 0} : \/ ord' = NoOrder
                               \/ ord' = [ord EXCEPT !.qty = MinOf(@, AbsLots(a))]
    BY <1>10 DEF ExitCheck
  <2>2. AbsLots(a) \in Nat
    BY <1>0, <1>2
  <2>3. MinOf(ord.qty, AbsLots(a)) \in Nat
    BY <1>1, <2>2, LotFacts
  <2> QED BY <1>1, <1>4, <2>1, <2>3
<1>11. CASE SendAccepted
  <2>1. [[ord EXCEPT !.qty = Sent] EXCEPT !.left = Sent] \in Order
    BY <1>0, SentFacts, OrderFacts
  <2>2. ord' = [[[ord EXCEPT !.qty = Sent] EXCEPT !.left = Sent] EXCEPT !.status = "NEW"]
    BY <1>11 DEF SendAccepted
  <2> QED BY <2>1, <2>2, OrderFacts DEF OrderStatus
<1>12. CASE SendRejected \/ PollFilled
  BY <1>1, <1>12 DEF SendRejected, PollFilled, OrderStatus
<1>13. CASE PollCancelled \/ PollsExhausted
  BY <1>1, <1>13 DEF PollCancelled, PollsExhausted
<1>14. CASE SaveEntryOrder \/ SaveExitOrder \/ Exit \/ Raise \/ Crash
  BY <1>4, <1>14 DEF SaveEntryOrder, SaveExitOrder, Exit, Raise, Crash, Forget
<1>15. CASE FlattenPick
  <2>1. \/ ord' = ExitOrder(CloseSide(local.net), AbsLots(local.net))
        \/ \E a \in {exch, 0} : ord' = ExitOrder(CloseSide(a), AbsLots(a))
        \/ UNCHANGED ord
    BY <1>15 DEF FlattenPick
  <2>2. local.net \in Int
    BY <1>0, PositionFacts
  <2> QED BY <1>0, <1>3, <2>1, <2>2
<1>16. ASSUME NEW k \in 1 .. MaxLots, FillAwaited(k) PROVE ord' \in Order
  <2>1. ord.left - k \in Nat
    BY <1>1, <1>16, LotsAssumption DEF FillAwaited
  <2> QED BY <1>1, <1>16, <2>1 DEF FillAwaited
<1>17. CASE Exchange
  BY <1>5, <1>16, <1>17 DEF Exchange, FillLateEntry, FillLateExit, ExpireLate,
     TriggerProtective, ClosedOutside, WindowPasses
<1>18. CASE UNCHANGED vars
  BY <1>5, <1>18 DEF vars
<1> QED
  BY <1>6, <1>7, <1>8, <1>9, <1>10, <1>11, <1>12, <1>13, <1>14, <1>15, <1>17, <1>18
     DEF Next, EngineStep, Failure

\* The duplicate window holds sides only.
LEMMA RecentStep == TypeOK /\ [Next]_vars => recent' \subseteq Side
<1> SUFFICES ASSUME TypeOK, [Next]_vars PROVE recent' \subseteq Side
  OBVIOUS
<1>0. recent \subseteq Side /\ ord.side \in Side /\ CloseSide(local.net) \in Side
  BY OrderFacts, PositionFacts, LotFacts DEF TypeOK, TablesOK, PositionsOK
<1> USE DEF dbVars
<1>1. CASE StartSync \/ TickSync \/ ResyncAfterExit \/ FlattenSync
  BY <1>0, <1>1 DEF StartSync, TickSync, ResyncAfterExit, FlattenSync, Sync
<1>2. CASE Started \/ SaveOpen \/ SaveClosed \/ SaveTrade \/ DecideNothing \/ DecideExit
           \/ \E s \in Side, q \in 1 .. MaxLots : DecideEntry(s, q)
  BY <1>0, <1>2 DEF Started, SaveOpen, SaveClosed, SaveTrade, DecideNothing,
     DecideExit, DecideEntry
<1>3. CASE ExitCheck \/ SendAccepted \/ SendRejected \/ PollFilled \/ PollCancelled
           \/ PollsExhausted
  BY <1>0, <1>3 DEF ExitCheck, SendAccepted, SendRejected, PollFilled,
     PollCancelled, PollsExhausted
<1>4. CASE SaveEntryOrder \/ SaveExitOrder \/ ProtectTP \/ ProtectSL
  BY <1>0, <1>4 DEF SaveEntryOrder, SaveExitOrder, ProtectTP, ProtectSL, Protect
<1>5. CASE FlattenPick \/ Exit \/ Operator \/ Raise \/ Crash
  BY <1>0, <1>5 DEF FlattenPick, Exit, Operator, Boot, StopRequested,
     SetTradingEnabled, Raise, Crash
<1>6. CASE Exchange \/ UNCHANGED vars
  BY <1>0, <1>6 DEF Exchange, FillAwaited, FillLateEntry, FillLateExit, ExpireLate,
     TriggerProtective, ClosedOutside, WindowPasses, vars
<1> QED
  BY <1>1, <1>2, <1>3, <1>4, <1>5, <1>6 DEF Next, EngineStep, Failure

\* Faults are counted up to the bound.
LEMMA FaultsStep == TypeOK /\ [Next]_vars => faults' \in 0 .. MaxFaults
<1> SUFFICES ASSUME TypeOK, [Next]_vars PROVE faults' \in 0 .. MaxFaults
  OBVIOUS
<1>0. faults \in 0 .. MaxFaults /\ exch \in Int
  BY DEF TypeOK, BoundsOK, ExchangeOK
<1>1. CASE StartSync \/ TickSync \/ ResyncAfterExit \/ FlattenSync
  BY <1>1, SyncFacts DEF StartSync, TickSync, ResyncAfterExit, FlattenSync
<1>2. CASE Started \/ SaveOpen \/ SaveClosed \/ SaveTrade \/ DecideNothing \/ DecideExit
           \/ \E s \in Side, q \in 1 .. MaxLots : DecideEntry(s, q)
  BY <1>0, <1>2 DEF Started, SaveOpen, SaveClosed, SaveTrade, DecideNothing,
     DecideExit, DecideEntry
<1>3. CASE ExitCheck
  BY <1>0, <1>3, AnswerFacts DEF ExitCheck
<1>4. CASE SendAccepted \/ SendRejected \/ PollFilled \/ PollCancelled
           \/ PollsExhausted
  BY <1>0, <1>4, BoundsAssumption DEF SendAccepted, SendRejected, PollFilled,
     PollCancelled, PollsExhausted
<1>5. CASE SaveEntryOrder \/ SaveExitOrder \/ ProtectTP \/ ProtectSL
  BY <1>0, <1>5 DEF SaveEntryOrder, SaveExitOrder, ProtectTP, ProtectSL, Protect
<1>6. CASE FlattenPick
  BY <1>0, <1>6, AnswerFacts DEF FlattenPick
<1>7. CASE Exit \/ Operator \/ Raise \/ Crash
  BY <1>0, <1>7, BoundsAssumption DEF Exit, Operator, Boot, StopRequested,
     SetTradingEnabled, Raise, Crash
<1>8. CASE Exchange \/ UNCHANGED vars
  BY <1>0, <1>8 DEF Exchange, FillAwaited, FillLateEntry, FillLateExit, ExpireLate,
     TriggerProtective, ClosedOutside, WindowPasses, vars
<1> QED
  BY <1>1, <1>2, <1>3, <1>4, <1>5, <1>6, <1>7, <1>8 DEF Next, EngineStep, Failure

\* The initial state is well typed.
LEMMA TypeOKInit == Init => TypeOK
<1> SUFFICES ASSUME Init PROVE TypeOK
  OBVIOUS
<1>1. ExchangeOK /\ ControlOK
  <2>1. ExchangeOK
    BY DEF Init, ExchangeOK
  <2>2. ControlOK
    BY DEF Init, ControlOK
  <2> QED BY <2>1, <2>2
<1>3. TablesOK /\ BoundsOK
  BY BoundsAssumption DEF Init, TablesOK, BoundsOK
<1>2. PositionsOK /\ ord \in Order
  BY PositionFacts, OrderFacts DEF Init, PositionsOK
<1> QED
  BY <1>1, <1>2, <1>3 DEF TypeOK

\* Every step keeps the types.
LEMMA TypeOKStep == TypeOK /\ [Next]_vars => TypeOK'
  BY ExchangeOKStep, ControlOKStep, PositionsOKStep, OrderStep, RecentStep,
     FaultsStep DEF TypeOK, TablesOK, BoundsOK

\* The variables of the engine, the exchange and the tables stay in their
\* ranges, for every lot size, bound and setting.
THEOREM TypeCorrect == Spec => []TypeOK
  BY TypeOKInit, TypeOKStep, PTL DEF Spec

-----------------------------------------------------------------------------
(* Control, Memory and Booking *)

\* Updating one field of an order leaves the others alone.
LEMMA OrderFields ==
  /\ \A o \in Order, n \in Nat :
       LET p == [o EXCEPT !.qty = n] IN
         p.purpose = o.purpose /\ p.side = o.side /\ p.qty = n /\ p.left = o.left
         /\ p.reduceOnly = o.reduceOnly /\ p.status = o.status
  /\ \A o \in Order, n \in Nat :
       LET p == [o EXCEPT !.left = n] IN
         p.purpose = o.purpose /\ p.side = o.side /\ p.qty = o.qty /\ p.left = n
         /\ p.reduceOnly = o.reduceOnly /\ p.status = o.status
  /\ \A o \in Order, t \in OrderStatus :
       LET p == [o EXCEPT !.status = t] IN
         p.purpose = o.purpose /\ p.side = o.side /\ p.qty = o.qty
         /\ p.left = o.left /\ p.reduceOnly = o.reduceOnly /\ p.status = t
  /\ \A s \in Side, q \in Nat :
       LET p == EntryOrder(s, q) IN
         p.purpose = "entry" /\ p.side = s /\ p.qty = q /\ p.left = 0 /\ ~p.reduceOnly
  /\ \A s \in Side, q \in Nat :
       LET p == ExitOrder(s, q) IN
         p.purpose = "exit" /\ p.side = s /\ p.qty = q /\ p.left = 0 /\ p.reduceOnly
  BY DEF Order, OrderStatus, EntryOrder, ExitOrder

\* The steps of place_order and of the exchange keep the purpose of the order.
KeepsOrder == /\ ord'.purpose = ord.purpose /\ ord'.reduceOnly = ord.reduceOnly
              /\ ord.qty > 0 => ord'.qty > 0
              /\ ord'.side = ord.side

\* The order the exchange takes is the one that was placed, for the rounded quantity.
LEMMA AcceptedOrder ==
  ASSUME ord \in Order, SendAccepted
  PROVE  KeepsOrder /\ ord'.qty = Sent /\ ord'.left = Sent
<1>1. Sent \in Nat /\ (ord.qty > 0 => Sent > 0) /\ "NEW" \in OrderStatus
  BY SentFacts DEF OrderStatus
<1> DEFINE p == [ord EXCEPT !.qty = Sent]
           q == [p EXCEPT !.left = Sent]
           o == [q EXCEPT !.status = "NEW"]
<1>2. ord' = o
  BY DEF SendAccepted
<1>3. /\ p \in Order /\ p.purpose = ord.purpose /\ p.side = ord.side /\ p.qty = Sent
      /\ p.reduceOnly = ord.reduceOnly
  BY <1>1, OrderFacts, OrderFields
<1> HIDE DEF p
<1>4. /\ q \in Order /\ q.purpose = p.purpose /\ q.side = p.side /\ q.qty = p.qty
      /\ q.left = Sent /\ q.reduceOnly = p.reduceOnly
  BY <1>1, <1>3, OrderFacts, OrderFields
<1> HIDE DEF q
<1>5. /\ o.purpose = q.purpose /\ o.side = q.side /\ o.qty = q.qty
      /\ o.left = q.left /\ o.reduceOnly = q.reduceOnly
  BY <1>1, <1>4, OrderFields
<1> HIDE DEF o
<1> QED BY <1>1, <1>2, <1>3, <1>4, <1>5 DEF KeepsOrder

\* How the phases of an order follow pc.
LEMMA OrderProgress ==
  ASSUME TypeOK,
         \/ SendAccepted \/ SendRejected \/ PollFilled \/ PollCancelled
         \/ PollsExhausted \/ \E k \in 1 .. MaxLots : FillAwaited(k)
  PROVE  /\ KeepsOrder
         /\ pc \in {"send", "await"} /\ pc' \in {"await", "saveOrder"}
         /\ UNCHANGED stopping
<1>0. ord \in Order /\ ord.left \in Nat /\ ord.qty \in Nat
  BY OrderFacts DEF TypeOK
<1>1. CASE SendAccepted
  BY <1>0, <1>1, AcceptedOrder DEF SendAccepted
<1>2. CASE SendRejected \/ PollFilled
  <2>1. \E t \in OrderStatus : ord' = [ord EXCEPT !.status = t]
    BY <1>2 DEF SendRejected, PollFilled, OrderStatus
  <2>2. KeepsOrder
    BY <1>0, <2>1, OrderFields DEF KeepsOrder
  <2> QED BY <1>2, <2>2 DEF SendRejected, PollFilled
<1>3. CASE PollCancelled \/ PollsExhausted
  <2>1. ord' = [ord EXCEPT !.left = 0]
    BY <1>3 DEF PollCancelled, PollsExhausted
  <2>2. KeepsOrder
    BY <1>0, <2>1, OrderFields DEF KeepsOrder
  <2> QED BY <1>3, <2>2 DEF PollCancelled, PollsExhausted
<1>4. ASSUME NEW k \in 1 .. MaxLots, FillAwaited(k)
      PROVE  KeepsOrder /\ pc = "await" /\ UNCHANGED <<pc, stopping>>
  <2>1. ord.left - k \in Nat /\ ord' = [ord EXCEPT !.left = ord.left - k]
    BY <1>0, <1>4, LotsAssumption DEF FillAwaited
  <2>2. KeepsOrder
    BY <1>0, <2>1, OrderFields DEF KeepsOrder
  <2> QED BY <1>4, <2>2 DEF FillAwaited, engineVars
<1> QED BY <1>1, <1>2, <1>3, <1>4

\* Control is inductive: orders, closings and continuations fit the pc.
LEMMA ControlStep == TypeOK /\ Control /\ [Next]_vars => Control'
<1> SUFFICES ASSUME TypeOK, Control, [Next]_vars PROVE Control'
  OBVIOUS
<1>0. /\ ControlOK /\ ord \in Order /\ local.net \in Int /\ exch \in Int
      /\ ord.qty \in Nat
  BY PositionFacts, OrderFacts DEF TypeOK, PositionsOK, ExchangeOK
<1>1. \A n \in Int : n # 0 =>
        LET o == ExitOrder(CloseSide(n), AbsLots(n)) IN
          o.purpose = "exit" /\ o.reduceOnly /\ o.qty > 0
  <2> TAKE n \in Int
  <2> HAVE n # 0
  <2>1. CloseSide(n) \in Side /\ AbsLots(n) \in Nat /\ AbsLots(n) > 0
    BY LotFacts
  <2> QED BY <2>1, OrderFields
<1>2. \A n \in Int : ~IsDust(n) => n # 0
  BY LotsAssumption DEF IsDust, AbsLots
<1> USE DEF WithOrder, Saves
<1>3. ASSUME NEW at, NEW cont \in {"started", "decide", Resume, "flattenPick"},
             Sync(at, cont), at = "boot" => cont = "started",
             at = "loop" => cont = "decide", at = "resync" => cont = Resume,
             at = "flatten" => cont = "flattenPick",
             at \in {"boot", "loop", "resync", "flatten"}
      PROVE  Control'
  <2>1. pc = at /\ SyncOutcome(cont) /\ UNCHANGED <<stopping, ord>>
    BY <1>3, SyncFacts
  <2>2. (pc' \in {"saveOpen", "saveClosed"} /\ next' = cont) \/ pc' = cont
    BY <2>1 DEF SyncOutcome
  <2> QED BY <1>0, <1>3, <2>1, <2>2 DEF Control, Resume, ControlOK
<1>4. CASE StartSync \/ TickSync \/ ResyncAfterExit \/ FlattenSync
  BY <1>3, <1>4 DEF StartSync, TickSync, ResyncAfterExit, FlattenSync
<1>5. CASE SaveOpen \/ SaveTrade
  BY <1>0, <1>5 DEF SaveOpen, SaveTrade, Control, ControlOK
<1>6. CASE SaveClosed \/ Started \/ DecideNothing
  BY <1>0, <1>6 DEF SaveClosed, Started, DecideNothing, Control, ControlOK
<1>7. CASE DecideExit
  BY <1>0, <1>1, <1>7 DEF DecideExit, Control
<1>8. ASSUME NEW s \in Side, NEW q \in 1 .. MaxLots, DecideEntry(s, q) PROVE Control'
  <2>1. ord'.purpose = "entry" /\ ~ord'.reduceOnly /\ ord'.qty > 0
    BY <1>8, OrderFields, LotsAssumption DEF DecideEntry
  <2> QED BY <1>8, <2>1 DEF DecideEntry, Control
<1>9. CASE ExitCheck
  <2>1. PICK a \in {exch, 0} :
           \/ pc' = "resync"
           \/ /\ a # 0 /\ pc' = "send"
              /\ ord' = [ord EXCEPT !.qty = MinOf(ord.qty, AbsLots(a))]
    BY <1>9 DEF ExitCheck
  <2>2. CASE pc' = "resync"
    BY <1>9, <2>2 DEF ExitCheck, Control
  <2>3. CASE pc' # "resync"
    <3>0. a \in Int /\ a # 0
      BY <1>0, <2>1, <2>3
    <3>1. AbsLots(a) \in Nat /\ AbsLots(a) > 0
      BY <3>0, LotFacts
    <3>2. ord.qty > 0
      BY <1>9 DEF ExitCheck, Control
    <3>3. MinOf(ord.qty, AbsLots(a)) \in Nat /\ MinOf(ord.qty, AbsLots(a)) > 0
      BY <1>0, <3>1, <3>2, LotFacts
    <3>4. \E m \in Nat : m > 0 /\ ord' = [ord EXCEPT !.qty = m]
      BY <2>1, <2>3, <3>3
    <3>5. ord'.purpose = ord.purpose /\ ord'.reduceOnly = ord.reduceOnly /\ ord'.qty > 0
      BY <1>0, <3>4, OrderFields
    <3> QED BY <1>9, <2>1, <2>3, <3>5 DEF ExitCheck, Control
  <2> QED BY <2>2, <2>3
<1>10. CASE \/ SendAccepted \/ SendRejected \/ PollFilled \/ PollCancelled
            \/ PollsExhausted \/ \E k \in 1 .. MaxLots : FillAwaited(k)
  <2>1. /\ KeepsOrder /\ UNCHANGED stopping
        /\ pc \in {"send", "await"} /\ pc' \in {"await", "saveOrder"}
    BY <1>10, OrderProgress
  <2> QED BY <2>1 DEF Control, KeepsOrder
<1>11. CASE SaveEntryOrder \/ SaveExitOrder
  BY <1>11 DEF SaveEntryOrder, SaveExitOrder, Control, Resume
<1>12. CASE ProtectTP \/ ProtectSL \/ Exit
  BY <1>12 DEF ProtectTP, ProtectSL, Protect, Exit, Forget, Control
<1>13. CASE FlattenPick
  <2>1. \/ pc' = "exitCheck" /\ ord'.purpose = "exit" /\ ord'.reduceOnly /\ ord'.qty > 0
        \/ pc' = "stopped"
    <3>1. CASE local.net # 0
      BY <1>0, <1>1, <1>13, <3>1 DEF FlattenPick
    <3>2. CASE local.net = 0
      <4>1. PICK a \in {exch, 0} :
              \/ ~IsDust(a) /\ pc' = "exitCheck"
                 /\ ord' = ExitOrder(CloseSide(a), AbsLots(a))
              \/ pc' = "stopped"
        BY <1>13, <3>2 DEF FlattenPick
      <4> QED BY <1>0, <1>1, <1>2, <4>1
    <3> QED BY <3>1, <3>2
  <2> QED BY <1>13, <2>1 DEF FlattenPick, Control
<1>14. CASE Operator
  BY <1>14 DEF Operator, Boot, StopRequested, SetTradingEnabled, Control
<1>15. CASE Raise \/ Crash
  BY <1>15 DEF Raise, Crash, Forget, Control
<1>16. CASE UNCHANGED <<pc, next, stopping, ord>>
  BY <1>16 DEF Control
<1>17. CASE Exchange
  BY <1>10, <1>16, <1>17 DEF Exchange, FillLateEntry, FillLateExit, ExpireLate,
     TriggerProtective, ClosedOutside, WindowPasses, engineVars
<1>18. CASE UNCHANGED vars
  BY <1>16, <1>18 DEF vars
<1> QED
  BY <1>4, <1>5, <1>6, <1>7, <1>8, <1>9, <1>10, <1>11, <1>12, <1>13, <1>14, <1>15,
     <1>17, <1>18 DEF Next, EngineStep, Failure

\* Memory is inductive: the tables lag behind memory only on the way to a commit.
LEMMA MemoryStep == TypeOK /\ Control /\ Memory /\ [Next]_vars => Memory'
<1> SUFFICES ASSUME TypeOK, Control, Memory, [Next]_vars PROVE Memory'
  OBVIOUS
<1>0. ControlOK /\ ord \in Order
  BY DEF TypeOK
<1>1. NoPosition.net = 0
  BY PositionFacts
<1> USE DEF Saves
<1>2. ASSUME NEW at, NEW cont, Sync(at, cont), at \notin Saves \cup {"down"},
             cont \notin Saves
      PROVE  Memory'
  <2>1. pc = at /\ SyncOutcome(cont) /\ UNCHANGED <<stopping, snap>>
    BY <1>2, SyncFacts
  <2> QED BY <1>2, <2>1 DEF SyncOutcome, Memory
<1>3. CASE StartSync \/ TickSync \/ ResyncAfterExit \/ FlattenSync
  BY <1>2, <1>3 DEF StartSync, TickSync, ResyncAfterExit, FlattenSync, Resume
<1>4. CASE SaveOpen
  BY <1>0, <1>4 DEF SaveOpen, Memory, ControlOK
<1>5. CASE SaveClosed
  BY <1>5 DEF SaveClosed, Memory
<1>6. CASE SaveTrade
  BY <1>0, <1>6 DEF SaveTrade, Memory, ControlOK
<1>7. CASE SaveEntryOrder
  <2>1. ~stopping /\ ord.side \in Side /\ ord.qty \in Nat /\ ord.qty > 0
    BY <1>0, <1>7, OrderFacts DEF SaveEntryOrder, Control, WithOrder
  <2>2. Signed(ord.side, ord.qty) # 0
    BY <2>1 DEF Signed
  <2>3. \/ local'.net # 0 /\ pc' = "saveOpen"
        \/ pc' = "loop" /\ local' = local
    BY <1>7, <2>2 DEF SaveEntryOrder
  <2> QED BY <1>7, <2>1, <2>3 DEF SaveEntryOrder, Memory
<1>8. CASE SaveExitOrder
  BY <1>8 DEF SaveExitOrder, Memory, Resume
<1>9. CASE Boot
  BY <1>9 DEF Boot, Recovered, Memory, dbVars
<1>10. CASE Exit \/ Raise \/ Crash
  BY <1>10 DEF Exit, Raise, Crash, Forget, Memory, dbVars
<1>11. CASE UNCHANGED positionVars /\ UNCHANGED <<pc, stopping>>
  BY <1>11 DEF positionVars, Memory
<1>12. CASE StopRequested
  BY <1>12 DEF StopRequested, Memory
<1>13. ASSUME UNCHANGED positionVars, UNCHANGED stopping, pc \notin Saves \cup {"down"},
              pc' \notin Saves
       PROVE  Memory'
  BY <1>13 DEF positionVars, Memory
<1>14. CASE Started \/ DecideNothing \/ DecideExit
            \/ \E s \in Side, q \in 1 .. MaxLots : DecideEntry(s, q)
  BY <1>13, <1>14 DEF Started, DecideNothing, DecideExit, DecideEntry, positionVars,
     dbVars
<1>15. CASE ExitCheck \/ SendAccepted \/ SendRejected \/ PollFilled \/ PollCancelled
            \/ PollsExhausted
  BY <1>13, <1>15 DEF ExitCheck, SendAccepted, SendRejected, PollFilled,
     PollCancelled, PollsExhausted, positionVars, dbVars
<1>16. CASE ProtectTP \/ ProtectSL \/ FlattenPick
            \/ \E b \in BOOLEAN : SetTradingEnabled(b)
  BY <1>13, <1>16 DEF ProtectTP, ProtectSL, Protect, FlattenPick, SetTradingEnabled,
     positionVars, dbVars
<1>17. CASE Exchange \/ UNCHANGED vars
  BY <1>11, <1>17 DEF Exchange, FillAwaited, FillLateEntry, FillLateExit, ExpireLate,
     TriggerProtective, ClosedOutside, WindowPasses, engineVars, vars, positionVars,
     dbVars
<1> QED
  BY <1>3, <1>4, <1>5, <1>6, <1>7, <1>8, <1>9, <1>10, <1>12, <1>14, <1>15, <1>16,
     <1>17 DEF Next, EngineStep, Operator, Failure

\* Booking is inductive: a row is written only for the position being closed.
LEMMA BookingStep == TypeOK /\ Memory /\ Booking /\ [Next]_vars => Booking'
<1> SUFFICES ASSUME TypeOK, Memory, Booking, [Next]_vars PROVE Booking'
  OBVIOUS
<1>0. /\ ControlOK /\ rows \in [Ids -> Nat] /\ nextId \in Nat /\ nextId > 0
      /\ local.id \in Ids \cup {0} /\ snap.id \in Ids \cup {0}
      /\ closing.id \in Ids \cup {0} /\ Ids \subseteq Nat
  BY PositionFacts, BoundsAssumption DEF TypeOK, TablesOK, BoundsOK, PositionsOK, Ids
<1>b. local.id \in Nat /\ snap.id \in Nat /\ closing.id \in Nat
  BY <1>0 DEF Ids
<1>c. ASSUME NEW n \in Nat, n >= nextId
      PROVE  local.id < n /\ snap.id < n /\ closing.id < n
  BY <1>0, <1>b, <1>c DEF Booking
<1>1. NoPosition.id = 0 /\ 0 \notin Ids
  BY PositionFacts DEF Ids
<1>2. LET n == MinOf(nextId + 1, MaxPositions + 1) IN
        n \in Nat /\ n >= nextId /\ FreshId < n /\ FreshId \in Ids \cup {0}
        /\ Unbooked(FreshId)
  <2>1. LET n == MinOf(nextId + 1, MaxPositions + 1) IN
          n \in Nat /\ n >= nextId /\ FreshId < n /\ FreshId \in Ids \cup {0}
          /\ (FreshId # 0 => FreshId = nextId)
    BY FreshFacts, BoundsAssumption DEF TypeOK, BoundsOK
  <2>2. Unbooked(FreshId)
    BY <1>0, <1>1, <2>1 DEF Unbooked, Booking
  <2> QED BY <2>1, <2>2
<1> USE DEF Saves
<1>3. ASSUME NEW at, NEW cont, Sync(at, cont), cont \notin Saves PROVE Booking'
  <2>1. SyncOutcome(cont) /\ UNCHANGED <<snap, rows>>
    BY <1>3, SyncFacts
  <2> DEFINE n == MinOf(nextId + 1, MaxPositions + 1)
  <2>2. CASE local' = NoPosition /\ closing' = local /\ nextId' = nextId
    BY <1>0, <1>1, <2>1, <2>2 DEF Booking, Unbooked, BookedAtMostOnce
  <2>3. CASE /\ closing' = closing /\ local'.id = FreshId
             /\ nextId' = n /\ pc' = "saveOpen"
    <3>1. n \in Nat /\ n >= nextId /\ FreshId < n /\ Unbooked(FreshId)
      BY <1>2
    <3> HIDE DEF n
    <3>2. local'.id < nextId' /\ snap'.id < nextId' /\ closing'.id < nextId'
      BY <1>c, <2>1, <2>3, <3>1
    <3> QED BY <1>0, <2>1, <2>3, <3>1, <3>2 DEF Booking, Unbooked, BookedAtMostOnce
  <2>4. CASE /\ closing' = closing /\ local'.id = local.id /\ nextId' = nextId
             /\ pc' = "saveOpen"
    BY <2>1, <2>4 DEF Booking, Unbooked, BookedAtMostOnce
  <2>5. CASE local' = local /\ closing' = closing /\ nextId' = nextId /\ pc' = cont
    BY <1>3, <2>1, <2>5 DEF Booking, Unbooked, BookedAtMostOnce
  <2> QED BY <2>1, <2>2, <2>3, <2>4, <2>5 DEF SyncOutcome
<1>4. CASE StartSync \/ TickSync \/ ResyncAfterExit \/ FlattenSync
  BY <1>3, <1>4 DEF StartSync, TickSync, ResyncAfterExit, FlattenSync, Resume
<1>5. CASE SaveOpen
  BY <1>0, <1>5 DEF SaveOpen, Booking, Unbooked, BookedAtMostOnce, ControlOK
<1>6. CASE SaveClosed
  BY <1>0, <1>1, <1>6 DEF SaveClosed, Booking, Unbooked, BookedAtMostOnce
<1>7. CASE SaveTrade
  <2>1. /\ local.id = 0 /\ snap.id = 0 /\ closing.id < nextId /\ Unbooked(closing.id)
        /\ pc' \notin Saves /\ closing'.id = 0
        /\ UNCHANGED <<local, snap, nextId>>
    BY <1>0, <1>1, <1>7 DEF SaveTrade, Memory, Booking, ControlOK
  <2>2. rows' = IF closing.id \in Ids THEN [rows EXCEPT ![closing.id] = @ + 1]
                                      ELSE rows
    BY <1>7 DEF SaveTrade
  <2>3. \A i \in Ids : rows'[i] = IF i = closing.id THEN 1 ELSE rows[i]
    BY <1>0, <2>1, <2>2 DEF Unbooked
  <2> QED BY <1>0, <1>1, <2>1, <2>3 DEF Booking, Unbooked, BookedAtMostOnce
<1>8. CASE SaveEntryOrder
  <2>1. \/ UNCHANGED <<local, nextId>>
        \/ local' = [net |-> Signed(ord.side, ord.qty), id |-> FreshId]
           /\ nextId' = MinOf(nextId + 1, MaxPositions + 1)
    BY <1>8 DEF SaveEntryOrder
  <2>2. UNCHANGED <<snap, closing, rows>> /\ pc' \notin {"saveClosed", "saveTrade"}
    BY <1>8 DEF SaveEntryOrder
  <2>3. CASE UNCHANGED <<local, nextId>>
    BY <2>2, <2>3 DEF Booking, Unbooked, BookedAtMostOnce
  <2> DEFINE n == MinOf(nextId + 1, MaxPositions + 1)
  <2>4. CASE local'.id = FreshId /\ nextId' = n
    <3>1. n \in Nat /\ n >= nextId /\ FreshId < n /\ Unbooked(FreshId)
      BY <1>2
    <3> HIDE DEF n
    <3>2. local'.id < nextId' /\ snap'.id < nextId' /\ closing'.id < nextId'
      BY <1>c, <2>2, <2>4, <3>1
    <3> QED BY <1>0, <2>2, <2>4, <3>1, <3>2 DEF Booking, Unbooked, BookedAtMostOnce
  <2> QED BY <2>1, <2>3, <2>4
<1>9. CASE SaveExitOrder
  BY <1>0, <1>1, <1>9
     DEF SaveExitOrder, Booking, Unbooked, BookedAtMostOnce, Resume
<1>10. CASE Boot \/ Exit \/ Raise \/ Crash
  BY <1>0, <1>1, <1>10
     DEF Boot, Recovered, Exit, Raise, Crash, Forget, dbVars, Booking, Unbooked, BookedAtMostOnce
<1>11. CASE UNCHANGED positionVars /\ (pc' = pc \/ pc' \notin Saves)
  BY <1>11 DEF positionVars, Booking, Unbooked, BookedAtMostOnce
<1> QED
  BY <1>4, <1>5, <1>6, <1>7, <1>8, <1>9, <1>10, <1>11, PositionFrame
     DEF TouchesPosition

\* The invariants hold initially.
LEMMA SafeInit == Init => Safe
<1> SUFFICES ASSUME Init PROVE Safe
  OBVIOUS
<1>1. TypeOK
  BY TypeOKInit
<1>2. Control /\ Memory
  BY DEF Init, Control, Memory, WithOrder, Saves
<1>3. Booking
  BY PositionFacts DEF Init, Booking, Unbooked, BookedAtMostOnce, Ids
<1> QED BY <1>1, <1>2, <1>3 DEF Safe

\* Safe is an invariant of the engine, whatever fails.
THEOREM Safety == Spec => []Safe
<1>1. Safe /\ [Next]_vars => Safe'
  BY TypeOKStep, ControlStep, MemoryStep, BookingStep DEF Safe
<1> QED BY <1>1, SafeInit, PTL DEF Spec

\* Between two ticks memory and tables agree on the open position.
THEOREM MemoryIsDurable == Spec => []MemoryMatchesTables
<1>1. Safe => MemoryMatchesTables
  BY DEF Safe, TypeOK, Control, Memory, MemoryMatchesTables, WithOrder, Saves
<1> QED BY <1>1, Safety, PTL

\* No sequence of failures, restarts and resynchronisations books a position twice.
THEOREM NoDoubleBooking == Spec => []BookedAtMostOnce
<1>1. Safe => BookedAtMostOnce
  BY DEF Safe, Booking
<1> QED BY <1>1, Safety, PTL

-----------------------------------------------------------------------------
(* Exposure *)

\* The position seen from every side shrinks, or is short from there.
Lessens == \A s \in Side : \/ Signed(s, exch)' <= Signed(s, exch)
                           \/ Signed(s, exch)' <= 0

\* A fill of side t moves the position towards t.
LEMMA FillMoves ==
  ASSUME exch \in Int, NEW t \in Side, NEW k \in Nat, exch' = exch + Signed(t, k)
  PROVE  \A s \in Side :
           Signed(s, exch)' = IF s = t THEN Signed(s, exch) + k
                                       ELSE Signed(s, exch) - k
  BY DEF Signed, Side

\* A reduce-only fill never takes the position across zero.
LEMMA ReduceMoves ==
  ASSUME exch \in Int, NEW t \in Side, NEW k \in Nat, exch' = exch + Signed(t, k),
         k <= Reducible(t)
  PROVE  Lessens
  BY DEF Signed, Side, Reducible, AbsLots, Lessens

\* An unchanged position is no further from zero.
LEMMA StaysPut == ASSUME exch \in Int, exch' = exch PROVE Lessens
  BY DEF Signed, Side, Lessens

\* The three things a step can do to exchange and orders under way.
Shrinks == Lessens /\ \A s \in Side : EntryInFlight(s)' <= EntryInFlight(s)
Fills(t, k) ==
  /\ exch' = exch + Signed(t, k)
  /\ EntryInFlight(t)' = EntryInFlight(t) - k
  /\ \A s \in Side \ {t} : EntryInFlight(s)' = EntryInFlight(s)
Sends ==
  /\ pc = "send" /\ ord.purpose = "entry" /\ exch' = exch
  /\ \A s \in Side :
       EntryInFlight(s)' = IF s = ord.side THEN entryOpen[s] + ord.qty
                                          ELSE EntryInFlight(s)

\* Entries in flight are counted in lots.
LEMMA InFlightType == TypeOK => \A s \in Side : EntryInFlight(s) \in Nat
  BY OrderFacts DEF TypeOK, ExchangeOK, EntryInFlight

\* Giving up on the awaited order moves what is left of it to the open entries.
LEMMA AbandonShrinks ==
  ASSUME TypeOK, Control, pc = "await", Abandon,
         pc' # "await" \/ ord'.left = 0
  PROVE  Shrinks
<1>0. /\ entryOpen \in [Side -> Nat] /\ exch \in Int /\ ord.left \in Nat
      /\ ord.side \in Side /\ (ord.reduceOnly <=> ord.purpose = "exit")
      /\ ord.purpose \in {"entry", "exit"}
  BY OrderFacts DEF TypeOK, ExchangeOK, Control, WithOrder
<1>1. Lessens
  BY <1>0, StaysPut DEF Abandon
<1>2. ASSUME NEW s \in Side PROVE EntryInFlight(s)' <= EntryInFlight(s)
  <2>1. entryOpen'[s] = IF s = ord.side /\ ~ord.reduceOnly THEN entryOpen[s] + ord.left
                                                          ELSE entryOpen[s]
    BY <1>0 DEF Abandon
  <2>2. EntryInFlight(s)' = entryOpen'[s]
    <3>1. entryOpen'[s] \in Nat
      BY <1>0, <2>1
    <3> QED BY <3>1 DEF EntryInFlight
  <2> QED BY <1>0, <2>1, <2>2 DEF EntryInFlight
<1> QED BY <1>1, <1>2 DEF Shrinks

\* Nothing but the exchange or a lost order touches the entries under way.
LEMMA QuietShrinks ==
  ASSUME TypeOK, UNCHANGED <<exch, entryOpen>>,
         pc' # "await" \/ ord'.purpose # "entry" \/ UNCHANGED <<pc, ord>>
  PROVE  Shrinks
<1>0. entryOpen \in [Side -> Nat] /\ exch \in Int /\ ord.left \in Nat
  BY OrderFacts DEF TypeOK, ExchangeOK
<1>1. Lessens
  BY <1>0, StaysPut
<1>2. ASSUME NEW s \in Side PROVE EntryInFlight(s)' <= EntryInFlight(s)
  BY <1>0 DEF EntryInFlight
<1> QED BY <1>1, <1>2 DEF Shrinks

\* The same with the position changed by a reduce-only order.
LEMMA ReduceShrinks ==
  ASSUME TypeOK, Lessens, UNCHANGED <<entryOpen, pc, ord>>
  PROVE  Shrinks
<1>0. entryOpen \in [Side -> Nat] /\ ord.left \in Nat
  BY OrderFacts DEF TypeOK, ExchangeOK
<1> QED BY <1>0 DEF EntryInFlight, Shrinks

\* Every step adds to the position only what it takes from the entries in flight.
LEMMA ExchangeMoves ==
  ASSUME TypeOK, Control, [Next]_vars
  PROVE  \/ Shrinks \/ Sends
         \/ \E t \in Side, k \in 1 .. MaxLots : Fills(t, k)
<1> DEFINE Goal == \/ Shrinks \/ Sends
                   \/ \E t \in Side, k \in 1 .. MaxLots : Fills(t, k)
<1>0. /\ exch \in Int /\ entryOpen \in [Side -> Nat] /\ ord \in Order
      /\ ord.side \in Side /\ ord.left \in Nat /\ ord.qty \in Nat /\ MaxLots \in Nat
  BY OrderFacts, LotsAssumption DEF TypeOK, ExchangeOK
<1>1. ASSUME UNCHANGED <<exch, entryOpen>>, pc' # "await" PROVE Goal
  BY <1>1, QuietShrinks
<1>2. CASE StartSync \/ TickSync \/ ResyncAfterExit \/ FlattenSync
  <2>1. ASSUME NEW at, NEW cont \in {"started", "decide", Resume, "flattenPick"},
               Sync(at, cont)
        PROVE  Goal
    <3>1. SyncOutcome(cont) /\ UNCHANGED <<exch, entryOpen>>
      BY <2>1, SyncFacts
    <3>2. pc' # "await"
      BY <3>1 DEF SyncOutcome, Resume
    <3> QED BY <1>1, <3>1, <3>2
  <2> QED BY <1>2, <2>1 DEF StartSync, TickSync, ResyncAfterExit, FlattenSync
<1>3. CASE Started \/ DecideNothing \/ DecideExit
           \/ \E s \in Side, q \in 1 .. MaxLots : DecideEntry(s, q)
  BY <1>1, <1>3 DEF Started, DecideNothing, DecideExit, DecideEntry, exchVars
<1>4. CASE SaveOpen \/ SaveClosed \/ SaveTrade
  <2>1. ControlOK
    BY DEF TypeOK
  <2> QED BY <1>1, <1>4, <2>1 DEF SaveOpen, SaveClosed, SaveTrade, exchVars, ControlOK
<1>5. CASE ExitCheck \/ SendRejected \/ PollFilled \/ PollCancelled
  BY <1>1, <1>5 DEF ExitCheck, SendRejected, PollFilled, PollCancelled, exchVars
<1>6. CASE SendAccepted
  <2>1. KeepsOrder /\ pc = "send" /\ pc' = "await" /\ UNCHANGED exchVars
    BY <1>6, OrderProgress DEF SendAccepted
  <2>2. ord'.left = Sent /\ (ord.purpose = "entry" => Sent = ord.qty)
    BY <1>0, <1>6, AcceptedOrder, SentFacts
  <2>3. CASE ord.purpose = "entry"
    <3>1. \A s \in Side :
            EntryInFlight(s)' = IF s = ord.side THEN entryOpen[s] + ord.qty
                                               ELSE EntryInFlight(s)
      BY <1>0, <2>1, <2>2, <2>3 DEF EntryInFlight, KeepsOrder, exchVars
    <3> QED BY <2>1, <2>3, <3>1 DEF Sends, exchVars
  <2>4. CASE ord.purpose # "entry"
    BY <2>1, <2>4, QuietShrinks DEF KeepsOrder, exchVars
  <2> QED BY <2>3, <2>4
<1>7. CASE PollsExhausted
  <2>1. ord'.left = 0
    BY <1>0, <1>7, OrderFields DEF PollsExhausted
  <2> QED BY <1>7, <2>1, AbandonShrinks DEF PollsExhausted
<1>8. CASE SaveEntryOrder \/ SaveExitOrder
  BY <1>1, <1>8 DEF SaveEntryOrder, SaveExitOrder, exchVars, Resume
<1>9. CASE ProtectTP \/ ProtectSL \/ FlattenPick \/ Exit
  BY <1>1, <1>9 DEF ProtectTP, ProtectSL, Protect, FlattenPick, Exit, Forget, exchVars
<1>10. CASE Operator
  <2>1. CASE Boot \/ StopRequested
    BY <1>1, <2>1 DEF Boot, StopRequested, exchVars
  <2>2. ASSUME NEW b \in BOOLEAN, SetTradingEnabled(b) PROVE Goal
    BY <2>2, QuietShrinks DEF SetTradingEnabled, exchVars
  <2> QED BY <1>10, <2>1, <2>2 DEF Operator
<1>11. CASE Raise
  <2>1. pc' # "await"
    BY <1>11 DEF Raise, Forget
  <2>2. CASE pc = "await" /\ Abandon
    BY <2>1, <2>2, AbandonShrinks
  <2>3. CASE UNCHANGED exchVars
    BY <1>1, <2>1, <2>3 DEF exchVars
  <2>4. CASE /\ pc = "send" /\ exch' = exch
             /\ entryOpen' = [entryOpen EXCEPT ![ord.side] =
                                @ + (IF ord.reduceOnly THEN 0 ELSE ord.qty)]
    <3>0. ord.purpose \in {"entry", "exit"} /\ (ord.reduceOnly <=> ord.purpose = "exit")
      BY <2>4 DEF Control, WithOrder
    <3>1. CASE ord.purpose = "entry"
      <4>1. \A s \in Side : entryOpen'[s] = IF s = ord.side THEN entryOpen[s] + ord.qty
                                                             ELSE entryOpen[s]
        BY <1>0, <2>4, <3>0, <3>1
      <4>2. \A s \in Side :
              EntryInFlight(s)' = IF s = ord.side THEN entryOpen[s] + ord.qty
                                                 ELSE EntryInFlight(s)
        BY <1>0, <2>1, <2>4, <4>1 DEF EntryInFlight
      <4> QED BY <2>4, <3>1, <4>2 DEF Sends
    <3>2. CASE ord.purpose = "exit"
      <4>1. entryOpen' = entryOpen
        BY <1>0, <2>4, <3>0, <3>2
      <4> QED BY <1>1, <2>1, <2>4, <4>1
    <3> QED BY <3>0, <3>1, <3>2
  <2> QED BY <1>11, <2>2, <2>3, <2>4 DEF Raise
<1>12. CASE Crash
  <2>1. pc' # "await"
    BY <1>12 DEF Crash, Forget
  <2>2. CASE pc = "await" /\ Abandon
    BY <2>1, <2>2, AbandonShrinks
  <2>3. CASE UNCHANGED exchVars
    BY <1>1, <2>1, <2>3 DEF exchVars
  <2> QED BY <1>12, <2>2, <2>3 DEF Crash
<1>13. ASSUME NEW k \in 1 .. MaxLots, FillAwaited(k) PROVE Goal
  <2>1. KeepsOrder /\ pc = "await" /\ pc' = "await" /\ UNCHANGED entryOpen
    BY <1>13, OrderProgress DEF FillAwaited, engineVars
  <2>2. ord.left - k \in Nat /\ ord' = [ord EXCEPT !.left = ord.left - k]
    BY <1>0, <1>13 DEF FillAwaited
  <2>3. ord'.left = ord.left - k
    BY <1>0, <2>2, OrderFields
  <2>4. ord.purpose \in {"entry", "exit"} /\ (ord.reduceOnly <=> ord.purpose = "exit")
    BY <2>1 DEF Control, WithOrder
  <2>5. CASE ord.purpose = "entry"
    <3>1. PICK t \in Side : t = ord.side
      BY <1>0
    <3>2. EntryInFlight(t)' = EntryInFlight(t) - k
      BY <1>0, <2>1, <2>3, <2>5, <3>1 DEF EntryInFlight, KeepsOrder
    <3>3. \A s \in Side \ {t} : EntryInFlight(s)' = EntryInFlight(s)
      BY <1>0, <2>1, <2>5, <3>1 DEF EntryInFlight, KeepsOrder
    <3>4. Fills(t, k)
      BY <1>13, <3>1, <3>2, <3>3 DEF Fills, FillAwaited
    <3> QED BY <3>4
  <2>6. CASE ord.purpose = "exit"
    <3>1. Lessens
      BY <1>0, <1>13, <2>4, <2>6, ReduceMoves DEF FillAwaited
    <3>2. \A s \in Side : EntryInFlight(s)' <= EntryInFlight(s)
      BY <1>0, <2>1, <2>6 DEF EntryInFlight, KeepsOrder
    <3> QED BY <3>1, <3>2 DEF Shrinks
  <2> QED BY <2>4, <2>5, <2>6
<1>14. ASSUME NEW s \in Side, NEW k \in 1 .. MaxLots, FillLateEntry(s, k) PROVE Goal
  <2>1. entryOpen'[s] = entryOpen[s] - k
        /\ \A t \in Side \ {s} : entryOpen'[t] = entryOpen[t]
    BY <1>0, <1>14 DEF FillLateEntry
  <2>2. EntryInFlight(s)' = EntryInFlight(s) - k
    BY <1>0, <1>14, <2>1 DEF FillLateEntry, EntryInFlight, engineVars
  <2>3. \A t \in Side \ {s} : EntryInFlight(t)' = EntryInFlight(t)
    BY <1>0, <1>14, <2>1 DEF FillLateEntry, EntryInFlight, engineVars
  <2>4. Fills(s, k)
    BY <1>14, <2>2, <2>3 DEF Fills, FillLateEntry
  <2> QED BY <2>4
<1>15. ASSUME NEW s \in Side, NEW k \in Nat, exch' = exch + Signed(s, k),
              k <= Reducible(s), UNCHANGED <<entryOpen, pc, ord>>
       PROVE  Goal
  BY <1>0, <1>15, ReduceMoves, ReduceShrinks
<1>16. ASSUME NEW s \in Side, NEW k \in 1 .. MaxLots, FillLateExit(s, k) PROVE Goal
  BY <1>0, <1>15, <1>16 DEF FillLateExit, engineVars
<1>17. ASSUME NEW s \in Side, NEW kind \in {"TP", "SL"}, NEW k \in 0 .. MaxLots,
              TriggerProtective(s, kind, k)
       PROVE  Goal
  BY <1>0, <1>15, <1>17 DEF TriggerProtective, engineVars
<1>18. ASSUME NEW s \in Side, ExpireLate(s) PROVE Goal
  <2>1. Lessens
    BY <1>0, <1>18, StaysPut DEF ExpireLate
  <2>2. \A t \in Side : entryOpen'[t] <= entryOpen[t] /\ entryOpen'[t] \in Nat
    BY <1>0, <1>18 DEF ExpireLate
  <2>3. \A t \in Side : EntryInFlight(t)' <= EntryInFlight(t)
    BY <1>0, <1>18, <2>2 DEF ExpireLate, EntryInFlight, engineVars
  <2> QED BY <2>1, <2>3 DEF Shrinks
<1>19. CASE ClosedOutside
  <2>1. Lessens
    BY <1>19 DEF ClosedOutside, Lessens, Signed
  <2> QED BY <1>19, <2>1, ReduceShrinks DEF ClosedOutside, engineVars
<1>20. CASE \E s \in Side : WindowPasses(s)
  BY <1>20, QuietShrinks DEF WindowPasses, exchVars, engineVars
<1>21. CASE UNCHANGED vars
  BY <1>21, QuietShrinks DEF vars, exchVars
<1>22. CASE Exchange
  BY <1>13, <1>14, <1>16, <1>17, <1>18, <1>19, <1>20, <1>22 DEF Exchange
<1> QED
  BY <1>2, <1>3, <1>4, <1>5, <1>6, <1>7, <1>8, <1>9, <1>10, <1>11, <1>12, <1>21, <1>22
     DEF Next, EngineStep, Failure

\* The bound on position and entries in flight is inductive.
LEMMA BoundsStep ==
  ASSUME TypeOK, Control, Exposure, [Next]_vars
  PROVE  ExposureBounded' /\ InFlightBounded'
<1>0. /\ exch \in Int /\ exch' \in Int /\ MaxLots \in Nat /\ MaxLots > 0
      /\ MinLots \in Nat /\ MinLots > 0
      /\ entryOpen \in [Side -> Nat] /\ ord.side \in Side /\ ord.qty \in Nat
  BY TypeOKStep, OrderFacts, LotsAssumption DEF TypeOK, ExchangeOK
<1>1. \A s \in Side : /\ EntryInFlight(s) \in Nat /\ EntryInFlight(s)' \in Nat
                      /\ Signed(s, exch) \in Int /\ Signed(s, exch)' \in Int
  <2>1. \A s \in Side : EntryInFlight(s) \in Nat
    BY InFlightType
  <2>2. \A s \in Side : EntryInFlight(s)' \in Nat
    <3>1. TypeOK'
      BY TypeOKStep
    <3>2. entryOpen' \in [Side -> Nat] /\ ord'.left \in Nat
      BY <3>1, OrderFacts DEF TypeOK, ExchangeOK
    <3> QED BY <3>2 DEF EntryInFlight
  <2>3. \A s \in Side : Signed(s, exch) \in Int /\ Signed(s, exch)' \in Int
    BY <1>0 DEF Signed
  <2> QED BY <2>1, <2>2, <2>3
<1>2. \A s \in Side : /\ Signed(s, exch) + EntryInFlight(s) <= MaxLots + MinLots - 1
                      /\ EntryInFlight(s) <= MaxLots
  BY DEF Exposure, ExposureBounded, InFlightBounded
<1>3. SUFFICES ASSUME NEW s \in Side
      PROVE  /\ Signed(s, exch)' + EntryInFlight(s)' <= MaxLots + MinLots - 1
             /\ EntryInFlight(s)' <= MaxLots
  BY DEF ExposureBounded, InFlightBounded
<1>4. CASE Shrinks
  BY <1>0, <1>1, <1>2, <1>4 DEF Shrinks, Lessens
<1>5. ASSUME NEW t \in Side, NEW k \in 1 .. MaxLots, Fills(t, k)
      PROVE  /\ Signed(s, exch)' + EntryInFlight(s)' <= MaxLots + MinLots - 1
             /\ EntryInFlight(s)' <= MaxLots
  <2>1. k \in Nat /\ exch' = exch + Signed(t, k)
    BY <1>0, <1>5 DEF Fills
  <2>2. Signed(s, exch)' = IF s = t THEN Signed(s, exch) + k ELSE Signed(s, exch) - k
    BY <1>0, <2>1, FillMoves
  <2>3. EntryInFlight(s)' = IF s = t THEN EntryInFlight(s) - k ELSE EntryInFlight(s)
    BY <1>5 DEF Fills
  <2> QED BY <1>0, <1>1, <1>2, <2>1, <2>2, <2>3
<1>6. CASE Sends
  <2>1. Signed(s, exch)' = Signed(s, exch)
    BY <1>6 DEF Sends, Signed
  <2>2. CASE s = ord.side
    <3>1. EntryInFlight(s)' = entryOpen[s] + ord.qty
      BY <1>6, <2>2 DEF Sends
    <3>2. entryOpen[s] = 0 /\ Signed(s, exch) < MinLots /\ ord.qty <= MaxLots
      BY <1>6, <2>2 DEF Sends, Exposure, SendsFlat
    <3> QED BY <1>0, <1>1, <2>1, <3>1, <3>2
  <2>3. CASE s # ord.side
    BY <1>2, <1>6, <2>1, <2>3 DEF Sends
  <2> QED BY <2>2, <2>3
<1> QED BY <1>4, <1>5, <1>6, ExchangeMoves

\* No step but a lost connection, a crash or an unanswered poll adds open entries,
\* and none but a passing window forgets a side.
LEMMA RememberedStep ==
  ASSUME TypeOK, Control, Remembered, ~SlowFills, [Next]_vars
  PROVE  Remembered'
<1>0. entryOpen \in [Side -> Nat] /\ ord.left \in Nat /\ ord.side \in Side
  BY OrderFacts DEF TypeOK, ExchangeOK
<1>1. ASSUME \A s \in Side : entryOpen'[s] > 0 => entryOpen[s] > 0,
             recent \subseteq recent', pc # "saveOrder", pc # "down",
             stopping => stopping' \/ pc' = "down"
      PROVE  Remembered'
  BY <1>1 DEF Remembered
<1>2. ASSUME entryOpen' = entryOpen, recent' = recent, pc \notin {"down", "saveOrder"},
             UNCHANGED stopping
      PROVE  Remembered'
  BY <1>1, <1>2
<1>3. CASE StartSync \/ TickSync \/ ResyncAfterExit \/ FlattenSync
  BY <1>2, <1>3, SyncFacts DEF StartSync, TickSync, ResyncAfterExit, FlattenSync
<1>4. CASE Started \/ SaveOpen \/ SaveClosed \/ SaveTrade \/ DecideNothing \/ DecideExit
           \/ \E s \in Side, q \in 1 .. MaxLots : DecideEntry(s, q)
  BY <1>2, <1>4 DEF Started, SaveOpen, SaveClosed, SaveTrade, DecideNothing,
     DecideExit, DecideEntry, exchVars, dbVars
<1>5. CASE ExitCheck \/ SendAccepted \/ SendRejected \/ PollFilled \/ PollCancelled
           \/ FlattenPick
  BY <1>2, <1>5 DEF ExitCheck, SendAccepted, SendRejected, PollFilled,
     PollCancelled, FlattenPick, exchVars, dbVars
<1>6. CASE PollsExhausted
  <2>1. /\ pc = "await" /\ pc' = "saveOrder" /\ UNCHANGED <<recent, stopping>>
        /\ entryOpen' = [entryOpen EXCEPT ![ord.side] =
                           @ + (IF ord.reduceOnly THEN 0 ELSE ord.left)]
    BY <1>6 DEF PollsExhausted, Abandon, dbVars
  <2>2. ord'.purpose = ord.purpose /\ ord'.side = ord.side
    BY <1>6, OrderProgress DEF KeepsOrder
  <2>3. ord.purpose \in {"entry", "exit"} /\ (ord.reduceOnly <=> ord.purpose = "exit")
    BY <2>1 DEF Control, WithOrder
  <2>4. CASE ord.purpose = "entry"
    <3>1. \A s \in Side \ {ord.side} : entryOpen'[s] = entryOpen[s]
      BY <1>0, <2>1
    <3> QED BY <2>1, <2>2, <2>4, <3>1 DEF Remembered
  <2>5. CASE ord.purpose = "exit"
    <3>1. entryOpen' = entryOpen
      BY <1>0, <2>1, <2>3, <2>5
    <3> QED BY <1>2, <2>1, <3>1
  <2> QED BY <2>3, <2>4, <2>5
<1>7. CASE SaveEntryOrder \/ SaveExitOrder
  <2>1. /\ pc = "saveOrder" /\ entryOpen' = entryOpen /\ UNCHANGED stopping
        /\ recent' = recent \cup {ord.side}
    BY <1>7 DEF SaveEntryOrder, SaveExitOrder, exchVars
  <2> QED BY <2>1 DEF Remembered
<1>8. CASE ProtectTP \/ ProtectSL
  BY <1>1, <1>8 DEF ProtectTP, ProtectSL, Protect
<1>9. CASE Exit
  BY <1>9 DEF Exit, Forget, Remembered
<1>10. CASE Boot
  BY <1>0, <1>10 DEF Boot, exchVars, Remembered
<1>11. CASE StopRequested \/ \E b \in BOOLEAN : SetTradingEnabled(b)
  BY <1>1, <1>11 DEF StopRequested, SetTradingEnabled, exchVars, dbVars
<1>12. CASE Raise \/ Crash
  BY <1>12 DEF Raise, Crash, Forget, Remembered
<1>13. ASSUME NEW s \in Side, WindowPasses(s) PROVE Remembered'
  BY <1>0, <1>13 DEF WindowPasses, Remembered, exchVars, engineVars
<1>14. ASSUME \A s \in Side : entryOpen'[s] > 0 => entryOpen[s] > 0,
              UNCHANGED <<pc, stopping, ord, recent>>
       PROVE  Remembered'
  BY <1>14 DEF Remembered
<1>15. ASSUME NEW k \in 1 .. MaxLots, FillAwaited(k) PROVE Remembered'
  BY <1>2, <1>15 DEF FillAwaited, engineVars, dbVars
<1>16. ASSUME NEW s \in Side, NEW k \in 1 .. MaxLots, FillLateEntry(s, k)
       PROVE  Remembered'
  <2>1. \A t \in Side : entryOpen'[t] > 0 => entryOpen[t] > 0
    BY <1>0, <1>16, LotsAssumption DEF FillLateEntry
  <2> QED BY <1>14, <1>16, <2>1 DEF FillLateEntry, engineVars, dbVars
<1>17. ASSUME NEW s \in Side, ExpireLate(s) PROVE Remembered'
  <2>1. \A t \in Side : entryOpen'[t] > 0 => entryOpen[t] > 0
    BY <1>0, <1>17 DEF ExpireLate
  <2> QED BY <1>14, <1>17, <2>1 DEF ExpireLate, engineVars, dbVars
<1>18. CASE ClosedOutside
  BY <1>14, <1>18 DEF ClosedOutside, engineVars, dbVars
<1>21. ASSUME NEW s \in Side, NEW k \in 1 .. MaxLots, FillLateExit(s, k)
       PROVE  Remembered'
  BY <1>14, <1>21 DEF FillLateExit, engineVars, dbVars
<1>22. ASSUME NEW s \in Side, NEW kind \in {"TP", "SL"}, NEW k \in 0 .. MaxLots,
              TriggerProtective(s, kind, k)
       PROVE  Remembered'
  BY <1>14, <1>22 DEF TriggerProtective, engineVars, dbVars
<1>19. CASE UNCHANGED vars
  BY <1>14, <1>19 DEF vars, exchVars, dbVars
<1>20. CASE Exchange
  BY <1>13, <1>15, <1>16, <1>17, <1>18, <1>20, <1>21, <1>22 DEF Exchange
<1> QED
  BY <1>3, <1>4, <1>5, <1>6, <1>7, <1>8, <1>9, <1>10, <1>11, <1>12, <1>19, <1>20
     DEF Next, EngineStep, Operator, Failure

\* With true answers, a sync that leaves the engine flat has seen a flat exchange.
LEMMA SyncTruth ==
  ASSUME TypeOK, ~ReadErrors, NEW at, NEW cont, Sync(at, cont), local'.net = 0
  PROVE  \A s \in Side : Signed(s, exch) < MinLots
<1>1. PICK a \in {exch, 0} : PositionAnswer(a) /\ SyncWith(a, cont)
  BY DEF Sync
<1>2. a = exch
  BY <1>1 DEF PositionAnswer
<1>3. exch \in Int /\ local.net \in Int
  BY PositionFacts DEF TypeOK, PositionsOK, ExchangeOK
<1> DEFINE seen == IF IsDust(a) THEN 0 ELSE a
<1>4. seen # 0 => local'.net = seen
  <2>1. CASE local.net = 0 /\ seen # 0
    BY <1>1, <2>1 DEF SyncWith
  <2>2. CASE local.net # 0 /\ seen # 0 /\ seen # local.net
    <3>1. local' = [local EXCEPT !.net = seen] /\ seen \in Int
      BY <1>1, <1>2, <1>3, <2>2 DEF SyncWith
    <3> QED BY <3>1, PositionFacts DEF TypeOK, PositionsOK
  <2>3. CASE local.net = seen
    BY <1>1, <2>3 DEF SyncWith
  <2> QED BY <1>1, <2>1, <2>2, <2>3 DEF SyncWith
<1>5. IsDust(exch) \/ exch = 0
  BY <1>2, <1>4
<1> QED BY <1>3, <1>5, LotsAssumption DEF IsDust, AbsLots, Signed

\* Where a tick stands between its sync and its decision.
Deciding == \/ pc = "decide"
            \/ pc \in {"saveClosed", "saveTrade"} /\ next = "decide"

\* An entry is decided on only while the exchange is flat (up to dust).
LEMMA DecidesFlatStep ==
  ASSUME TypeOK, Control, Memory, Remembered, DecidesFlat, ~ReadErrors, ~SlowFills,
         [Next]_vars
  PROVE  DecidesFlat'
<1> USE DEF Deciding
<1>0. /\ entryOpen \in [Side -> Nat] /\ exch \in Int /\ MinLots \in Nat /\ MinLots > 0
      /\ ControlOK
  BY LotsAssumption DEF TypeOK, ExchangeOK
<1>1. ASSUME ~Deciding' PROVE DecidesFlat'
  BY <1>1 DEF DecidesFlat
<1>2. ASSUME NEW at, NEW cont, Sync(at, cont) PROVE DecidesFlat'
  <2>1. UNCHANGED exch
    BY <1>2, SyncFacts
  <2>2. local'.net = 0 => \A s \in Side : Signed(s, exch)' < MinLots
    BY <1>2, <2>1, SyncTruth DEF Signed
  <2> QED BY <2>2 DEF DecidesFlat
<1>3. CASE StartSync \/ TickSync \/ ResyncAfterExit \/ FlattenSync
  BY <1>2, <1>3 DEF StartSync, TickSync, ResyncAfterExit, FlattenSync
<1>4. CASE SaveOpen
  BY <1>4 DEF SaveOpen, Memory, Saves, DecidesFlat
<1>5. CASE SaveClosed \/ SaveTrade
  <2>1. UNCHANGED <<exch, local, recent>> /\ (Deciding' => Deciding)
    BY <1>0, <1>5 DEF SaveClosed, SaveTrade, exchVars, ControlOK
  <2>2. \A s \in Side : Signed(s, exch)' = Signed(s, exch)
    BY <2>1 DEF Signed
  <2> QED BY <2>1, <2>2 DEF DecidesFlat
<1>6. CASE Started \/ DecideNothing \/ DecideExit
           \/ \E s \in Side, q \in 1 .. MaxLots : DecideEntry(s, q)
  BY <1>1, <1>6 DEF Started, DecideNothing, DecideExit, DecideEntry
<1>7. CASE ExitCheck \/ SendAccepted \/ SendRejected \/ PollFilled \/ PollCancelled
           \/ PollsExhausted
  BY <1>1, <1>7 DEF ExitCheck, SendAccepted, SendRejected, PollFilled,
     PollCancelled, PollsExhausted
<1>8. CASE SaveEntryOrder \/ SaveExitOrder \/ ProtectTP \/ ProtectSL \/ FlattenPick
           \/ Exit
  BY <1>1, <1>8 DEF SaveEntryOrder, SaveExitOrder, ProtectTP, ProtectSL, Protect,
     FlattenPick, Exit, Forget, Resume
<1>9. CASE Operator \/ Raise \/ Crash
  BY <1>1, <1>9 DEF Operator, Boot, StopRequested, SetTradingEnabled, Raise, Crash,
     Forget
<1>10. ASSUME UNCHANGED <<pc, next, local, recent>>,
              \A s \in Side : Deciding /\ s \notin recent =>
                Signed(s, exch)' <= Signed(s, exch) \/ Signed(s, exch)' <= 0
       PROVE  DecidesFlat'
  <2>1. \A s \in Side : Signed(s, exch)' \in Int /\ Signed(s, exch) \in Int
    <3>1. exch' \in Int
      BY ExchangeOKStep DEF ExchangeOK
    <3> QED BY <1>0, <3>1 DEF Signed
  <2> QED BY <1>0, <1>10, <2>1 DEF DecidesFlat
<1>11. ASSUME NEW k \in 1 .. MaxLots, FillAwaited(k) PROVE DecidesFlat'
  BY <1>1, <1>11 DEF FillAwaited, engineVars
<1>12. ASSUME NEW s \in Side, NEW k \in 1 .. MaxLots, FillLateEntry(s, k)
       PROVE  DecidesFlat'
  <2>1. Deciding => s \in recent
    <3>1. entryOpen[s] > 0
      BY <1>0, <1>12, LotsAssumption DEF FillLateEntry
    <3> QED BY <3>1 DEF Remembered, Control, Saves, WithOrder
  <2>2. \A t \in Side : Signed(t, exch)' = IF t = s THEN Signed(t, exch) + k
                                                    ELSE Signed(t, exch) - k
    BY <1>0, <1>12, FillMoves, LotsAssumption DEF FillLateEntry
  <2>3. \A t \in Side \ {s} : Signed(t, exch)' <= Signed(t, exch)
    BY <1>0, <2>2, LotsAssumption DEF Signed
  <2>4. UNCHANGED <<pc, next, local, recent>>
    BY <1>12 DEF FillLateEntry, engineVars, dbVars
  <2> QED BY <1>10, <2>1, <2>3, <2>4
<1>13. ASSUME Lessens, UNCHANGED <<pc, next, local, recent>> PROVE DecidesFlat'
  BY <1>10, <1>13 DEF Lessens
<1>14. ASSUME NEW s \in Side, NEW k \in 1 .. MaxLots, FillLateExit(s, k)
       PROVE  DecidesFlat'
  <2>1. Lessens
    BY <1>0, <1>14, ReduceMoves, LotsAssumption DEF FillLateExit
  <2> QED BY <1>13, <1>14, <2>1 DEF FillLateExit, engineVars, dbVars
<1>15. ASSUME NEW s \in Side, NEW kind \in {"TP", "SL"}, NEW k \in 0 .. MaxLots,
              TriggerProtective(s, kind, k)
       PROVE  DecidesFlat'
  <2>1. Lessens
    BY <1>0, <1>15, ReduceMoves, LotsAssumption DEF TriggerProtective
  <2> QED BY <1>13, <1>15, <2>1 DEF TriggerProtective, engineVars, dbVars
<1>16. ASSUME NEW s \in Side, ExpireLate(s) PROVE DecidesFlat'
  <2>1. Lessens
    BY <1>0, <1>16, StaysPut DEF ExpireLate
  <2> QED BY <1>13, <1>16, <2>1 DEF ExpireLate, engineVars, dbVars
<1>17. CASE ClosedOutside
  <2>1. Lessens
    BY <1>17 DEF ClosedOutside, Lessens, Signed
  <2> QED BY <1>13, <1>17, <2>1 DEF ClosedOutside, engineVars, dbVars
<1>18. ASSUME NEW s \in Side, WindowPasses(s) PROVE DecidesFlat'
  BY <1>1, <1>18 DEF WindowPasses, engineVars
<1>19. CASE UNCHANGED vars
  BY <1>0, <1>13, <1>19, StaysPut DEF vars, exchVars, dbVars
<1>20. CASE Exchange
  BY <1>11, <1>12, <1>14, <1>15, <1>16, <1>17, <1>18, <1>20 DEF Exchange
<1> QED
  BY <1>3, <1>4, <1>5, <1>6, <1>7, <1>8, <1>9, <1>19, <1>20
     DEF Next, EngineStep, Failure

\* ... and sent only then.
LEMMA SendsFlatStep ==
  ASSUME TypeOK, Control, Exposure, [Next]_vars
  PROVE  SendsFlat'
<1>0. /\ entryOpen \in [Side -> Nat] /\ exch \in Int /\ MinLots \in Nat /\ MinLots > 0
      /\ ControlOK /\ ord.side \in Side /\ ord.qty \in Nat
  BY OrderFacts, LotsAssumption DEF TypeOK, ExchangeOK
<1>1. ASSUME pc' # "send" \/ ord'.purpose # "entry" PROVE SendsFlat'
  BY <1>1 DEF SendsFlat
<1>2. ASSUME NEW at, NEW cont \in {"started", "decide", Resume, "flattenPick"},
             Sync(at, cont)
      PROVE  SendsFlat'
  <2>1. SyncOutcome(cont)
    BY <1>2, SyncFacts
  <2> QED BY <1>1, <2>1 DEF SyncOutcome, Resume
<1>3. CASE StartSync \/ TickSync \/ ResyncAfterExit \/ FlattenSync
  BY <1>2, <1>3 DEF StartSync, TickSync, ResyncAfterExit, FlattenSync
<1>4. CASE SaveOpen \/ SaveClosed \/ SaveTrade \/ Started \/ DecideNothing \/ DecideExit
  BY <1>0, <1>1, <1>4 DEF SaveOpen, SaveClosed, SaveTrade, Started, DecideNothing,
     DecideExit, ControlOK
<1>5. ASSUME NEW s \in Side, NEW q \in 1 .. MaxLots, DecideEntry(s, q) PROVE SendsFlat'
  <2>1. /\ pc = "decide" /\ local.net = 0 /\ s \notin recent
        /\ UNCHANGED <<exch, entryOpen>>
    BY <1>5 DEF DecideEntry, exchVars
  <2>2. Signed(s, exch) < MinLots
    BY <2>1 DEF Exposure, DecidesFlat
  <2>3. entryOpen[s] = 0
    BY <1>0, <2>1 DEF Exposure, Remembered, Control, Saves, WithOrder
  <2>4. ord'.side = s /\ ord'.qty = q
    BY <1>5, OrderFields, LotsAssumption DEF DecideEntry
  <2>5. Signed(ord'.side, exch') < MinLots
    BY <2>1, <2>2, <2>4
  <2> QED BY <1>0, <2>1, <2>3, <2>4, <2>5, LotsAssumption DEF SendsFlat
<1>6. CASE ExitCheck
  <2>1. PICK a \in {exch, 0} :
           \/ pc' = "resync"
           \/ ord' = [ord EXCEPT !.qty = MinOf(ord.qty, AbsLots(a))]
    BY <1>6 DEF ExitCheck
  <2>a. a \in Int
    BY <1>0
  <2>2. AbsLots(a) \in Nat
    BY <2>a, LotFacts
  <2>3. MinOf(ord.qty, AbsLots(a)) \in Nat
    BY <1>0, <2>2, LotFacts
  <2>4. pc' = "resync" \/ \E m \in Nat : ord' = [ord EXCEPT !.qty = m]
    BY <2>1, <2>3
  <2>5. ord \in Order /\ ord.purpose = "exit"
    BY <1>6 DEF ExitCheck, TypeOK, Control
  <2>6. pc' = "resync" \/ ord'.purpose = "exit"
    <3>1. \A m \in Nat : [ord EXCEPT !.qty = m].purpose = ord.purpose
      BY <2>5, OrderFields
    <3> QED BY <2>4, <2>5, <3>1
  <2> QED BY <1>1, <2>6
<1>7. CASE SendAccepted \/ SendRejected \/ PollFilled \/ PollCancelled
           \/ PollsExhausted \/ FlattenPick
  BY <1>1, <1>7 DEF SendAccepted, SendRejected, PollFilled, PollCancelled,
     PollsExhausted, FlattenPick
<1>8. CASE SaveEntryOrder \/ SaveExitOrder \/ ProtectTP \/ ProtectSL \/ Exit
  BY <1>1, <1>8 DEF SaveEntryOrder, SaveExitOrder, ProtectTP, ProtectSL, Protect, Exit,
     Forget, Resume
<1>9. CASE Boot \/ StopRequested \/ Raise \/ Crash
           \/ \E b \in BOOLEAN : SetTradingEnabled(b)
  BY <1>1, <1>9 DEF Boot, StopRequested, Raise, Crash, Forget, SetTradingEnabled
<1>10. ASSUME UNCHANGED <<pc, ord>>,
              pc = "send" /\ ord.purpose = "entry" =>
                /\ entryOpen'[ord.side] = 0
                /\ \/ Signed(ord.side, exch') <= Signed(ord.side, exch)
                   \/ Signed(ord.side, exch') <= 0
       PROVE  SendsFlat'
  <2>1. Signed(ord.side, exch') \in Int /\ Signed(ord.side, exch) \in Int
    <3>1. exch' \in Int
      BY ExchangeOKStep DEF ExchangeOK
    <3> QED BY <1>0, <3>1 DEF Signed
  <2>2. SendsFlat
    BY DEF Exposure
  <2>3. CASE pc = "send" /\ ord.purpose = "entry"
    <3>1. Signed(ord.side, exch') < MinLots
      BY <1>0, <1>10, <2>1, <2>2, <2>3 DEF SendsFlat
    <3> QED BY <1>10, <2>2, <2>3, <3>1 DEF SendsFlat
  <2>4. CASE ~(pc = "send" /\ ord.purpose = "entry")
    BY <1>1, <1>10, <2>4
  <2> QED BY <2>3, <2>4
<1>11. ASSUME NEW k \in 1 .. MaxLots, FillAwaited(k) PROVE SendsFlat'
  BY <1>1, <1>11 DEF FillAwaited, engineVars
<1>12. ASSUME Lessens, UNCHANGED <<pc, ord, entryOpen>> PROVE SendsFlat'
  <2>1. pc = "send" /\ ord.purpose = "entry" => entryOpen'[ord.side] = 0
    BY <1>12 DEF Exposure, SendsFlat
  <2>2. \/ Signed(ord.side, exch') <= Signed(ord.side, exch)
        \/ Signed(ord.side, exch') <= 0
    BY <1>0, <1>12 DEF Lessens, Signed
  <2> QED BY <1>10, <1>12, <2>1, <2>2
<1>13. ASSUME NEW s \in Side, NEW k \in 1 .. MaxLots, FillLateEntry(s, k)
       PROVE  SendsFlat'
  <2>1. entryOpen[s] > 0 /\ \A t \in Side : t # s => entryOpen'[t] = entryOpen[t]
    BY <1>0, <1>13, LotsAssumption DEF FillLateEntry
  <2>2. CASE pc = "send" /\ ord.purpose = "entry"
    <3>1. ord.side # s /\ entryOpen'[ord.side] = 0
      BY <1>0, <2>1, <2>2 DEF Exposure, SendsFlat
    <3>2. Signed(ord.side, exch') <= Signed(ord.side, exch)
      BY <1>0, <1>13, <3>1, LotsAssumption DEF FillLateEntry, Signed, Side
    <3> QED BY <1>10, <1>13, <3>1, <3>2 DEF FillLateEntry, engineVars
  <2>3. CASE ~(pc = "send" /\ ord.purpose = "entry")
    BY <1>1, <1>13, <2>3 DEF FillLateEntry, engineVars
  <2> QED BY <2>2, <2>3
<1>14. ASSUME NEW s \in Side, NEW k \in 1 .. MaxLots, FillLateExit(s, k)
       PROVE  SendsFlat'
  <2>1. Lessens
    BY <1>0, <1>14, ReduceMoves, LotsAssumption DEF FillLateExit
  <2> QED BY <1>12, <1>14, <2>1 DEF FillLateExit, engineVars
<1>15. ASSUME NEW s \in Side, NEW kind \in {"TP", "SL"}, NEW k \in 0 .. MaxLots,
              TriggerProtective(s, kind, k)
       PROVE  SendsFlat'
  <2>1. Lessens
    BY <1>0, <1>15, ReduceMoves, LotsAssumption DEF TriggerProtective
  <2> QED BY <1>12, <1>15, <2>1 DEF TriggerProtective, engineVars
<1>16. ASSUME NEW s \in Side, ExpireLate(s) PROVE SendsFlat'
  <2>1. UNCHANGED <<exch, pc, ord>>
    BY <1>16 DEF ExpireLate, engineVars
  <2>2. pc = "send" /\ ord.purpose = "entry" => entryOpen'[ord.side] = 0
    BY <1>0, <1>16 DEF ExpireLate, Exposure, SendsFlat
  <2>3. Signed(ord.side, exch') <= Signed(ord.side, exch)
    BY <1>0, <2>1 DEF Signed
  <2> QED BY <1>10, <2>1, <2>2, <2>3
<1>17. CASE ClosedOutside
  <2>1. Lessens
    BY <1>17 DEF ClosedOutside, Lessens, Signed
  <2> QED BY <1>12, <1>17, <2>1 DEF ClosedOutside, engineVars
<1>18. ASSUME NEW s \in Side, WindowPasses(s) PROVE SendsFlat'
  BY <1>0, <1>12, <1>18, StaysPut DEF WindowPasses, exchVars, engineVars
<1>19. CASE UNCHANGED vars
  BY <1>0, <1>12, <1>19, StaysPut DEF vars, exchVars
<1>20. CASE Exchange
  BY <1>11, <1>13, <1>14, <1>15, <1>16, <1>17, <1>18, <1>20 DEF Exchange
<1> QED
  BY <1>3, <1>4, <1>5, <1>6, <1>7, <1>8, <1>9, <1>19, <1>20
     DEF Next, EngineStep, Operator, Failure

\* Initially there is no exposure.
LEMMA ExposureInit == Init => Exposure
<1> SUFFICES ASSUME Init PROVE Exposure
  OBVIOUS
<1>1. pc = "down" /\ \A s \in Side : entryOpen[s] = 0
  BY DEF Init
<1>2. \A s \in Side : EntryInFlight(s) = 0
  BY <1>1 DEF EntryInFlight
<1>3. \A s \in Side : Signed(s, exch) \in Int /\ Signed(s, exch) <= 0
  <2>1. \A n \in Int, s \in Side : n <= 0 /\ n >= 0 => Signed(s, n) \in Int /\ Signed(s, n) <= 0
    BY DEF Signed
  <2>2. exch \in Int /\ exch <= 0 /\ exch >= 0
    BY DEF Init
  <2> QED BY <2>1, <2>2
<1>4. ExposureBounded /\ InFlightBounded
  BY <1>2, <1>3, LotsAssumption DEF ExposureBounded, InFlightBounded
<1>5. Remembered /\ DecidesFlat /\ SendsFlat
  BY <1>1 DEF Remembered, DecidesFlat, SendsFlat
<1> QED BY <1>4, <1>5 DEF Exposure

\* As long as positionRisk answers are true and market orders are done before
\* their duplicate window ends, the engine never holds, or has under way, more
\* than one entry (and ignorable dust), whatever else fails.
THEOREM NoStackedEntries ==
  ASSUME ~ReadErrors, ~SlowFills
  PROVE  Spec => []ExposureBounded
<1>1. Safe /\ Exposure /\ [Next]_vars => Exposure'
  <2> SUFFICES ASSUME Safe, Exposure, [Next]_vars PROVE Exposure'
    OBVIOUS
  <2>1. TypeOK /\ Control /\ Memory
    BY DEF Safe
  <2>2. ExposureBounded' /\ InFlightBounded'
    BY <2>1, BoundsStep
  <2>3. Remembered'
    BY <2>1, RememberedStep DEF Exposure
  <2>4. DecidesFlat'
    BY <2>1, DecidesFlatStep DEF Exposure
  <2>5. SendsFlat'
    BY <2>1, SendsFlatStep
  <2> QED BY <2>2, <2>3, <2>4, <2>5 DEF Exposure
<1>2. Exposure => ExposureBounded
  BY DEF Exposure
<1> QED BY <1>1, <1>2, ExposureInit, Safety, PTL DEF Spec

-----------------------------------------------------------------------------
(* Exits *)

\* While the engine waits for an order nothing changes that order but its fills.
LEMMA FillsWhileAwaited ==
  ASSUME [Next]_vars, pc = "await", pc' = "await", ord' # ord
  PROVE  \E k \in 1 .. MaxLots : FillAwaited(k)
<1> SUFFICES ASSUME ~\E k \in 1 .. MaxLots : FillAwaited(k) PROVE FALSE
  OBVIOUS
<1>1. CASE StartSync \/ TickSync \/ ResyncAfterExit \/ FlattenSync
  BY <1>1 DEF StartSync, TickSync, ResyncAfterExit, FlattenSync, Sync
<1>2. CASE Started \/ SaveOpen \/ SaveClosed \/ SaveTrade \/ DecideNothing \/ DecideExit
           \/ \E s \in Side, q \in 1 .. MaxLots : DecideEntry(s, q)
  BY <1>2 DEF Started, SaveOpen, SaveClosed, SaveTrade, DecideNothing, DecideExit, DecideEntry
<1>3. CASE ExitCheck \/ SendAccepted \/ SendRejected \/ PollFilled \/ PollsExhausted
           \/ PollCancelled
  BY <1>3 DEF ExitCheck, SendAccepted, SendRejected, PollFilled, PollsExhausted, PollCancelled
<1>4. CASE SaveEntryOrder \/ SaveExitOrder \/ ProtectTP \/ ProtectSL \/ FlattenPick \/ Exit
  BY <1>4 DEF SaveEntryOrder, SaveExitOrder, ProtectTP, ProtectSL, Protect, FlattenPick, Exit
<1>5. CASE Operator \/ Failure
  BY <1>5 DEF Operator, Boot, StopRequested, SetTradingEnabled, Failure, Raise, Crash, Forget
<1>6. CASE Exchange
  BY <1>6 DEF Exchange, FillLateEntry, FillLateExit, ExpireLate, WindowPasses,
     TriggerProtective, ClosedOutside
<1>7. CASE UNCHANGED vars
  BY <1>7 DEF vars
<1> QED BY <1>1, <1>2, <1>3, <1>4, <1>5, <1>6, <1>7 DEF Next, EngineStep

\* A reduce-only fill takes its lots off the position.
LEMMA ReduceTakes ==
  ASSUME exch \in Int, NEW t \in Side, NEW k \in Nat, k <= Reducible(t),
         exch' = exch + Signed(t, k)
  PROVE  AbsLots(exch') = AbsLots(exch) - k
  BY DEF Signed, Side, Reducible, AbsLots

\* Whatever an exit order fills brings the position on the exchange nearer to zero
\* (reduceOnly in _submit_exit_order and the flatten of stop()).
THEOREM ExitsReduce == Spec => ExitsOnlyReduce
<1>1. ASSUME Safe, [Next]_vars, pc = "await", ord.purpose = "exit", ord'.left < ord.left,
             pc' = "await"
      PROVE  AbsLots(exch') < AbsLots(exch)
  <2>1. ord.left \in Nat /\ ord.side \in Side /\ exch \in Int /\ ord.reduceOnly
    BY <1>1, OrderFacts DEF Safe, TypeOK, ExchangeOK, Control, WithOrder
  <2>2. ord' # ord
    BY <1>1, <2>1
  <2>3. PICK k \in 1 .. MaxLots : FillAwaited(k)
    BY <1>1, <2>2, FillsWhileAwaited
  <2>4. k \in Nat /\ k > 0 /\ k <= Reducible(ord.side) /\ exch' = exch + Signed(ord.side, k)
    BY <2>1, <2>3, LotsAssumption DEF FillAwaited
  <2>5. AbsLots(exch') = AbsLots(exch) - k
    BY <2>1, <2>4, ReduceTakes
  <2> QED BY <2>1, <2>4, <2>5, LotFacts
<1>2. Safe /\ [Next]_vars
        => [(pc = "await" /\ ord.purpose = "exit" /\ ord'.left < ord.left /\ pc' = "await")
              => AbsLots(exch') < AbsLots(exch)]_vars
  BY <1>1
<1> QED BY <1>2, Safety, PTL DEF Spec, ExitsOnlyReduce

-----------------------------------------------------------------------------
(* Stopping *)

\* An order of side s for q lots closes the position, if there still is one.
Closes(s, q) == Signed(s, exch) <= 0 /\ AbsLots(exch) <= q

\* What is held in memory is at least what is on the exchange, on the same side.
Covered(n) == IF n = 0 THEN IsDust(exch) ELSE Closes(CloseSide(n), AbsLots(n))

\* What an exit order can leave behind that was filled: the lot rounding took from it.
Short == IF Lossy = {} THEN 0 ELSE 1
Left == IsDust(exch) \/ AbsLots(exch) <= Short

\* The flatten of stop() follows the position through a sync, a check, an order and its fills.
FlattenStage ==
  /\ pc = "flattenPick" \/ (pc \in Saves /\ next = "flattenPick") => Covered(local.net)
  /\ pc \in {"exitCheck", "send"} => Closes(ord.side, ord.qty)
  /\ pc = "await" => Closes(ord.side, ord.left + Short)
  /\ pc \in {"saveOrder", "resync"} => AbsLots(exch) <= Short
  /\ pc = "stopped" \/ (pc \in Saves /\ next = "stopped") => Left

NoEntryLeft == \A s \in Side : entryOpen[s] = 0
Flattening == faults = 0 => NoEntryLeft /\ (stopping => FlattenStage)

\* The position comes nearer to zero without crossing it.
Nearer ==
  /\ AbsLots(exch') <= AbsLots(exch)
  /\ \A s \in Side : Signed(s, exch) <= 0 => Signed(s, exch') <= 0

\* What closes it, covers it or lets it pass as dust still does.
LEMMA NearerKeeps ==
  ASSUME exch \in Int, exch' \in Int, Nearer
  PROVE  /\ AbsLots(exch) <= Short => AbsLots(exch') <= Short
         /\ Left => Left'
         /\ \A s \in Side, q \in Nat : Closes(s, q) => Closes(s, q)'
         /\ \A n \in Int : Covered(n) => Covered(n)'
<1>1. AbsLots(exch) <= Short => AbsLots(exch') <= Short
  <2>1. AbsLots(exch) \in Nat /\ AbsLots(exch') \in Nat /\ Short \in Nat
    BY LotFacts DEF Short
  <2>2. AbsLots(exch') <= AbsLots(exch)
    BY DEF Nearer
  <2> QED BY <2>1, <2>2 DEF Short
<1>2. IsDust(exch) => IsDust(exch')
  BY LotFacts, LotsAssumption DEF Nearer, IsDust
<1>3. \A s \in Side, q \in Nat : Closes(s, q) => Closes(s, q)'
  BY LotFacts DEF Nearer, Closes
<1>4. \A n \in Int : Covered(n) => Covered(n)'
  BY <1>2, <1>3, LotFacts DEF Covered
<1>5. Left => Left'
  BY <1>1, <1>2 DEF Left, IsDust
<1> QED BY <1>1, <1>3, <1>4, <1>5

\* Reduce-only fills, protective orders and closes from outside bring it nearer.
LEMMA ReduceNearer ==
  ASSUME exch \in Int, NEW t \in Side, NEW k \in Nat, k <= Reducible(t),
         exch' = exch + Signed(t, k)
  PROVE  exch' \in Int /\ Nearer
  BY DEF Signed, Side, Reducible, AbsLots, Nearer

\* A fault is never taken back.
LEMMA FaultsGrow ==
  ASSUME TypeOK, [Next]_vars, faults' = 0
  PROVE  faults = 0 /\ ~Raise /\ ~Crash
<1>0. faults \in Nat
  BY BoundsAssumption DEF TypeOK, BoundsOK
<1>9. ~Raise /\ ~Crash
  BY <1>0 DEF Raise, Crash
<1> SUFFICES faults = 0
  BY <1>9
<1>1. ASSUME NEW a, PositionAnswer(a) PROVE faults = 0
  BY <1>0, <1>1 DEF PositionAnswer
<1>2. CASE StartSync \/ TickSync \/ ResyncAfterExit \/ FlattenSync \/ ExitCheck
  BY <1>1, <1>2 DEF StartSync, TickSync, ResyncAfterExit, FlattenSync, Sync, ExitCheck
<1>3. CASE Started \/ SaveOpen \/ SaveClosed \/ SaveTrade \/ DecideNothing \/ DecideExit
           \/ \E s \in Side, q \in 1 .. MaxLots : DecideEntry(s, q)
  BY <1>3 DEF Started, SaveOpen, SaveClosed, SaveTrade, DecideNothing, DecideExit, DecideEntry
<1>4. CASE SendAccepted \/ SendRejected \/ PollFilled \/ PollsExhausted \/ PollCancelled
  BY <1>0, <1>4 DEF SendAccepted, SendRejected, PollFilled, PollsExhausted, PollCancelled
<1>5. CASE SaveEntryOrder \/ SaveExitOrder \/ ProtectTP \/ ProtectSL \/ Exit
  BY <1>5 DEF SaveEntryOrder, SaveExitOrder, ProtectTP, ProtectSL, Protect, Exit
<1>6. CASE FlattenPick
  BY <1>1, <1>6 DEF FlattenPick
<1>7. CASE Operator
  BY <1>7 DEF Operator, Boot, StopRequested, SetTradingEnabled
<1>8. CASE Exchange \/ UNCHANGED vars
  BY <1>8 DEF Exchange, FillAwaited, FillLateEntry, FillLateExit, ExpireLate, WindowPasses,
     TriggerProtective, ClosedOutside, vars
<1> QED BY <1>2, <1>3, <1>4, <1>5, <1>6, <1>7, <1>8, <1>9 DEF Next, EngineStep, Failure

\* Orders that fill while they are waited for leave nothing behind that could fill later.
LEMMA NoEntryLeftStep ==
  ASSUME TypeOK, [Next]_vars, NoEntryLeft, faults' = 0, ~LateFills
  PROVE  NoEntryLeft'
<1>0. entryOpen \in [Side -> Nat] /\ ~Raise /\ ~Crash /\ ~PollsExhausted
  BY FaultsGrow DEF TypeOK, ExchangeOK, PollsExhausted
<1>1. CASE UNCHANGED exchVars
  BY <1>1 DEF exchVars, NoEntryLeft
<1>2. CASE ProtectTP \/ ProtectSL
  BY <1>2 DEF ProtectTP, ProtectSL, Protect, NoEntryLeft
<1>3. CASE Exchange
  <2>1. ASSUME NEW s \in Side, NEW k \in 1 .. MaxLots PROVE ~FillLateEntry(s, k)
    BY LotsAssumption DEF FillLateEntry, NoEntryLeft
  <2>2. ASSUME NEW s \in Side, ExpireLate(s) PROVE NoEntryLeft'
    BY <1>0, <2>2 DEF ExpireLate, NoEntryLeft
  <2>3. ~(\E s \in Side : ExpireLate(s)) => UNCHANGED entryOpen
    BY <1>3, <2>1 DEF Exchange, FillAwaited, FillLateExit, WindowPasses, TriggerProtective,
       ClosedOutside, exchVars
  <2> QED BY <2>2, <2>3 DEF NoEntryLeft
<1> QED BY <1>0, <1>1, <1>2, <1>3, ExchangeFrame DEF TouchesExchange

\* What the exchange does to the position meets no stage of the flatten unprepared.
LEMMA FlattenByExchange ==
  ASSUME TypeOK, Control, NoEntryLeft, stopping, FlattenStage, Exchange
  PROVE  FlattenStage'
<1>0. /\ exch \in Int /\ local.net \in Int /\ ord \in Order /\ ord.side \in Side
      /\ ord.qty \in Nat /\ ord.left \in Nat /\ MaxLots \in Nat
  BY PositionFacts, OrderFacts, LotsAssumption DEF TypeOK, ExchangeOK, PositionsOK
<1>1. ASSUME NEW k \in 1 .. MaxLots, FillAwaited(k) PROVE FlattenStage'
  <2>1. /\ pc = "await" /\ pc' = "await" /\ k \in Nat /\ k <= ord.left
        /\ k <= Reducible(ord.side) /\ exch' = exch + Signed(ord.side, k)
        /\ ord' = [ord EXCEPT !.left = ord.left - k]
    BY <1>0, <1>1 DEF FillAwaited, engineVars, Control, WithOrder
  <2>2. ord.left - k \in Nat /\ ord'.left = ord.left - k /\ ord'.side = ord.side
    BY <1>0, <2>1, OrderFields
  <2>3. AbsLots(exch') = AbsLots(exch) - k /\ Nearer /\ exch' \in Int
    BY <1>0, <2>1, ReduceTakes, ReduceNearer
  <2>4. Closes(ord.side, ord.left + Short)
    BY <2>1 DEF FlattenStage
  <2>5. Closes(ord.side, ord.left + Short)'
    <3>1. Signed(ord.side, exch) <= 0 /\ AbsLots(exch) <= ord.left + Short
      BY <2>4 DEF Closes
    <3>2. AbsLots(exch') <= (ord.left - k) + Short
      <4>1. AbsLots(exch) \in Nat /\ Short \in Nat
        BY <1>0, LotFacts DEF Short
      <4> QED BY <1>0, <2>1, <2>3, <3>1, <4>1
    <3>3. Signed(ord.side, exch') <= 0
      BY <1>0, <2>3, <3>1 DEF Nearer
    <3> QED BY <2>2, <3>2, <3>3 DEF Closes, Short
  <2> QED BY <2>1, <2>5 DEF FlattenStage, Saves
<1>2. ASSUME ~\E k \in 1 .. MaxLots : FillAwaited(k)
      PROVE  exch' \in Int /\ Nearer /\ UNCHANGED <<pc, next, local, ord>>
  <2>1. UNCHANGED <<pc, next, local, ord>>
    BY <1>2 DEF Exchange, FillLateEntry, FillLateExit, ExpireLate, WindowPasses,
       TriggerProtective, ClosedOutside, engineVars
  <2> SUFFICES exch' \in Int /\ Nearer
    BY <2>1
  <2>2. ASSUME NEW s \in Side, NEW k \in 1 .. MaxLots PROVE ~FillLateEntry(s, k)
    BY LotsAssumption DEF FillLateEntry, NoEntryLeft
  <2>3. ASSUME NEW s \in Side, NEW k \in Nat, k <= Reducible(s), exch' = exch + Signed(s, k)
        PROVE  exch' \in Int /\ Nearer
    BY <1>0, <2>3, ReduceNearer
  <2>4. ASSUME exch' = exch PROVE exch' \in Int /\ Nearer
    BY <1>0, <2>4, LotFacts DEF Nearer
  <2>5. ASSUME exch' = 0 PROVE exch' \in Int /\ Nearer
    BY <1>0, <2>5 DEF Nearer, AbsLots, Signed
  <2>6. CASE \E s \in Side, k \in 1 .. MaxLots : FillLateExit(s, k)
    BY <1>0, <2>3, <2>6 DEF FillLateExit
  <2>7. CASE \E s \in Side, kind \in {"TP", "SL"}, k \in 0 .. MaxLots : TriggerProtective(s, kind, k)
    BY <1>0, <2>3, <2>7 DEF TriggerProtective
  <2>8. CASE ClosedOutside
    BY <2>5, <2>8 DEF ClosedOutside
  <2>9. CASE \E s \in Side : ExpireLate(s) \/ WindowPasses(s)
    BY <2>4, <2>9 DEF ExpireLate, WindowPasses, exchVars
  <2> QED BY <1>2, <2>1, <2>2, <2>6, <2>7, <2>8, <2>9 DEF Exchange
<1>3. ASSUME exch' \in Int, Nearer, UNCHANGED <<pc, next, local, ord>> PROVE FlattenStage'
  <2>1. /\ AbsLots(exch) <= Short => AbsLots(exch') <= Short
        /\ Left => Left'
        /\ Closes(ord.side, ord.qty) => Closes(ord.side, ord.qty)'
        /\ Closes(ord.side, ord.left + Short) => Closes(ord.side, ord.left + Short)'
        /\ Covered(local.net) => Covered(local.net)'
    <3>1. PICK s \in Side, q \in Nat, l \in Nat, n \in Int :
             s = ord.side /\ q = ord.qty /\ l = ord.left + Short /\ n = local.net
      BY <1>0 DEF Short
    <3>2. s = ord'.side /\ q = ord'.qty /\ l = ord'.left + Short /\ n = local'.net
      BY <1>3, <3>1
    <3>3. /\ AbsLots(exch) <= Short => AbsLots(exch') <= Short
          /\ Left => Left'
          /\ Closes(s, q) => Closes(s, q)'
          /\ Closes(s, l) => Closes(s, l)'
          /\ Covered(n) => Covered(n)'
      BY <1>0, <1>3, NearerKeeps
    <3> QED BY <3>1, <3>2, <3>3 DEF Short
  <2> QED BY <1>3, <2>1 DEF FlattenStage
<1> QED BY <1>1, <1>2, <1>3

\* Placing, polling and saving the exit order of the flatten: it is filled, or refused or
\* cancelled because nothing is left to close.
LEMMA FlattenByOrder ==
  ASSUME TypeOK, Control, stopping, FlattenStage, faults' = faults, ~LateFills,
         \/ ExitCheck \/ SendAccepted \/ SendRejected \/ PollFilled \/ PollsExhausted
         \/ PollCancelled \/ SaveExitOrder
  PROVE  FlattenStage'
<1>0. /\ exch \in Int /\ ord \in Order /\ ord.side \in Side /\ ord.qty \in Nat
      /\ ord.left \in Nat /\ faults \in Int
  BY OrderFacts, BoundsAssumption DEF TypeOK, ExchangeOK, BoundsOK
<1>1. CASE ExitCheck
  <2>1. PICK a \in {exch, 0} :
          /\ PositionAnswer(a)
          /\ \/ a = 0 /\ pc' = "resync" /\ ord' = NoOrder
             \/ a # 0 /\ pc' = "send" /\ ord' = [ord EXCEPT !.qty = MinOf(@, AbsLots(a))]
    BY <1>1 DEF ExitCheck
  <2>2. a = exch /\ pc = "exitCheck" /\ exch' = exch
    BY <1>0, <1>1, <2>1 DEF ExitCheck, PositionAnswer, exchVars
  <2>3. CASE a = 0
    <3>1. AbsLots(exch') <= Short
      BY <2>2, <2>3 DEF AbsLots, Short
    <3> QED BY <2>1, <2>2, <2>3, <3>1 DEF FlattenStage, Saves
  <2>4. CASE a # 0
    <3>1. Closes(ord.side, ord.qty) /\ AbsLots(exch) \in Nat
      BY <1>0, <2>2, LotFacts DEF FlattenStage
    <3>2. MinOf(ord.qty, AbsLots(exch)) = AbsLots(exch)
      BY <1>0, <3>1 DEF Closes, MinOf
    <3>3. ord' = [ord EXCEPT !.qty = AbsLots(exch)] /\ pc' = "send"
      BY <2>1, <2>2, <2>4, <3>2
    <3>4. ord'.qty = AbsLots(exch) /\ ord'.side = ord.side
      BY <1>0, <3>1, <3>3, OrderFields
    <3>5. Closes(ord.side, ord.qty)'
      BY <2>2, <3>1, <3>4 DEF Closes
    <3> QED BY <3>3, <3>5 DEF FlattenStage, Saves
  <2> QED BY <2>3, <2>4
<1>2. CASE SendAccepted
  <2>1. pc = "send" /\ pc' = "await" /\ exch' = exch
    BY <1>2 DEF SendAccepted, exchVars
  <2>2. ord'.left = Sent /\ ord'.side = ord.side
    BY <1>0, <1>2, AcceptedOrder DEF KeepsOrder
  <2>3. Sent \in Nat /\ Short \in Nat /\ ord.qty <= Sent + Short
    BY <1>0, SentFacts DEF Short
  <2>4. Closes(ord.side, ord.left + Short)'
    <3>1. Signed(ord.side, exch) <= 0 /\ AbsLots(exch) <= ord.qty /\ AbsLots(exch) \in Nat
      BY <1>0, <2>1, LotFacts DEF FlattenStage, Closes
    <3>2. AbsLots(exch) <= Sent + Short
      BY <1>0, <2>3, <3>1
    <3> QED BY <2>1, <2>2, <3>1, <3>2 DEF Closes, Short
  <2> QED BY <2>1, <2>4 DEF FlattenStage, Saves
<1>3. CASE SendRejected \/ PollFilled \/ PollCancelled
  <2>1. exch' = exch /\ pc' = "saveOrder"
    BY <1>3 DEF SendRejected, PollFilled, PollCancelled, exchVars
  <2>2. Signed(ord.side, exch) <= 0
    BY <1>3 DEF FlattenStage, Closes, SendRejected, PollFilled, PollCancelled
  <2>3. \/ Reducible(ord.side) = 0
        \/ AbsLots(exch) <= Short
    <3>1. CASE SendRejected \/ PollCancelled
      <4>1. ~(faults' = faults + 1)
        BY <1>0
      <4>2. ord.purpose # "entry"
        BY <3>1 DEF Control, WithOrder, SendRejected, PollCancelled
      <4>3. Reducible(ord.side) = 0
        BY <3>1, <4>1, <4>2, Zenon DEF SendRejected, PollCancelled
      <4> QED BY <4>3
    <3>2. CASE PollFilled
      <4>1. pc = "await" /\ ord.left = 0
        BY <3>2 DEF PollFilled
      <4>2. Closes(ord.side, ord.left + Short)
        BY <4>1 DEF FlattenStage
      <4> QED BY <4>1, <4>2 DEF Closes, Short
    <3> QED BY <1>3, <3>1, <3>2
  <2>4. AbsLots(exch) <= Short
    BY <1>0, <2>2, <2>3 DEF Reducible, AbsLots, Signed, Side, Short
  <2> QED BY <2>1, <2>4 DEF FlattenStage, Saves
<1>4. CASE SaveExitOrder
  <2>1. /\ AbsLots(exch) <= Short /\ exch' = exch
        /\ pc' \in {"resync", "stopped"} \/ (pc' = "saveClosed" /\ next' = "stopped")
    BY <1>4 DEF SaveExitOrder, FlattenStage, exchVars, Resume
  <2>2. AbsLots(exch') <= Short /\ Left'
    BY <2>1 DEF Left, Short
  <2> QED BY <2>1, <2>2 DEF FlattenStage, Saves
<1>5. ~PollsExhausted
  BY DEF PollsExhausted
<1> QED BY <1>1, <1>2, <1>3, <1>4, <1>5

\* A truthful sync leaves in memory what the exchange holds, but for dust.
LEMMA SyncCovers ==
  ASSUME TypeOK, NEW at, NEW cont, Sync(at, cont), faults' = faults
  PROVE  Covered(local.net)' /\ exch' = exch
<1>1. PICK a \in {exch, 0} : PositionAnswer(a) /\ SyncWith(a, cont)
  BY DEF Sync
<1>2. a = exch /\ exch' = exch
  BY <1>1, BoundsAssumption DEF PositionAnswer, Sync, exchVars, TypeOK, BoundsOK
<1>3. exch \in Int /\ local \in Position
  BY DEF TypeOK, PositionsOK, ExchangeOK
<1> DEFINE seen == IF IsDust(a) THEN 0 ELSE a
<1>4. local'.net = seen
  <2>1. CASE local.net # 0 /\ seen = 0
    BY <1>1, <2>1, PositionFacts DEF SyncWith
  <2>2. CASE local.net = 0 /\ seen # 0
    BY <1>1, <2>2 DEF SyncWith
  <2>3. CASE local.net # 0 /\ seen # 0 /\ seen # local.net
    <3>1. local' = [local EXCEPT !.net = seen] /\ seen \in Int
      BY <1>1, <1>2, <1>3, <2>3 DEF SyncWith
    <3> QED BY <1>3, <3>1, PositionFacts
  <2>4. CASE local.net = seen
    BY <1>1, <2>4 DEF SyncWith
  <2> QED BY <2>1, <2>2, <2>3, <2>4
<1>5. CASE IsDust(exch)
  BY <1>2, <1>4, <1>5 DEF Covered
<1>6. CASE ~IsDust(exch)
  <2>1. local'.net = exch /\ exch # 0
    BY <1>2, <1>3, <1>4, <1>6, LotsAssumption DEF IsDust, AbsLots
  <2>2. Signed(CloseSide(exch), exch) <= 0 /\ AbsLots(exch) <= AbsLots(exch)
    BY <1>3 DEF Signed, CloseSide, AbsLots
  <2> QED BY <1>2, <2>1, <2>2 DEF Covered, Closes
<1> QED BY <1>2, <1>5, <1>6

\* The syncs, commits and picks of stop() keep track of the position.
LEMMA FlattenBySync ==
  ASSUME TypeOK, Control, Memory, stopping, FlattenStage, faults' = faults,
         \/ FlattenSync \/ ResyncAfterExit \/ SaveOpen \/ SaveClosed \/ SaveTrade \/ FlattenPick
  PROVE  FlattenStage'
<1>0. /\ exch \in Int /\ local.net \in Int /\ faults \in Int
  BY PositionFacts, BoundsAssumption DEF TypeOK, ExchangeOK, PositionsOK, BoundsOK
<1>1. CASE FlattenSync
  <2>1. Covered(local.net)'
    BY <1>1, SyncCovers DEF FlattenSync
  <2>2. pc' = "flattenPick" \/ (pc' \in Saves /\ next' = "flattenPick")
    BY <1>1, SyncFacts DEF FlattenSync, SyncOutcome, Saves
  <2> QED BY <2>1, <2>2 DEF FlattenStage, Saves
<1>2. CASE ResyncAfterExit
  <2>1. pc' = "stopped" \/ (pc' \in Saves /\ next' = "stopped")
    BY <1>2, SyncFacts DEF ResyncAfterExit, SyncOutcome, Saves, Resume
  <2>2. AbsLots(exch) <= Short /\ exch' = exch
    BY <1>2, SyncFacts DEF ResyncAfterExit, FlattenStage
  <2>3. Left'
    BY <2>2 DEF Left, Short
  <2> QED BY <2>1, <2>3 DEF FlattenStage, Saves
<1>3. CASE SaveOpen \/ SaveClosed \/ SaveTrade
  <2>1. /\ pc \in Saves /\ exch' = exch /\ local' = local
        /\ pc' = next \/ (pc' = "saveTrade" /\ next' = next)
    BY <1>3 DEF SaveOpen, SaveClosed, SaveTrade, Saves, exchVars
  <2>2. next \in {"flattenPick", "stopped"}
    BY <2>1 DEF Control
  <2>3. CASE next = "flattenPick"
    <3>1. Covered(local.net)'
      BY <2>1, <2>3 DEF FlattenStage, Covered, Closes, IsDust
    <3> QED BY <2>1, <2>3, <3>1 DEF FlattenStage, Saves
  <2>4. CASE next = "stopped"
    <3>1. Left'
      BY <2>1, <2>4 DEF FlattenStage, Left, IsDust
    <3> QED BY <2>1, <2>4, <3>1 DEF FlattenStage, Saves
  <2> QED BY <2>2, <2>3, <2>4
<1>4. CASE FlattenPick
  <2>1. pc = "flattenPick" /\ exch' = exch /\ Covered(local.net)
    BY <1>4 DEF FlattenPick, exchVars, FlattenStage
  <2>2. ASSUME NEW n \in Int, n # 0, ord' = ExitOrder(CloseSide(n), AbsLots(n)), pc' = "exitCheck",
               Closes(CloseSide(n), AbsLots(n))
        PROVE  FlattenStage'
    <3>1. ord'.side = CloseSide(n) /\ ord'.qty = AbsLots(n)
      <4>1. CloseSide(n) \in Side /\ AbsLots(n) \in Nat
        BY LotFacts
      <4> QED BY <2>2, <4>1, OrderFields
    <3>2. Closes(ord.side, ord.qty)'
      BY <2>1, <2>2, <3>1 DEF Closes
    <3> QED BY <2>2, <3>2 DEF FlattenStage, Saves
  <2>3. CASE local.net # 0
    BY <1>0, <1>4, <2>1, <2>2, <2>3 DEF FlattenPick, Covered
  <2>4. CASE local.net = 0
    <3>1. PICK a \in {exch, 0} :
            /\ PositionAnswer(a)
            /\ \/ ~IsDust(a) /\ pc' = "exitCheck" /\ ord' = ExitOrder(CloseSide(a), AbsLots(a))
               \/ IsDust(a) /\ pc' = "stopped" /\ UNCHANGED ord
      BY <1>4, <2>4 DEF FlattenPick
    <3>2. a = exch
      BY <1>0, <3>1 DEF PositionAnswer
    <3>3. IsDust(exch)
      BY <2>1, <2>4 DEF Covered
    <3>4. Left'
      BY <2>1, <3>3 DEF Left, IsDust
    <3> QED BY <2>1, <3>1, <3>2, <3>3, <3>4 DEF FlattenStage, Saves
  <2> QED BY <2>3, <2>4
<1> QED BY <1>1, <1>2, <1>3, <1>4

\* Without a fault the flatten goes from stage to stage.
LEMMA FlatteningStep ==
  ASSUME Safe, Flattening, [Next]_vars, ~LateFills, FlattenOnShutdown
  PROVE  Flattening'
<1> SUFFICES ASSUME faults' = 0 PROVE NoEntryLeft' /\ (stopping' => FlattenStage')
  BY DEF Flattening
<1>0. /\ TypeOK /\ Control /\ Memory /\ faults' = faults /\ NoEntryLeft /\ ~Raise /\ ~Crash
      /\ (stopping => FlattenStage)
  BY FaultsGrow DEF Safe, Flattening
<1>1. NoEntryLeft'
  BY <1>0, NoEntryLeftStep
<1> SUFFICES ASSUME stopping' PROVE FlattenStage'
  BY <1>1
<1>2. CASE ~stopping
  <2>1. StopRequested
    <3>1. CASE StartSync \/ TickSync \/ ResyncAfterExit \/ FlattenSync
      BY <1>2, <3>1 DEF StartSync, TickSync, ResyncAfterExit, FlattenSync, Sync
    <3>2. CASE Started \/ SaveOpen \/ SaveClosed \/ SaveTrade \/ DecideNothing \/ DecideExit
               \/ \E s \in Side, q \in 1 .. MaxLots : DecideEntry(s, q)
      BY <1>2, <3>2 DEF Started, SaveOpen, SaveClosed, SaveTrade, DecideNothing, DecideExit,
         DecideEntry
    <3>3. CASE ExitCheck \/ SendAccepted \/ SendRejected \/ PollFilled \/ PollsExhausted
               \/ PollCancelled
      BY <1>2, <3>3 DEF ExitCheck, SendAccepted, SendRejected, PollFilled, PollsExhausted,
         PollCancelled
    <3>4. CASE SaveEntryOrder \/ SaveExitOrder \/ ProtectTP \/ ProtectSL \/ FlattenPick \/ Exit
      BY <1>2, <3>4 DEF SaveEntryOrder, SaveExitOrder, ProtectTP, ProtectSL, Protect,
         FlattenPick, Exit, Forget
    <3>5. CASE Operator
      BY <1>2, <3>5 DEF Operator, Boot, SetTradingEnabled
    <3>6. CASE Exchange \/ UNCHANGED vars
      BY <1>2, <3>6 DEF Exchange, FillAwaited, FillLateEntry, FillLateExit, ExpireLate,
         WindowPasses, TriggerProtective, ClosedOutside, engineVars, vars
    <3> QED BY <1>0, <3>1, <3>2, <3>3, <3>4, <3>5, <3>6 DEF Next, EngineStep, Failure
  <2>2. pc' = "flatten"
    BY <2>1 DEF StopRequested
  <2> QED BY <2>2 DEF FlattenStage, Saves
<1>3. CASE stopping
  <2>1. /\ pc \in WithOrder \cup Saves \cup {"flatten", "flattenPick", "resync", "stopped"}
        /\ (pc \in WithOrder => ord.purpose = "exit") /\ FlattenStage
    BY <1>0, <1>3 DEF Control
  <2>2. CASE FlattenSync \/ ResyncAfterExit \/ SaveOpen \/ SaveClosed \/ SaveTrade \/ FlattenPick
    BY <1>0, <1>3, <2>1, <2>2, FlattenBySync
  <2>3. CASE \/ ExitCheck \/ SendAccepted \/ SendRejected \/ PollFilled \/ PollsExhausted
             \/ PollCancelled \/ SaveExitOrder
    BY <1>0, <1>3, <2>1, <2>3, FlattenByOrder
  <2>4. CASE Exchange
    BY <1>0, <1>3, <2>1, <2>4, FlattenByExchange
  <2>5. CASE UNCHANGED vars
    BY <2>1, <2>5 DEF vars, exchVars, FlattenStage, Covered, Closes, IsDust, Left, Short
  <2>6. ~StartSync /\ ~TickSync /\ ~Started /\ ~Operator
    BY <2>1 DEF StartSync, TickSync, Sync, Started, Operator, Boot, StopRequested,
       SetTradingEnabled, WithOrder, Saves
  <2>7. ~DecideNothing /\ ~DecideExit /\ ~(\E s \in Side, q \in 1 .. MaxLots : DecideEntry(s, q))
    BY <2>1 DEF DecideNothing, DecideExit, DecideEntry, WithOrder, Saves
  <2>8. ~SaveEntryOrder /\ ~ProtectTP /\ ~ProtectSL
    BY <2>1 DEF SaveEntryOrder, ProtectTP, ProtectSL, Protect, WithOrder, Saves
  <2>9. ~Exit
    BY DEF Exit, Forget
  <2> QED BY <1>0, <2>2, <2>3, <2>4, <2>5, <2>6, <2>7, <2>8, <2>9 DEF Next, EngineStep, Failure
<1> QED BY <1>2, <1>3

\* If market orders fill while they are waited for, flatten_on_shutdown is set and nothing
\* failed so far, stop() ends with nothing left on the exchange but dust, or one lot that
\* _round_qty_down took from the exit order (_flatten_open_positions_on_shutdown): with a
\* step size that divides every quantity exactly, with nothing at all.
THEOREM StopsFlat ==
  ASSUME ~LateFills, FlattenOnShutdown
  PROVE  Spec => []StoppedFlat
<1>1. Init => Flattening
  BY DEF Init, Flattening, NoEntryLeft
<1>2. Safe /\ Flattening /\ [Next]_vars => Flattening'
  BY FlatteningStep
<1>3. Safe /\ Flattening => StoppedFlat
  <2> SUFFICES ASSUME Safe, Flattening, pc = "stopped", faults = 0
               PROVE  IsDust(exch) \/ (Lossy # {} /\ AbsLots(exch) = 1)
    BY DEF StoppedFlat
  <2>1. Left
    BY DEF Safe, Control, Flattening, FlattenStage
  <2>2. AbsLots(exch) \in Nat
    BY LotFacts DEF Safe, TypeOK, ExchangeOK
  <2> QED BY <2>1, <2>2, LotsAssumption DEF Left, Short, IsDust
<1> QED BY <1>1, <1>2, <1>3, Safety, PTL DEF Spec
-----------------------------------------------------------------------------
(* The way through stop() *)

\* Only a save has somewhere to return to.
Idle == pc \notin Saves => next = "loop"

LEMMA IdleStep == TypeOK /\ Idle /\ [Next]_vars => Idle'
<1> SUFFICES ASSUME TypeOK, Idle, [Next]_vars PROVE Idle'
  OBVIOUS
<1> USE DEF Idle, Saves
<1>1. ASSUME NEW at, NEW cont, Sync(at, cont), at \notin Saves PROVE Idle'
  BY <1>1, SyncFacts DEF SyncOutcome
<1>2. CASE StartSync \/ TickSync \/ ResyncAfterExit \/ FlattenSync
  BY <1>1, <1>2 DEF StartSync, TickSync, ResyncAfterExit, FlattenSync
<1>3. CASE Started \/ SaveOpen \/ SaveClosed \/ SaveTrade \/ SaveEntryOrder \/ SaveExitOrder
  BY <1>3 DEF Started, SaveOpen, SaveClosed, SaveTrade, SaveEntryOrder, SaveExitOrder
<1>4. CASE DecideNothing \/ DecideExit
           \/ \E s \in Side, q \in 1 .. MaxLots : DecideEntry(s, q)
  BY <1>4 DEF DecideNothing, DecideExit, DecideEntry
<1>5. CASE ExitCheck \/ SendAccepted \/ SendRejected \/ PollFilled \/ PollCancelled
           \/ PollsExhausted
  BY <1>5 DEF ExitCheck, SendAccepted, SendRejected, PollFilled, PollCancelled,
     PollsExhausted
<1>6. CASE ProtectTP \/ ProtectSL \/ FlattenPick \/ Exit
  BY <1>6 DEF ProtectTP, ProtectSL, Protect, FlattenPick, Exit, Forget
<1>7. CASE Operator \/ Failure
  BY <1>7 DEF Operator, Boot, StopRequested, SetTradingEnabled, Failure, Raise, Crash, Forget
<1>8. CASE Exchange \/ UNCHANGED vars
  BY <1>8 DEF Exchange, FillAwaited, FillLateEntry, FillLateExit, ExpireLate,
     TriggerProtective, ClosedOutside, WindowPasses, engineVars, vars
<1> QED BY <1>2, <1>3, <1>4, <1>5, <1>6, <1>7, <1>8 DEF Next, EngineStep

\* The places of stop(), by their distance from its end.
LEMMA Distances ==
  /\ \A n : n # "flattenPick" =>
       /\ Distance("down", n) = 0 /\ Distance("stopped", n) = 1
       /\ Distance("saveOpen", n) = 2 /\ Distance("saveTrade", n) = 2
       /\ Distance("saveClosed", n) = 3 /\ Distance("resync", n) = 4
       /\ Distance("saveOrder", n) = 5 /\ Distance("await", n) = 6
       /\ Distance("send", n) = 7 /\ Distance("exitCheck", n) = 8
       /\ Distance("flattenPick", n) = 9 /\ Distance("flatten", n) = 12
  /\ Distance("saveOpen", "flattenPick") = 10 /\ Distance("saveTrade", "flattenPick") = 10
  /\ Distance("saveClosed", "flattenPick") = 11
  BY DEF Distance

\* Every edge of the control flow inside stop() leads nearer to its end.
LEMMA StopStep ==
  ASSUME TypeOK, Control, Idle, [Next]_vars, stopping, pc' # pc
  PROVE  CallsLeft' < CallsLeft /\ CallsLeft <= 12
<1>0. /\ pc \in WithOrder \cup Saves \cup {"flatten", "flattenPick", "resync", "stopped"}
      /\ pc \in Saves => next \in {"flattenPick", "stopped"}
      /\ pc \notin Saves => next = "loop"
  BY DEF Control, Idle
<1> USE DEF Saves, WithOrder
<1>1. CallsLeft <= 12
  BY <1>0, Distances DEF CallsLeft
<1> SUFFICES CallsLeft' < CallsLeft
  BY <1>1
<1>2. ASSUME pc \in Saves,
             \/ pc \in {"saveOpen", "saveTrade"} /\ pc' = next /\ next' = "loop"
             \/ pc = "saveClosed" /\ pc' = "saveTrade" /\ next' = next
      PROVE  CallsLeft' < CallsLeft
  <2>1. CASE next = "flattenPick"
    BY <1>2, <2>1, Distances DEF CallsLeft
  <2>2. CASE next = "stopped"
    BY <1>2, <2>2, Distances DEF CallsLeft
  <2> QED BY <1>0, <1>2, <2>1, <2>2
<1>3. ASSUME pc = "flatten",
             \/ pc' \in {"saveOpen", "saveClosed"} /\ next' = "flattenPick"
             \/ pc' = "flattenPick" /\ next' = "loop"
      PROVE  CallsLeft' < CallsLeft
  BY <1>0, <1>3, Distances DEF CallsLeft
<1>4. ASSUME \/ pc = "flattenPick" /\ pc' \in {"exitCheck", "stopped"}
             \/ pc = "exitCheck" /\ pc' \in {"send", "resync"}
             \/ pc = "send" /\ pc' \in {"await", "saveOrder"}
             \/ pc = "await" /\ pc' = "saveOrder"
             \/ pc = "saveOrder" /\ pc' \in {"resync", "stopped"}
             \/ pc = "resync" /\ pc' = "stopped",
             next' = "loop"
      PROVE  CallsLeft' < CallsLeft
  BY <1>0, <1>4, Distances DEF CallsLeft
<1>5. ASSUME pc \in {"resync", "saveOrder"}, pc' \in {"saveOpen", "saveClosed"},
             next' = "stopped"
      PROVE  CallsLeft' < CallsLeft
  BY <1>0, <1>5, Distances DEF CallsLeft
<1>6. ASSUME pc' \in {"stopped", "down"}, next' = "loop"
      PROVE  CallsLeft' < CallsLeft
  <2>1. CallsLeft' = IF pc' = "stopped" THEN 1 ELSE 0
    BY <1>6, Distances DEF CallsLeft
  <2>2. CallsLeft \in Nat /\ CallsLeft > 0 /\ (pc # "stopped" => CallsLeft > 1)
    BY <1>0, Distances DEF CallsLeft
  <2> QED BY <1>6, <2>1, <2>2
<1>7. CASE StartSync \/ TickSync \/ ResyncAfterExit \/ FlattenSync
  <2>1. CASE StartSync \/ TickSync
    <3>1. pc \in {"boot", "loop"}
      BY <2>1 DEF StartSync, TickSync, Sync
    <3> QED BY <1>0, <3>1
  <2>2. CASE ResyncAfterExit
    <3>1. pc = "resync" /\ SyncOutcome("stopped")
      BY <2>2, SyncFacts DEF ResyncAfterExit, Resume
    <3> QED BY <1>0, <1>4, <1>5, <3>1 DEF SyncOutcome
  <2>3. CASE FlattenSync
    <3>1. pc = "flatten" /\ SyncOutcome("flattenPick")
      BY <2>3, SyncFacts DEF FlattenSync
    <3> QED BY <1>0, <1>3, <3>1 DEF SyncOutcome
  <2> QED BY <1>7, <2>1, <2>2, <2>3
<1>8. CASE SaveOpen \/ SaveClosed \/ SaveTrade
  BY <1>2, <1>8 DEF SaveOpen, SaveClosed, SaveTrade
<1>9. CASE Started \/ DecideNothing \/ DecideExit \/ ProtectTP \/ ProtectSL
           \/ \E s \in Side, q \in 1 .. MaxLots : DecideEntry(s, q)
  <2>1. pc \in {"started", "decide", "protectTP", "protectSL"}
    BY <1>9 DEF Started, DecideNothing, DecideExit, DecideEntry, ProtectTP, ProtectSL,
       Protect
  <2> QED BY <1>0, <2>1
<1>10. CASE ExitCheck \/ FlattenPick
  BY <1>0, <1>4, <1>10 DEF ExitCheck, FlattenPick
<1>11. CASE SendAccepted \/ SendRejected \/ PollFilled \/ PollCancelled \/ PollsExhausted
  BY <1>0, <1>4, <1>11 DEF SendAccepted, SendRejected, PollFilled, PollCancelled,
     PollsExhausted
<1>12. CASE SaveEntryOrder
  BY <1>12 DEF SaveEntryOrder, Control
<1>13. CASE SaveExitOrder
  BY <1>0, <1>4, <1>5, <1>13 DEF SaveExitOrder, Resume
<1>14. CASE Operator
  <2>1. pc \in {"down", "loop"}
    BY <1>14 DEF Operator, Boot, StopRequested, SetTradingEnabled
  <2> QED BY <1>0, <2>1
<1>15. CASE Exit \/ Raise \/ Crash
  <2>1. next' = "loop" /\ pc' \in {"stopped", "down"}
    BY <1>0, <1>15 DEF Exit, Raise, Crash, Forget, Starting
  <2> QED BY <1>6, <2>1
<1>16. CASE Exchange \/ UNCHANGED vars
  BY <1>16 DEF Exchange, FillAwaited, FillLateEntry, FillLateExit, ExpireLate,
     TriggerProtective, ClosedOutside, WindowPasses, engineVars, vars
<1> QED
  BY <1>7, <1>8, <1>9, <1>10, <1>11, <1>12, <1>13, <1>14, <1>15, <1>16
     DEF Next, EngineStep, Failure

\* stop() (core.py) never goes back: whatever it finds and whatever fails, it is over after
\* at most twelve calls and commits.
THEOREM StopNeverReturns == Spec => StopAdvances
<1>1. Init => Safe /\ Idle
  BY SafeInit DEF Init, Idle
<1>2. Safe /\ Idle /\ [Next]_vars => (Safe /\ Idle)'
  BY TypeOKStep, ControlStep, MemoryStep, BookingStep, IdleStep DEF Safe
<1>3. Safe /\ Idle /\ [Next]_vars
        => [stopping /\ pc' # pc => CallsLeft' < CallsLeft /\ CallsLeft <= 12]_vars
  BY StopStep DEF Safe
<1> QED BY <1>1, <1>2, <1>3, PTL DEF Spec, StopAdvances

-----------------------------------------------------------------------------
(* Reconciling *)

\* A read error is the only way by which a sync closes a position in the tables that the
\* exchange still holds: without one, _sync_position_with_exchange closes it only when
\* it is gone.
THEOREM ReconcilesWhenGone ==
  ASSUME ~ReadErrors
  PROVE  Spec => ReconcileOnlyWhenGone
<1>1. ASSUME TypeOK, NEW at, NEW cont, Sync(at, cont), cont # "saveClosed",
             pc' = "saveClosed"
      PROVE  IsDust(exch)
  <2>1. PICK a \in {exch, 0} : PositionAnswer(a) /\ SyncWith(a, cont)
    BY <1>1 DEF Sync
  <2>2. a = exch
    BY <2>1 DEF PositionAnswer
  <2>3. (IF IsDust(exch) THEN 0 ELSE exch) = 0
    BY <1>1, <2>1, <2>2 DEF SyncWith
  <2> QED BY <2>3, LotsAssumption DEF IsDust, AbsLots
<1>2. ASSUME TypeOK, [Next]_vars, pc \in {"boot", "loop", "resync", "flatten"},
             pc' = "saveClosed"
      PROVE  IsDust(exch)
  <2>1. StartSync \/ TickSync \/ ResyncAfterExit \/ FlattenSync
    <3>1. ~(TouchesPosition /\ ~(StartSync \/ TickSync \/ ResyncAfterExit \/ FlattenSync))
      BY <1>2 DEF TouchesPosition, SaveOpen, SaveClosed, SaveTrade, SaveEntryOrder,
         SaveExitOrder, Boot, Exit, Raise, Crash, Forget
    <3> QED BY <1>2, <3>1, PositionFrame DEF Saves
  <2> QED BY <1>1, <1>2, <2>1 DEF StartSync, TickSync, ResyncAfterExit, FlattenSync, Resume
<1>3. TypeOK /\ [Next]_vars
        => [(pc \in {"boot", "loop", "resync", "flatten"} /\ pc' = "saveClosed")
              => IsDust(exch)]_vars
  BY <1>2
<1> QED BY <1>3, TypeCorrect, PTL DEF Spec, ReconcileOnlyWhenGone
=============================================================================
