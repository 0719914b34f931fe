------------------------ MODULE PositionLedger_proofs ------------------------
(***************************************************************************)
(* TradingEngine implements PositionLedger for every value of its          *)
(* constants and without any assumption about failures: what crashes,      *)
(* failed commits, restarts and resynchronisations leave in                *)
(* position_snapshot and trade_result is always a history of that          *)
(* specification.                                                          *)
(*                                                                         *)
(* Safe, the invariant of TradingEngine_proofs, says that memory and       *)
(* tables agree outside a commit and that a position in use has no row     *)
(* yet.  It does not say that such a position was never closed, nor which  *)
(* position a commit under way is about: Lifecycle does, and is inductive  *)
(* together with Safe.                                                     *)
(***************************************************************************)
EXTENDS TradingEngine_proofs

\* No snapshot says CLOSED of a position with this identity.
Unclosed(i) == i \notin closedIds

\* A position in use, or about to be closed, was not closed before, and an identity
\* to be handed out was never used; what a commit under way writes belongs to the
\* stored position unless stop() has begun.
Lifecycle ==
  /\ Unclosed(local.id) /\ Unclosed(snap.id)
  /\ pc = "saveClosed" => closing.net # 0 /\ Unclosed(closing.id)
  /\ pc = "saveTrade" => closing.net # 0
  /\ \A i \in Ids : i >= nextId => Unclosed(i)
  /\ ~stopping /\ pc = "saveClosed" => closing = snap
  /\ ~stopping /\ pc = "saveOpen" => snap = NoPosition \/ local.id = snap.id
  /\ local.net = 0 => local = NoPosition
  /\ snap.net = 0 => snap = NoPosition

\* stop() begins at a signal or an error, and a process starts or ends.
LEMMA StoppingFrame ==
  [Next]_vars => StopRequested \/ Boot \/ Exit \/ Raise \/ Crash \/ stopping' = stopping
<1> SUFFICES ASSUME [Next]_vars, ~(StopRequested \/ Boot \/ Exit \/ Raise \/ Crash)
             PROVE  stopping' = stopping
  OBVIOUS
<1>1. CASE StartSync \/ TickSync \/ ResyncAfterExit \/ FlattenSync
  BY <1>1 DEF StartSync, TickSync, ResyncAfterExit, FlattenSync, Sync
<1>2. CASE Started \/ SaveOpen \/ SaveClosed \/ SaveTrade \/ SaveEntryOrder \/ SaveExitOrder
  BY <1>2 DEF Started, SaveOpen, SaveClosed, SaveTrade, SaveEntryOrder, SaveExitOrder
<1>3. CASE DecideNothing \/ DecideExit
           \/ \E s \in Side, q \in 1 .. MaxLots : DecideEntry(s, q)
  BY <1>3 DEF DecideNothing, DecideExit, DecideEntry
<1>4. CASE ExitCheck \/ SendAccepted \/ SendRejected \/ PollFilled \/ PollCancelled
           \/ PollsExhausted
  BY <1>4 DEF ExitCheck, SendAccepted, SendRejected, PollFilled, PollCancelled,
     PollsExhausted
<1>5. CASE ProtectTP \/ ProtectSL \/ FlattenPick \/ \E b \in BOOLEAN : SetTradingEnabled(b)
  BY <1>5 DEF ProtectTP, ProtectSL, Protect, FlattenPick, SetTradingEnabled
<1>6. CASE Exchange \/ UNCHANGED vars
  BY <1>6 DEF Exchange, FillAwaited, FillLateEntry, FillLateExit, ExpireLate,
     TriggerProtective, ClosedOutside, WindowPasses, engineVars, vars
<1> QED
  BY <1>1, <1>2, <1>3, <1>4, <1>5, <1>6 DEF Next, EngineStep, Operator, Failure

\* An entry order is placed, waited for and saved without a position in memory: no
\* step between the decision and the saved order looks at the exchange position.
EntersFlat == pc \in WithOrder /\ ord.purpose = "entry" => local.net = 0

LEMMA EntersFlatStep == TypeOK /\ Control /\ EntersFlat /\ [Next]_vars => EntersFlat'
<1> SUFFICES ASSUME TypeOK, Control, EntersFlat, [Next]_vars PROVE EntersFlat'
  OBVIOUS
<1> USE DEF WithOrder
<1>0. ControlOK
  BY DEF TypeOK
<1>1. ASSUME NEW at, NEW cont, Sync(at, cont), cont \notin WithOrder
      PROVE  EntersFlat'
  BY <1>1, SyncFacts DEF SyncOutcome, EntersFlat
<1>2. CASE StartSync \/ TickSync \/ ResyncAfterExit \/ FlattenSync
  BY <1>1, <1>2 DEF StartSync, TickSync, ResyncAfterExit, FlattenSync, Resume
<1>3. CASE Started \/ SaveOpen \/ SaveClosed \/ SaveTrade \/ DecideNothing
           \/ ProtectTP \/ ProtectSL \/ SaveEntryOrder \/ SaveExitOrder
  BY <1>0, <1>3 DEF Started, SaveOpen, SaveClosed, SaveTrade, DecideNothing, ProtectTP,
     ProtectSL, Protect, SaveEntryOrder, SaveExitOrder, Resume, ControlOK, EntersFlat
<1>4. CASE DecideExit
  BY <1>4 DEF DecideExit, ExitOrder, EntersFlat
<1>5. ASSUME NEW s \in Side, NEW q \in 1 .. MaxLots, DecideEntry(s, q)
      PROVE  EntersFlat'
  BY <1>5 DEF DecideEntry, EntersFlat
<1>6. CASE ExitCheck
  <2>1. ord.purpose = "exit" /\ ord \in Order /\ local' = local
    BY <1>6 DEF ExitCheck, Control, TypeOK
  <2>2. PICK a \in {exch, 0} :
          /\ PositionAnswer(a)
          /\ \/ pc' = "resync"
             \/ ord' = [ord EXCEPT !.qty = MinOf(@, AbsLots(a))]
    BY <1>6 DEF ExitCheck
  <2>3. MinOf(ord.qty, AbsLots(a)) \in Nat
    BY <2>1, <2>2, AnswerFacts, LotFacts, OrderFacts DEF TypeOK, ExchangeOK, BoundsOK
  <2>4. [ord EXCEPT !.qty = MinOf(@, AbsLots(a))].purpose = "exit"
    BY <2>1, <2>3, OrderFields
  <2> QED BY <2>2, <2>4 DEF EntersFlat
<1>7. CASE \/ SendAccepted \/ SendRejected \/ PollFilled \/ PollCancelled
           \/ PollsExhausted \/ \E k \in 1 .. MaxLots : FillAwaited(k)
  <2>1. KeepsOrder /\ pc \in WithOrder
    BY <1>7, OrderProgress
  <2>2. local' = local
    BY <1>7 DEF SendAccepted, SendRejected, PollFilled, PollCancelled, PollsExhausted,
       FillAwaited, engineVars
  <2> QED BY <2>1, <2>2 DEF KeepsOrder, EntersFlat
<1>8. CASE FlattenPick
  <2>1. pc' = "stopped" \/ \E s, q : ord' = ExitOrder(s, q)
    BY <1>8 DEF FlattenPick
  <2> QED BY <2>1 DEF ExitOrder, EntersFlat
<1>9. CASE Boot \/ StopRequested \/ Exit \/ Raise \/ Crash
           \/ \E b \in BOOLEAN : SetTradingEnabled(b)
  BY <1>9 DEF Boot, StopRequested, Exit, Raise, Crash, Forget, SetTradingEnabled,
     EntersFlat
<1>10. CASE UNCHANGED <<pc, ord, local>>
  BY <1>10 DEF EntersFlat
<1>11. CASE Exchange
  BY <1>7, <1>10, <1>11 DEF Exchange, FillLateEntry, FillLateExit, ExpireLate,
     TriggerProtective, ClosedOutside, WindowPasses, engineVars
<1>12. CASE UNCHANGED vars
  BY <1>10, <1>12 DEF vars
<1> QED
  BY <1>2, <1>3, <1>4, <1>5, <1>6, <1>7, <1>8, <1>9, <1>11, <1>12
     DEF Next, EngineStep, Operator, Failure

LEMMA LifecycleInit == Init => Lifecycle /\ EntersFlat
  BY PositionFacts DEF Init, Lifecycle, Unclosed, EntersFlat, WithOrder

\* Lifecycle is inductive: an identity is handed out once, and the engine closes or
\* corrects what it has stored as long as memory and tables agree.
LEMMA LifecycleStep == Safe /\ Lifecycle /\ EntersFlat /\ [Next]_vars => Lifecycle'
<1> SUFFICES ASSUME Safe, Lifecycle, EntersFlat, [Next]_vars PROVE Lifecycle'
  OBVIOUS
<1>0. /\ TypeOK /\ Control /\ Memory /\ Booking
      /\ ControlOK /\ PositionsOK /\ closedIds \subseteq Ids
      /\ nextId \in 1 .. (MaxPositions + 1)
  BY DEF Safe, TypeOK, TablesOK, BoundsOK
<1>1. NoPosition.net = 0 /\ NoPosition.id = 0 /\ 0 \notin Ids
  BY PositionFacts DEF Ids
<1>2. Unclosed(0)
  BY <1>0, <1>1 DEF Unclosed
<1>3. Unclosed(FreshId)
  BY <1>0, <1>2, FreshFacts DEF Lifecycle
<1>4. LET n == MinOf(nextId + 1, MaxPositions + 1) IN
        \A i \in Ids : i >= n => i >= nextId
  BY <1>0, FreshFacts DEF Ids
<1> USE DEF Saves
<1>5. ASSUME NEW at, NEW cont, Sync(at, cont), at \notin Saves \cup {"down"},
             cont \notin Saves
      PROVE  Lifecycle'
  <2>1. /\ pc = at /\ SyncOutcome(cont)
        /\ UNCHANGED <<stopping, snap, closedIds>>
    BY <1>0, <1>5, SyncFacts
  <2>2. ~stopping => snap = local
    BY <1>5, <2>1, <1>0 DEF Memory
  <2>3. CASE /\ local.net # 0 /\ local' = NoPosition /\ closing' = local
             /\ nextId' = nextId /\ pc' = "saveClosed"
    BY <1>1, <1>2, <2>1, <2>2, <2>3 DEF Lifecycle, Unclosed
  <2>4. CASE /\ local.net = 0 /\ local'.net # 0 /\ local'.id = FreshId
             /\ nextId' = MinOf(nextId + 1, MaxPositions + 1) /\ pc' = "saveOpen"
    BY <1>3, <1>4, <2>1, <2>2, <2>4 DEF Lifecycle, Unclosed
  <2>5. CASE /\ local'.net # 0 /\ local'.id = local.id
             /\ nextId' = nextId /\ pc' = "saveOpen"
    BY <2>1, <2>2, <2>5 DEF Lifecycle, Unclosed
  <2>6. CASE local' = local /\ closing' = closing /\ nextId' = nextId /\ pc' = cont
    BY <1>5, <2>1, <2>6 DEF Lifecycle, Unclosed
  <2> QED BY <2>1, <2>3, <2>4, <2>5, <2>6 DEF SyncOutcome
<1>6. CASE StartSync \/ TickSync \/ ResyncAfterExit \/ FlattenSync
  BY <1>5, <1>6 DEF StartSync, TickSync, ResyncAfterExit, FlattenSync, Resume
<1>7. CASE SaveOpen
  <2>1. local.net # 0 /\ pc' \notin Saves
    BY <1>0, <1>7 DEF SaveOpen, Memory, ControlOK
  <2> QED BY <1>7, <2>1 DEF SaveOpen, Lifecycle, Unclosed
<1>8. CASE SaveClosed
  <2>1. local = NoPosition /\ closing.id < nextId
    BY <1>0, <1>8 DEF SaveClosed, Memory, Booking
  <2>2. /\ closedIds' = closedIds \cup ({closing.id} \cap Ids)
        /\ snap' = NoPosition /\ pc' = "saveTrade"
        /\ UNCHANGED <<local, closing, nextId, stopping>>
    BY <1>8 DEF SaveClosed
  <2>3. \A i \in Ids : i >= nextId' => Unclosed(i)'
    BY <1>0, <2>1, <2>2, PositionFacts DEF Lifecycle, Unclosed, PositionsOK, Ids
  <2> QED BY <1>1, <1>8, <2>1, <2>2, <2>3, <1>2
        DEF SaveClosed, Lifecycle, Unclosed
<1>9. CASE SaveTrade
  <2>1. pc' \notin Saves /\ closing' = NoPosition
    BY <1>0, <1>9 DEF SaveTrade, ControlOK
  <2> QED BY <1>9, <2>1 DEF SaveTrade, Lifecycle, Unclosed
<1>10. CASE SaveEntryOrder
  <2>1. ~stopping /\ snap = local /\ ord.side \in Side /\ ord.qty \in Nat /\ ord.qty > 0
    BY <1>0, <1>10, OrderFacts DEF SaveEntryOrder, Control, Memory, WithOrder, TypeOK
  <2>2. Signed(ord.side, ord.qty) # 0
    BY <2>1 DEF Signed
  <2>3. local.net = 0 /\ UNCHANGED <<closing, snap, closedIds, stopping>>
    BY <1>10 DEF SaveEntryOrder, EntersFlat, WithOrder
  <2>4. \/ local'.net # 0 /\ local'.id = FreshId /\ pc' = "saveOpen"
           /\ nextId' = MinOf(nextId + 1, MaxPositions + 1)
        \/ pc' = "loop" /\ UNCHANGED <<local, nextId>>
    BY <1>10, <2>2 DEF SaveEntryOrder
  <2>5. CASE pc' = "loop" /\ UNCHANGED <<local, nextId>>
    BY <2>3, <2>5 DEF Lifecycle, Unclosed
  <2>6. CASE local'.net # 0 /\ local'.id = FreshId /\ pc' = "saveOpen"
           /\ nextId' = MinOf(nextId + 1, MaxPositions + 1)
    BY <1>3, <1>4, <2>1, <2>3, <2>6 DEF Lifecycle, Unclosed
  <2> QED BY <2>4, <2>5, <2>6
<1>11. CASE SaveExitOrder
  <2>1. ~stopping => snap = local
    BY <1>0, <1>11 DEF SaveExitOrder, Memory
  <2> QED BY <1>1, <1>2, <1>11, <2>1
        DEF SaveExitOrder, Resume, Lifecycle, Unclosed
<1>12. CASE Boot
  BY <1>12 DEF Boot, Recovered, dbVars, Lifecycle, Unclosed
<1>13. CASE Exit \/ Raise \/ Crash
  BY <1>1, <1>2, <1>13 DEF Exit, Raise, Crash, Forget, dbVars, Lifecycle, Unclosed
<1>14. ASSUME UNCHANGED positionVars, pc' \notin Saves PROVE Lifecycle'
  BY <1>14 DEF positionVars, Lifecycle, Unclosed
<1>15. CASE UNCHANGED positionVars /\ pc' = pc /\ pc \in Saves /\ ~TouchesPosition
  <2>1. stopping' = stopping
    BY <1>15, StoppingFrame DEF TouchesPosition, StopRequested
  <2> QED BY <1>15, <2>1 DEF positionVars, Lifecycle, Unclosed
<1> QED
  BY <1>6, <1>7, <1>8, <1>9, <1>10, <1>11, <1>12, <1>13, <1>14, <1>15, PositionFrame
     DEF TouchesPosition

\* Lifecycle joins the invariant of the engine.
THEOREM LifecycleHolds == Spec => [](Safe /\ Lifecycle /\ EntersFlat)
<1>1. Safe /\ Lifecycle /\ EntersFlat /\ [Next]_vars => (Safe /\ Lifecycle /\ EntersFlat)'
  <2>1. Safe /\ [Next]_vars => Safe'
    BY TypeOKStep, ControlStep, MemoryStep, BookingStep DEF Safe
  <2>2. Safe /\ EntersFlat /\ [Next]_vars => EntersFlat'
    BY EntersFlatStep DEF Safe
  <2> QED BY <2>1, <2>2, LifecycleStep
<1> QED BY <1>1, SafeInit, LifecycleInit, PTL DEF Spec

-----------------------------------------------------------------------------
(* The steps of the engine are steps of the ledger *)

Pending == IF pc = "saveTrade" THEN closing ELSE NoPosition

\* The abstract ledger has the same identities and the same records.
LEMMA SamePositions ==
  Ledger!Position = Position /\ Ledger!NoPosition = NoPosition
  BY DEF Ledger!Position, Ledger!NoPosition, Position, NoPosition

\* A position in use is one the ledger takes as fresh.
LEMMA InUseIsFresh ==
  ASSUME NEW p \in Position, p.net # 0, Unclosed(p.id)
  PROVE  Ledger!Fresh(p)
  BY SamePositions DEF Ledger!Fresh, Unclosed

LEMMA SaveOpenRefines ==
  ASSUME Safe, Lifecycle, SaveOpen
  PROVE  Ledger!Open \/ Ledger!Replace
<1>1. /\ pc = "saveOpen" /\ pc' = next /\ snap' = local
      /\ UNCHANGED <<closedIds, rows, stopping>>
  BY DEF SaveOpen
<1>2. pc' # "saveTrade" /\ local.net # 0 /\ local \in Position
  BY <1>1 DEF Safe, TypeOK, ControlOK, PositionsOK, Memory
<1>3. Ledger!Fresh(snap')
  BY <1>1, <1>2, InUseIsFresh DEF Lifecycle
<1>4. stopping \/ snap = NoPosition \/ snap'.id = snap.id
  BY <1>1 DEF Lifecycle
<1>5. Pending = NoPosition /\ Pending' = NoPosition
  BY <1>1, <1>2 DEF Pending
<1> QED BY <1>1, <1>3, <1>4, <1>5, SamePositions DEF Ledger!Open, Ledger!Replace, Pending

LEMMA SaveClosedRefines ==
  ASSUME Safe, Lifecycle, SaveClosed
  PROVE  Ledger!Close
<1>1. /\ pc = "saveClosed" /\ pc' = "saveTrade" /\ snap' = NoPosition
      /\ closedIds' = closedIds \cup ({closing.id} \cap Ids)
      /\ UNCHANGED <<closing, rows, stopping>>
  BY DEF SaveClosed
<1>2. Pending = NoPosition /\ Pending' = closing
  BY <1>1 DEF Pending
<1>3. Ledger!Fresh(closing) /\ (stopping \/ closing = snap)
  BY <1>1, InUseIsFresh DEF Lifecycle, Safe, TypeOK, PositionsOK
<1> QED BY <1>1, <1>2, <1>3, SamePositions DEF Ledger!Close, Pending

LEMMA SaveTradeRefines ==
  ASSUME Safe, Lifecycle, SaveTrade
  PROVE  Ledger!Book
<1>1. /\ pc = "saveTrade" /\ pc' = next
      /\ rows' = IF closing.id \in Ids THEN [rows EXCEPT ![closing.id] = @ + 1] ELSE rows
      /\ UNCHANGED <<snap, closedIds, stopping>>
  BY DEF SaveTrade
<1>2. pc' # "saveTrade" /\ closing # NoPosition
  BY <1>1, PositionFacts DEF Safe, TypeOK, ControlOK, Lifecycle
<1>3. closing.id \in Ids => rows[closing.id] = 0
  BY <1>1 DEF Safe, Booking, Unbooked
<1>4. rows' = IF closing.id \in Ids THEN [rows EXCEPT ![closing.id] = 1] ELSE rows
  <2>1. CASE closing.id \in Ids
    <3>1. rows[closing.id] + 1 = 1
      BY <1>3, <2>1
    <3> QED BY <1>1, <2>1, <3>1, Zenon
  <2>2. CASE closing.id \notin Ids
    BY <1>1, <2>2
  <2> QED BY <2>1, <2>2
<1>5. Pending = closing /\ Pending' = NoPosition
  BY <1>1, <1>2 DEF Pending
<1> QED BY <1>1, <1>2, <1>3, <1>4, <1>5, SamePositions DEF Ledger!Book, Pending

\* Every other step ends a commit that was under way, or leaves the tables alone.
LEMMA InterruptedRefines ==
  ASSUME Safe, StopRequested \/ Boot \/ Exit \/ Raise \/ Crash
  PROVE  Ledger!Interrupted
<1>1. UNCHANGED <<snap, closedIds, rows>> /\ pc' # "saveTrade" /\ stopping' \in BOOLEAN
  <2>1. CASE StopRequested \/ Boot \/ Exit
    BY <2>1 DEF StopRequested, Boot, Exit, Forget, dbVars
  <2>2. CASE Raise \/ Crash
    BY <2>2 DEF Raise, Crash, Forget, dbVars
  <2> QED BY <2>1, <2>2
<1> QED BY <1>1, SamePositions DEF Ledger!Interrupted

LEMMA StepRefines ==
  ASSUME Safe, Lifecycle, [Next]_vars
  PROVE  [Ledger!Next]_(Ledger!vars)
<1>1. CASE SaveOpen
  BY <1>1, SaveOpenRefines DEF Ledger!Next
<1>2. CASE SaveClosed
  BY <1>2, SaveClosedRefines DEF Ledger!Next
<1>3. CASE SaveTrade
  BY <1>3, SaveTradeRefines DEF Ledger!Next
<1>4. CASE StopRequested \/ Boot \/ Exit \/ Raise \/ Crash
  BY <1>4, InterruptedRefines DEF Ledger!Next
<1>5. ASSUME UNCHANGED <<snap, closedIds, rows, stopping>>, UNCHANGED Pending
      PROVE  UNCHANGED Ledger!vars
  BY <1>5, SamePositions DEF Ledger!vars, Pending
<1>6. ASSUME NEW at, NEW cont, Sync(at, cont), at # "saveTrade", cont # "saveTrade"
      PROVE  UNCHANGED Ledger!vars
  <2>1. pc # "saveTrade" /\ pc' # "saveTrade"
        /\ UNCHANGED <<snap, closedIds, rows, stopping>>
    BY <1>6, SyncFacts DEF SyncOutcome, Safe
  <2> QED BY <1>5, <2>1 DEF Pending
<1>7. CASE StartSync \/ TickSync \/ ResyncAfterExit \/ FlattenSync
  BY <1>6, <1>7 DEF StartSync, TickSync, ResyncAfterExit, FlattenSync, Resume
<1>8. CASE SaveEntryOrder \/ SaveExitOrder
  <2>1. pc # "saveTrade" /\ pc' # "saveTrade"
        /\ UNCHANGED <<snap, closedIds, rows, stopping>>
    BY <1>8 DEF SaveEntryOrder, SaveExitOrder, Resume
  <2> QED BY <1>5, <2>1 DEF Pending
<1>9. CASE UNCHANGED positionVars /\ UNCHANGED stopping /\ pc' = pc
  BY <1>5, <1>9 DEF positionVars, Pending
<1>10. CASE UNCHANGED positionVars /\ UNCHANGED stopping /\ pc' \notin Saves
  <2>1. Ledger!Interrupted
    BY <1>10, SamePositions
       DEF positionVars, Saves, Safe, TypeOK, ControlOK, Ledger!Interrupted
  <2> QED BY <2>1 DEF Ledger!Next
<1> QED
  BY <1>1, <1>2, <1>3, <1>4, <1>7, <1>8, <1>9, <1>10, PositionFrame, StoppingFrame
     DEF TouchesPosition

\* The tables of the engine keep what PositionLedger promises: whatever crashes, fails or
\* is found at the exchange, a position is stored open, stored closed and booked in this
\* order and at most once, is not open again after that, and outside stop() it is the
\* stored position that is corrected or closed.
THEOREM ImplementsLedger == Spec => LedgerKept
<1>1. Init => Ledger!Init
  BY SamePositions DEF Init, Ledger!Init
<1>2. Safe /\ Lifecycle /\ [Next]_vars => [Ledger!Next]_(Ledger!vars)
  BY StepRefines
<1> QED BY <1>1, <1>2, LifecycleHolds, PTL DEF Spec, LedgerKept, Ledger!Spec

===============================================================================
