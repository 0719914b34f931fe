---------------------------- MODULE PositionLedger ----------------------------
(***************************************************************************)
(* What position_snapshot and trade_result promise about the positions of  *)
(* one symbol, whatever fails in between: a position is stored open, then  *)
(* corrected, then stored closed and only then booked, each at most once   *)
(* and the last two in this order; once closed it is never open again.  As *)
(* long as the engine is not being stopped, what is closed is the position *)
(* that is stored, and no position is replaced by another one.             *)
(***************************************************************************)
EXTENDS Integers

CONSTANTS
  Ids,        \* identities of positions
  Untracked   \* stands for the identity of every other position

VARIABLES
  open,     \* the latest snapshot if it is of an open position, else NoPosition
  closed,   \* positions with a CLOSED snapshot
  rows,     \* [Ids -> number of trade_result rows]
  pending,  \* the position that was closed and is to be booked next, or NoPosition
  ending    \* stop() has begun, maybe after an error

vars == <<open, closed, rows, pending, ending>>

Position == [net : Int, id : Ids \cup {Untracked}]
NoPosition == [net |-> 0, id |-> Untracked]

\* A position that the tables do not know to be closed.
Fresh(p) == p \in Position /\ p.net # 0 /\ p.id \notin closed

Init ==
  /\ open = NoPosition /\ closed = {} /\ rows = [i \in Ids |-> 0]
  /\ pending = NoPosition /\ ending = FALSE

\* An entry, a position that was adopted, or one whose quantity changed at the
\* exchange.
Open ==
  /\ pending = NoPosition /\ Fresh(open')
  /\ open = NoPosition \/ open'.id = open.id
  /\ UNCHANGED <<closed, rows, pending, ending>>

\* stop() takes over what it finds at the exchange when a commit failed before.
Replace ==
  /\ ending /\ pending = NoPosition /\ Fresh(open')
  /\ UNCHANGED <<closed, rows, pending, ending>>

Close ==
  /\ pending = NoPosition /\ Fresh(pending')
  /\ ending \/ pending' = open
  /\ open' = NoPosition /\ closed' = closed \cup ({pending'.id} \cap Ids)
  /\ UNCHANGED <<rows, ending>>

Book ==
  /\ pending # NoPosition
  /\ pending.id \in Ids => rows[pending.id] = 0
  /\ rows' = IF pending.id \in Ids THEN [rows EXCEPT ![pending.id] = 1] ELSE rows
  /\ pending' = NoPosition
  /\ UNCHANGED <<open, closed, ending>>

\* stop() begins or the process ends; a trade that was to be booked next is not
\* booked any more.
Interrupted ==
  /\ pending' = NoPosition /\ ending' \in BOOLEAN
  /\ UNCHANGED <<open, closed, rows>>

Next == Open \/ Replace \/ Close \/ Book \/ Interrupted

Spec == Init /\ [][Next]_vars
===============================================================================
