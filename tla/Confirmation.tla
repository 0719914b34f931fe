----------------------------- MODULE Confirmation -----------------------------
(***************************************************************************)
(* What the signal path promises about trading on the model's word: a      *)
(* position is entered or left on a model signal only when that signal     *)
(* completes an uninterrupted run of  need  equal signals, none of which   *)
(* was heard before the last entry, exit, restart or change of  need.      *)
(***************************************************************************)
EXTENDS Integers

CONSTANTS Modes      \* signal modes: a subset of {"long_only", "long_short"}

VARIABLES
  pos,     \* "flat", "LONG" or "SHORT"
  need,    \* signals that confirm
  mode,
  dir,     \* the signal last heard, "none" after a fresh start
  count,   \* how often it was heard in a row, need at most
  hearing  \* the model is being asked

vars == <<pos, need, mode, dir, count, hearing>>

Signals == {"BUY", "HOLD", "SELL"}

Init ==
  /\ pos = "flat" /\ need \in Nat \ {0} /\ mode \in Modes
  /\ dir = "none" /\ count = 0 /\ hearing = FALSE

FreshStart == dir' = "none" /\ count' = 0

\* The run after hearing a.
CountWith(a) ==
  IF a # dir THEN 1 ELSE IF count < need THEN count + 1 ELSE count

\* The model is asked, or gives no signal.
Ask == hearing' = ~hearing /\ UNCHANGED <<pos, need, mode, dir, count>>

Listen(a) ==
  /\ hearing /\ hearing' = FALSE
  /\ dir' = a /\ count' = CountWith(a)
  /\ UNCHANGED <<pos, need, mode>>

\* Which side a confirmed signal enters, and which signal leaves a side.
EntrySide(a) ==
  CASE a = "BUY" -> "LONG"
    [] a = "SELL" /\ mode = "long_short" -> "SHORT"
    [] OTHER -> "none"

Leaves(a) ==
  \/ pos = "LONG" /\ a = "SELL"
  \/ pos = "SHORT" /\ a = "BUY" /\ mode = "long_short"

Enter(a) ==
  /\ hearing /\ hearing' = FALSE
  /\ pos = "flat" /\ EntrySide(a) # "none" /\ CountWith(a) = need
  /\ pos' = EntrySide(a)
  /\ FreshStart
  /\ UNCHANGED <<need, mode>>

Leave(a) ==
  /\ hearing /\ hearing' = FALSE
  /\ Leaves(a) /\ CountWith(a) = need
  /\ pos' = "flat"
  /\ FreshStart
  /\ UNCHANGED <<need, mode>>

\* A take-profit, a stop-loss or the exchange ended the position.
Ended ==
  /\ ~hearing /\ hearing' = FALSE
  /\ pos # "flat" /\ pos' = "flat"
  /\ FreshStart
  /\ UNCHANGED <<need, mode>>

\* A position the engine did not open is taken over as the exchange shows it;
\* this is the one change that keeps the run.
Adopted ==
  /\ ~hearing /\ hearing' = FALSE
  /\ pos' \in {"LONG", "SHORT"}
  /\ UNCHANGED <<need, mode, dir, count>>

\* A restart, or other parameters.
Reconfigured ==
  /\ need' \in Nat \ {0} /\ mode' \in Modes /\ hearing' \in BOOLEAN
  /\ FreshStart
  /\ UNCHANGED pos

Next ==
  \/ Ask \/ Ended \/ Adopted \/ Reconfigured
  \/ \E a \in Signals : Listen(a) \/ Enter(a) \/ Leave(a)

Spec == Init /\ [][Next]_vars
===============================================================================
