------------------------------ MODULE MCRiskGate ------------------------------
(* An instance of RiskGate for TLC. *)
EXTENDS RiskGate
MCLimits ==
  {[losses |-> 2, pause |-> 2, daily |-> 2, window |-> 0],
   [losses |-> 1, pause |-> 1, daily |-> 2, window |-> 1]}
===============================================================================
