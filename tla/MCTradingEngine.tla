--------------------------- MODULE MCTradingEngine ---------------------------
(* Instances of TradingEngine for TLC; the constants are in the .cfg files. *)
EXTENDS TradingEngine
=============================================================================
