-------------------------- MODULE MCTradingEngine --------------------------
(* TradingEngine for TLC. *)
EXTENDS TradingEngine
=============================================================================
