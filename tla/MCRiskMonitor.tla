--------------------------- MODULE MCRiskMonitor ---------------------------
(* RiskMonitor for TLC: an equity of 100 with trades and marks of a few per   *)
(* cent, so that the warning level, the alert threshold, the drawdown limit   *)
(* and the daily limit are crossed one by one and in every order.             *)
EXTENDS RiskMonitor

MCTradeResults == {-4, 0}
MCUnrealizedValues == {-5, 2}
MCMinPnLThreshold == -3
=============================================================================
