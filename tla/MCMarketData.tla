----------------------------- MODULE MCMarketData -----------------------------
(* Instances of MarketData for TLC: two sessions of two windows. *)
EXTENDS MarketData
===============================================================================
