------------------------------ MODULE MCRiskFlow ------------------------------
(* A small instance of RiskFlow for TLC: an intraday and a delivery strategy *)
(* on one symbol.                                                            *)
EXTENDS RiskFlow

CONSTANTS intraday, delivery

Symbols  == [s \in Strategy |-> "stock"]
Products == [s \in Strategy |-> IF s = intraday THEN "MIS" ELSE "CNC"]
LongOnly == [s \in Strategy |-> {BUY}]
ThreeOne == [s \in Strategy |-> IF s = intraday THEN 3 ELSE 1]
===============================================================================
