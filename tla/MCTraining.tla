------------------------------ MODULE MCTraining ------------------------------
EXTENDS Training
\* One symbol trades in every bar, one lacks the last bar of day 3.
MCSymbols == <<"dense", "thin">>
MCListed == [s \in {"dense", "thin"} |-> IF s = "dense" THEN 1 .. Days * PerDay ELSE (1 .. Days * PerDay) \ {9}]
=============================================================================
