----------------------------- MODULE MCBacktests -----------------------------
EXTENDS Backtests

\* "both" trades one symbol on minutes and on an interval of two, carrying its
\* position; "day" trades minutes and squares off; the archive has nothing for "void".
MCJob == {"both", "day", "void"}

MCRequest == [j \in MCJob |->
  CASE j = "both" -> [widths |-> {1, 2}, first |-> 1, last |-> 1, intraday |-> FALSE, close |-> TRUE]
    [] j = "day"  -> [widths |-> {1}, first |-> 1, last |-> 1, intraday |-> TRUE, close |-> FALSE]
    [] j = "void" -> [widths |-> {1}, first |-> 2, last |-> 3, intraday |-> FALSE, close |-> FALSE]]

MCPrice == <<2, 3, 2, 4, 3, 5, 2, 3, 2>>

\* Minutes of a day before the window and of the window.
MCArchived == {[start |-> t, width |-> 1, open |-> MCPrice[t + 1], close |-> MCPrice[t + 2]] : t \in 0 .. 5}

=============================================================================
