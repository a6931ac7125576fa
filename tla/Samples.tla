------------------------------- MODULE Samples -------------------------------
(***************************************************************************)
(* What a model is fitted on and judged on: labels (training/labels.py),   *)
(* rows (training/dataset.py), walk-forward folds and the holdout          *)
(* (training/splits.py) and the fit (training/train.py).                   *)
(*                                                                         *)
(* A bar is its place in the exchange's calendar and a frame is the set of *)
(* the bars a symbol has: an illiquid symbol lacks some.  A label is built *)
(* from the bars that follow, so all that matters of it is the last bar it *)
(* looks at; prices, features and weights are left out.                    *)
(***************************************************************************)
EXTENDS Integers, FiniteSets, FiniteSetsExt

CONSTANTS
  PerDay,    \* bars of a session
  Horizon,   \* bars a label looks ahead (LabelSpec.horizon)
  Spans,     \* whether a label may cross sessions (LabelSpec.spans_sessions)
  Warmup,    \* bars before the features of a symbol are defined
  Folds,     \* TrainConfig.n_folds
  Embargo,   \* TrainConfig.embargo
  MinTrain   \* TrainConfig.min_train

ASSUME SampleAssumption ==
  /\ {PerDay, Horizon, Folds, MinTrain} \subseteq Nat \ {0}
  /\ {Warmup, Embargo} \subseteq Nat
  /\ Spans \in BOOLEAN

None == 0
Start(d) == (d - 1) * PerDay + 1        \* the first bar of day d
DayOf(t) == ((t - 1) \div PerDay) + 1
Rank(S, t) == Cardinality({u \in S : u <= t})
-----------------------------------------------------------------------------
\* The last bar the label of t looks at: the horizon-th bar the symbol has after
\* it, and none at the end of the frame, or, for a product that is squared off,
\* when that bar is of another session.
Ahead(frame, t) ==
  LET later == {u \in frame : u > t}
  IN  IF Cardinality(later) < Horizon THEN None
      ELSE CHOOSE u \in later : Rank(later, u) = Horizon

LabelEnd(frame, t) ==
  IF ~Spans /\ DayOf(Ahead(frame, t)) # DayOf(t) THEN None ELSE Ahead(frame, t)

\* Every bar whose features are defined is a row, labelled or not.
Warm(frame) == {t \in frame : Rank(frame, t) > Warmup}
Rows(frames) == UNION {Warm(frames[s]) \X {s} : s \in DOMAIN frames}
Labelled(frames, rows) == {r \in rows : LabelEnd(frames[r[2]], r[1]) # None}
Times(rows) == {r[1] : r \in rows}
-----------------------------------------------------------------------------
\* The holdout is the last `held' times of the dataset; the purge before it is
\* counted in times of the dataset, those of all its symbols.
CanHold(rows, held) == held >= 1 /\ held + Horizon < Cardinality(Times(rows))
Earliest(rows, n) == {r \in rows : Rank(Times(rows), r[1]) <= n}

TrainRowsUnpurged(rows, held) == Earliest(rows, Cardinality(Times(rows)) - held)
TrainRows(rows, held) == Earliest(rows, Cardinality(Times(rows)) - held - Horizon)

Gap == Horizon + Embargo
BlockSize(n) == (n - MinTrain - Gap) \div Folds
CanFold(n) == BlockSize(n) >= 1 /\ n - Folds * BlockSize(n) - Gap >= MinTrain

\* The times of fold k of n: what it trains on, and the block it is scored on.
WalkForward(times) ==
  LET n == Cardinality(times)
      from(k) == n - (Folds - k) * BlockSize(n)
  IN  [k \in 0 .. Folds - 1 |->
         [train |-> {t \in times : Rank(times, t) <= from(k) - Gap},
          block |-> {t \in times : Rank(times, t) \in from(k) + 1 .. from(k) + BlockSize(n)}]]

\* A fold that trains on a label built from the block it is scored on.
FoldLeaks(frames, rows, s) ==
  LET folds == WalkForward(Times(rows))
  IN  \E k \in DOMAIN folds : \E t \in folds[k].train :
        <<t, s>> \in rows /\ LabelEnd(frames[s], t) >= Min(folds[k].block)
-----------------------------------------------------------------------------
CanFit(labelled) == Cardinality(labelled) >= MinTrain /\ CanFold(Cardinality(Times(labelled)))

\* What is left of a fit: the last bar each symbol's training labels look at, and
\* the symbols a fold leaked.
FitModel(frames, labelled) ==
  [seen  |-> [s \in DOMAIN frames |->
                Max({None} \cup {LabelEnd(frames[s], r[1]) : r \in {q \in labelled : q[2] = s}})],
   leaky |-> {s \in DOMAIN frames : FoldLeaks(frames, labelled, s)}]
=============================================================================
