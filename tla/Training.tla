------------------------------- MODULE Training -------------------------------
(***************************************************************************)
(* From bars to the live model: the archive and its top-ups                *)
(* (training/ingest.py), the outcomes of logged signals                    *)
(* (training/signal_log.py), the training run, by night or by hand         *)
(* (training/schedule.py, scripts/train.py), the promotion gate            *)
(* (training/promote.py) and the registry (training/registry.py), for one  *)
(* model.                                                                  *)
(*                                                                         *)
(* Two processes share the files: the trainer, and an operator who moves   *)
(* the live pointer by hand (the command line, the API, the dashboard).    *)
(* Each file is replaced atomically, so a step is one read or one write.   *)
(* A run takes no time of the market; it can fail or die anywhere.         *)
(***************************************************************************)
EXTENDS Samples, Sequences, SequencesExt

CONSTANTS
  Days,         \* bound: days of the market
  Symbols,      \* the symbols of the job, in the order they are topped up
  Traded,       \* the symbols an engine trades
  Listed,       \* symbol -> the bars the exchange has
  WindowDays,   \* days of history per request (INTRADAY_WINDOW_DAYS)
  TopUpDays,    \* days fetched into an empty archive (lookback_days of ingest_symbol)
  Lookback,     \* ModelJob.lookback_days
  Holdout,      \* ModelJob.holdout_days
  MinTrades,    \* PromotionGate.min_trades
  HandHoldouts, \* values of --holdout-days
  MaxSignals, MaxVersions, MaxMoves, MaxFailures, MaxCrashes, MaxByHand   \* bounds

ASSUME TrainingAssumption ==
  /\ {Days, WindowDays, TopUpDays, Lookback, Holdout} \subseteq Nat \ {0}
  /\ Symbols \in Seq(ToSet(Symbols))
  /\ Listed \in [ToSet(Symbols) -> SUBSET (1 .. Days * PerDay)]
  /\ Traded \subseteq ToSet(Symbols)
  /\ HandHoldouts \subseteq Nat \ {0} /\ MinTrades \in Nat
  /\ {MaxSignals, MaxVersions, MaxMoves, MaxFailures, MaxCrashes, MaxByHand} \subseteq Nat

VARIABLES
  clock,      \* the last bar that is complete
  archive,    \* symbol -> its archived bars
  signals,    \* SignalLog: symbol, time, and the bar whose close the outcome was taken from
  versions,   \* the version directories: who asked, the holdout's first bar, the gate's
              \* decision, whether the model is written, and what FitModel left
  live,       \* live.json: version and stack
  trainer,    \* the training process: where it is, and what it holds
  operator,   \* a move by hand: the pointer it read, and where it goes
  lastNight,  \* the day of the last nightly run
  failures, crashes, byHand, moves,   \* bounds
  reigns      \* the versions that were live, oldest first (history)
files    == <<archive, signals, versions, live>>
counters == <<failures, crashes, byHand, moves>>
vars == <<clock, files, trainer, operator, lastNight, counters, reigns>>
-----------------------------------------------------------------------------
Symbol == ToSet(Symbols)
Today == DayOf(clock)
Idle == [pc |-> "idle"]
NoFile == [version |-> None, stack |-> <<>>]      \* live.json does not exist
Night == clock % PerDay = 0 /\ clock > 0          \* the market is closed

Init ==
  /\ clock = 0
  /\ archive = [s \in Symbol |-> {}]
  /\ signals = {} /\ versions = <<>> /\ live = NoFile
  /\ trainer = Idle /\ operator = Idle /\ lastNight = 0
  /\ failures = 0 /\ crashes = 0 /\ byHand = 0 /\ moves = 0
  /\ reigns = <<>>
-----------------------------------------------------------------------------
(* The market, and the engine that trades it.                              *)
BarCloses ==
  /\ trainer = Idle /\ clock < Days * PerDay
  /\ clock' = clock + 1
  /\ UNCHANGED <<files, trainer, operator, lastNight, counters, reigns>>

Logged(s) == [symbol |-> s, ts |-> clock, outcome |-> None]

SignalLogged(s) ==
  /\ trainer = Idle /\ Cardinality(signals) < MaxSignals /\ clock \in Listed[s]
  /\ signals' = signals \cup {Logged(s)}
  /\ UNCHANGED <<clock, archive, versions, live, trainer, operator, lastNight, counters, reigns>>
-----------------------------------------------------------------------------
(* The archive.                                                            *)
NextDayStart(last) == Start(DayOf(last) + 1)
NextBarStart(last) == last + 1

TopUpStart(s) ==
  IF archive[s] = {} THEN Start(Max({1, Today - TopUpDays})) ELSE NextBarStart(Max(archive[s]))

\* What a top-up to day `end' writes when it stops at bar `stop'.
Fetched(s, end, stop) ==
  {t \in Listed[s] : TopUpStart(s) <= t /\ t <= Min({clock, end * PerDay}) /\ t < stop}

\* A request that fails ends the top-up of the symbol at the start of a window;
\* the days of a window are written one by one.
WindowStarts(s) ==
  {t \in TopUpStart(s) .. clock : (t - TopUpStart(s)) % (WindowDays * PerDay) = 0}
DayStarts == {Start(d) : d \in 1 .. Days}

Write(s, end, stop) == archive' = [archive EXCEPT ![s] = @ \cup Fetched(s, end, stop)]

ToTheEnd == Days * PerDay + 1

IngestByHand(s) ==   \* scripts/ingest_history.py
  /\ trainer = Idle /\ byHand < MaxByHand /\ clock > 0
  /\ Write(s, Today, ToTheEnd)
  /\ byHand' = byHand + 1
  /\ UNCHANGED <<clock, signals, versions, live, trainer, operator, lastNight,
                 failures, crashes, moves, reigns>>
-----------------------------------------------------------------------------
(* The training run.                                                       *)
Job == [lookback |-> Lookback, holdout |-> Holdout]

Nightly ==
  /\ trainer = Idle /\ Len(versions) < MaxVersions /\ Night /\ lastNight < Today
  /\ trainer' = [pc |-> "ingest", by |-> "night", end |-> Today, job |-> Job,
                 promote |-> TRUE, left |-> Symbols]
  /\ lastNight' = Today
  /\ UNCHANGED <<clock, files, operator, counters, reigns>>

\* train.py fit, or nightly --once, for any day.
RunByHand ==
  /\ trainer = Idle /\ Len(versions) < MaxVersions /\ byHand < MaxByHand /\ clock > 0
  /\ \E end \in 1 .. Today, h \in HandHoldouts, promote \in BOOLEAN :
       trainer' = [pc |-> "fit", by |-> "hand", end |-> end, job |-> [Job EXCEPT !.holdout = h],
                   promote |-> promote, left |-> <<>>]
  /\ byHand' = byHand + 1
  /\ UNCHANGED <<clock, files, operator, lastNight, failures, crashes, moves, reigns>>

\* NightlyJob._ingest goes on with the next symbol whatever became of this one.
Ingested == [trainer EXCEPT !.left = Tail(@)]

TopUp ==
  /\ trainer.pc = "ingest" /\ trainer.left # <<>>
  /\ LET s == Head(trainer.left) IN
     \/ /\ Write(s, trainer.end, ToTheEnd)
        /\ UNCHANGED failures
     \/ /\ failures < MaxFailures
        /\ \E t \in WindowStarts(s) : Write(s, trainer.end, t)
        /\ failures' = failures + 1
  /\ trainer' = Ingested
  /\ UNCHANGED <<clock, signals, versions, live, operator, lastNight, crashes, byHand, moves, reigns>>

\* The horizon-th bar the archive has after the signal, whatever its session.
AttachOutcomes ==
  /\ trainer.pc = "ingest" /\ trainer.left = <<>>
  /\ signals' = {IF g.outcome # None \/ g.ts \notin archive[g.symbol] THEN g
                 ELSE [g EXCEPT !.outcome = Ahead(archive[g.symbol], g.ts)] : g \in signals}
  /\ trainer' = [trainer EXCEPT !.pc = "fit"]
  /\ UNCHANGED <<clock, archive, versions, live, operator, lastNight, counters, reigns>>

Archived(s, from, to) == {t \in archive[s] : from <= t /\ t <= to}
LoadFrames(end, days) == [s \in Symbol |-> Archived(s, Start(end - days), end * PerDay)]
HoldoutStart(end, days) == Start(end - days + 1)

\* run_job up to the directory of the new version; a ValueError ends the run.
Fit ==
  /\ trainer.pc = "fit"
  /\ LET frames   == LoadFrames(trainer.end, trainer.job.lookback)
         rows     == Rows(frames)
         from     == HoldoutStart(trainer.end, trainer.job.holdout)
         held     == Cardinality({t \in Times(rows) : t >= from})
         labelled == Labelled(frames, TrainRows(rows, held))
     IN  IF Labelled(frames, rows) # {} /\ CanHold(rows, held) /\ CanFit(labelled)
         THEN /\ versions' = Append(versions, [by |-> trainer.by, from |-> from, whole |-> FALSE,
                                                 decision |-> "none",
                                                 fit |-> FitModel(frames, labelled)])
              /\ trainer' = [trainer EXCEPT !.pc = "dump"]
         ELSE trainer' = Idle /\ UNCHANGED versions
  /\ UNCHANGED <<clock, archive, signals, live, operator, lastNight, counters, reigns>>

Candidate == Len(versions)      \* the newest directory
LiveVersion == live.version

Dump ==
  /\ trainer.pc = "dump"
  /\ versions' = [versions EXCEPT ![Candidate].whole = TRUE]
  /\ trainer' = IF trainer.promote THEN [trainer EXCEPT !.pc = "gate"] ELSE Idle
  /\ UNCHANGED <<clock, archive, signals, live, operator, lastNight, counters, reigns>>

\* evaluate_on_window: the rows of the dataset from the holdout's first bar on.
InWindow(rows, from) == {r \in rows : r[1] >= from}

\* evaluate_model: no new trade where the horizon cannot complete.
Tradable(frames, rows) == Labelled(frames, rows)

Decision(rival, trades) == [pc |-> "judge", rival |-> rival, trades |-> trades]

\* promote_if_better scores the candidate, then the model that is live by then, on
\* the frames of the run: an error, when that model's file is not written yet.
Gate ==
  /\ trainer.pc = "gate"
  /\ LET frames == LoadFrames(trainer.end, trainer.job.lookback)
         window == InWindow(Rows(frames), versions[Candidate].from)
         rival  == IF LiveVersion = Candidate THEN None ELSE LiveVersion
     IN  trainer' = IF rival = None \/ versions[rival].whole
                    THEN Decision(rival, Cardinality(Tradable(frames, window)))
                    ELSE Idle
  /\ UNCHANGED <<clock, files, operator, lastNight, counters, reigns>>

\* check_gate compares scores; here either verdict is possible, as long as the
\* window has rows enough to trade.
Passes == trainer.trades >= MinTrades

Decided(verdict) == versions' = [versions EXCEPT ![Candidate].decision = verdict]

Refuse ==
  /\ trainer.pc = "judge"
  /\ Decided("refused")
  /\ trainer' = Idle
  /\ UNCHANGED <<clock, archive, signals, live, operator, lastNight, counters, reigns>>
-----------------------------------------------------------------------------
(* The live pointer: set_live and rollback read it and then replace it.    *)
PromotedLast(read, v) ==
  [version |-> v,
   stack |-> IF read.version \in {None, v} THEN read.stack ELSE Append(read.stack, read.version)]
Promoted(read, v) ==
  [version |-> v,
   stack |-> IF read.version \in {None, v} THEN read.stack ELSE <<read.version>> \o read.stack]
RolledBack(read) == [version |-> Head(read.stack), stack |-> Tail(read.stack)]

SetPointer(pointer) == live' = pointer /\ reigns' = Append(reigns, pointer.version)

Promote ==
  /\ trainer.pc = "judge" /\ Passes
  /\ Decided("promoted")
  /\ trainer' = [pc |-> "move", to |-> Promoted(live, Candidate)]
  /\ UNCHANGED <<clock, archive, signals, live, operator, lastNight, counters, reigns>>

TrainerMoves ==
  /\ trainer.pc = "move"
  /\ SetPointer(trainer.to)
  /\ trainer' = Idle
  /\ UNCHANGED <<clock, archive, signals, versions, operator, lastNight, counters>>

\* By hand any version that has a directory can go live, without the gate.
OperatorReads ==
  /\ operator = Idle /\ moves < MaxMoves
  /\ \/ \E v \in DOMAIN versions : operator' = [pc |-> "move", to |-> Promoted(live, v)]
     \/ live.stack # <<>> /\ operator' = [pc |-> "move", to |-> RolledBack(live)]
  /\ moves' = moves + 1
  /\ UNCHANGED <<clock, files, trainer, lastNight, failures, crashes, byHand, reigns>>

OperatorMoves ==
  /\ operator.pc = "move"
  /\ SetPointer(operator.to)
  /\ operator' = Idle
  /\ UNCHANGED <<clock, archive, signals, versions, trainer, lastNight, counters>>

\* The trainer dies: in a top-up, after any day of the symbol under way.
Crash ==
  /\ trainer # Idle /\ crashes < MaxCrashes
  /\ IF trainer.pc = "ingest" /\ trainer.left # <<>>
     THEN \E t \in DayStarts : Write(Head(trainer.left), trainer.end, t)
     ELSE UNCHANGED archive
  /\ trainer' = Idle /\ crashes' = crashes + 1
  /\ UNCHANGED <<clock, signals, versions, live, operator, lastNight, failures, byHand, moves, reigns>>

Trainer == Nightly \/ RunByHand \/ TopUp \/ AttachOutcomes \/ Fit \/ Dump \/ Gate \/ Refuse
           \/ Promote \/ TrainerMoves \/ Crash
Operator == OperatorReads \/ OperatorMoves
Next ==
  \/ BarCloses \/ Trainer \/ Operator
  \/ \E s \in Traded : SignalLogged(s)
  \/ \E s \in Symbol : IngestByHand(s)

Spec == Init /\ [][Next]_vars
-----------------------------------------------------------------------------
\* Whatever top-ups failed, died or ran in the middle of a session, the archive
\* has every bar the exchange has between its first and its last, and the outcome
\* attached to a signal is taken from the horizon-th bar that followed it.
TopUpExact ==
  /\ \A s \in Symbol : \A t \in Listed[s] :
       archive[s] # {} /\ Min(archive[s]) <= t /\ t <= Max(archive[s]) => t \in archive[s]
  /\ \A g \in signals : g.outcome # None => g.outcome = Ahead(Listed[g.symbol], g.ts)

\* The gate compares out of sample: no training label of the candidate looks at a
\* bar of the window, no fold trained on the block it was scored on, and for the
\* models of the nightly job the live one has not seen the window either.  For
\* symbols without missing bars: the purge counts times, a label counts bars.
Dense(s) == Listed[s] = 1 .. Days * PerDay
OutOfSample ==
  trainer.pc = "judge" =>
    LET c == versions[Candidate] IN
    \A s \in {q \in Symbol : Dense(q)} :
      /\ c.fit.seen[s] < c.from /\ s \notin c.fit.leaky
      /\ trainer.rival # None /\ c.by = "night" /\ versions[trainer.rival].by = "night"
           => versions[trainer.rival].fit.seen[s] < c.from

\* Rollbacks walk back through what was live, newest first, without repeating a
\* version, though trainer and operator write the pointer they read earlier.
Backwards(walk, path) ==
  \E at \in [DOMAIN walk -> DOMAIN path] :
    /\ \A i, j \in DOMAIN walk : i < j => at[i] > at[j]
    /\ \A i \in DOMAIN walk : walk[i] = path[at[i]]
WalksBack ==
  LET walk == <<live.version>> \o live.stack IN
  live # NoFile =>
    /\ live.version = Last(reigns) /\ Backwards(walk, reigns)
    /\ \A i \in 1 .. Len(walk) - 1 : walk[i] # walk[i + 1]
=============================================================================
