------------------------------ MODULE Backtests ------------------------------
(***************************************************************************)
(* The dashboard's backtests: rows in the database, an in-memory queue,    *)
(* one worker, and a thread per job that replays archived bars through the *)
(* engine against SimBroker.  The process stops and dies at any time; the  *)
(* rows and the result directories remain.                                 *)
(*                                                                         *)
(* One symbol of one exchange, traded by strategies of several intervals.  *)
(* Time is counted in minutes and only sessions have minutes: day d is the *)
(* minutes d * Session .. (d + 1) * Session - 1.  What strategies, risk    *)
(* and execution make of a bar is any order or none, and any cancellation. *)
(***************************************************************************)
EXTENDS Integers, Sequences, FiniteSets, SequencesExt

CONSTANTS
  Job,
  Request,      \* Job -> what was submitted: [widths, first, last, intraday, close]
  Archived,     \* the bars in the archive
  Session,      \* minutes of a session
  SquareOff,    \* mis_square_off_minutes
  Lookback,     \* bars before a strategy's features are warm
  Cash,         \* initial_cash
  FeePerUnit,
  Sizes,        \* order quantities
  MaxOrders,    \* bound on the orders a run places
  MaxRestarts   \* bound on stops and crashes

ASSUME BacktestAssumption ==
  /\ Request \in [Job -> [widths: SUBSET (Nat \ {0}), first: Nat, last: Nat,
                         intraday: BOOLEAN, close: BOOLEAN]]
  /\ \A j \in Job : IsFiniteSet(Request[j].widths)
  /\ IsFiniteSet(Archived)
  /\ Archived \subseteq [start: Nat, width: Nat \ {0}, open: Nat, close: Nat]
  /\ \A b \in Archived : (b.start % Session) % b.width = 0
  /\ \A b, c \in Archived : b.width = c.width /\ b.start = c.start => b = c
  /\ Session \in Nat \ {0} /\ SquareOff \in Nat /\ Lookback \in Nat
  /\ FeePerUnit \in Nat /\ Cash \in Nat
  /\ Sizes \subseteq Nat \ {0} /\ MaxOrders \in Nat /\ MaxRestarts \in Nat

VARIABLES
  process,   \* "down" | "up" | "stopping"
  row,       \* Job -> status in the database
  saved,     \* jobs whose result directory is complete
  queue,     \* BacktestJobs._queue
  worker,    \* what _work is at, and for which job
  thread,    \* the job replayed in a thread, the bars to come, its outcome
  sim,       \* clock and SimBroker of the replay
  replays,   \* Job -> how often its replay was started
  restarts   \* stops and crashes so far
btvars == <<process, row, saved, queue, worker, thread, sim, replays, restarts>>

NoJob    == [at |-> "idle"]
NoThread == [at |-> "none"]
Busy     == {"running", "saving"}
Ended    == {"returned", "failed"}

(*************************** the bars of a run ****************************)
DayOf(t) == t \div Session
Close(t) == (DayOf(t) + 1) * Session

Lower(a, b) == IF a < b THEN a ELSE b

\* MarketCalendar.bar_end: an interval later, at the close at the latest.
BarEnd(b) == Lower(b.start + b.width, Close(b.start))

\* MarketCalendar.bar_start
BarStart(t, width) == t - ((t % Session) % width)

OfWidth(bars, width) == {b \in bars : b.width = width}

\* BarBuilder.on_bar: the bar of some minutes opens with the first and closes
\* with the last there is.
Aggregate(minutes, start, width) ==
  LET first == CHOOSE m \in minutes : \A n \in minutes : m.start <= n.start
      last  == CHOOSE m \in minutes : \A n \in minutes : m.start >= n.start
  IN [start |-> start, width |-> width, open |-> first.open, close |-> last.close]

\* resample_bars
Resampled(minutes, width) ==
  {Aggregate({m \in minutes : BarStart(m.start, width) = s}, s, width) :
     s \in {BarStart(m.start, width) : m \in minutes}}

\* BacktestRunner._read: an interval that is not archived is made of minutes.
Read(width) ==
  IF OfWidth(Archived, width) # {} THEN OfWidth(Archived, width)
  ELSE Resampled(OfWidth(Archived, 1), width)

\* BacktestRunner.load_bars, the part inside the window.
Window(r) == {b \in UNION {Read(w) : w \in r.widths} : DayOf(b.start) \in r.first .. r.last}

\* BacktestRunner.warmup_start: a session more than the buffer takes.
WarmupStart(r, width) ==
  LET perSession == (Session + width - 1) \div width
  IN r.first - ((Lookback + perSession - 1) \div perSession + 1)

\* DataAgent.prime: the bars each interval's feature buffer has before the window.
Primed(r) ==
  [w \in r.widths |-> Cardinality({b \in Read(w) : /\ DayOf(b.start) >= WarmupStart(r, w)
                                                 /\ DayOf(b.start) < r.first})]

\* BacktestRunner.order_by_completion
Sooner(a, b) == \/ BarEnd(a) < BarEnd(b)
                \/ /\ BarEnd(a) = BarEnd(b)
                   /\ a.width < b.width
Soonest(bars) == {b \in bars : \A c \in bars : ~Sooner(c, b)}

\* A bar as the replay comes to it: how many were to come, with it, goes along.
Coming(bar, togo) == [start |-> bar.start, width |-> bar.width, open |-> bar.open,
                      close |-> bar.close, togo |-> togo]

(******************************* SimBroker ********************************)
\* An order: side 1 or -1, what is left of it, when it was created and, for the
\* properties, how many bars were to come and the interval that decided it
\* (0: the broker's own liquidation).
Fresh(r) == [clock |-> r.first * Session, cash |-> Cash, held |-> 0, last |-> 0,
             orders |-> <<>>, fills |-> <<>>]

Working(s) == {o \in DOMAIN s.orders : s.orders[o].left > 0}

\* PaperBroker._fill: a purchase the cash does not cover is rejected instead.
Fill(s, o, q, price, b, ts) ==
  LET side == s.orders[o].side
  IN IF side = 1 /\ q * price > s.cash
     THEN [s EXCEPT !.orders[o].left = 0]
     ELSE [s EXCEPT !.orders[o].left = @ - q,
                    !.held = @ + side * q,
                    !.cash = @ - side * q * price - FeePerUnit * q,
                    !.fills = Append(@, [order |-> o, side |-> side, qty |-> q, price |-> price,
                                         ts |-> ts, width |-> b.width, togo |-> b.togo])]

\* PaperBroker.on_bar: resting orders meet the bar at its open and are stamped
\* with its start; how much of each is open to the bar (limits, stops and
\* participation decide that).
OnBar(s, b, takes) ==
  LET met[o \in 0 .. Len(s.orders)] ==
        IF o = 0 THEN s
        ELSE IF takes[o] = 0 THEN met[o - 1]
        ELSE Fill(met[o - 1], o, takes[o], b.open, b, b.start)
  IN [met[Len(s.orders)] EXCEPT !.last = b.close]

\* PaperBroker._validate, for an equity.
Accepts(s, r, side, q) ==
  LET sells == {o \in Working(s) : s.orders[o].side = -1}
      left  == [o \in sells |-> s.orders[o].left]
  IN IF side = 1 THEN q * s.last <= s.cash
     ELSE r.intraday \/ q + SumFunction(left) <= s.held

PlacedAndFilled(s, b, side, q) ==                                 \* mutated form
  Fill([s EXCEPT !.orders = Append(@, [side |-> side, left |-> q, created |-> s.clock,
                                       width |-> b.width, togo |-> b.togo])],
       Len(s.orders) + 1, q, s.last, b, s.clock)

\* SimBroker.place_order: nothing is filled when it is placed.
Placed(s, b, side, q) ==
  [s EXCEPT !.orders = Append(@, [side |-> side, left |-> q, created |-> s.clock,
                                  width |-> b.width, togo |-> b.togo])]

\* ExecutionAgent.manage and cancel_where
Cancelled(s, orders) ==
  [s EXCEPT !.orders = [o \in DOMAIN @ |-> IF o \in orders THEN [@[o] EXCEPT !.left = 0] ELSE @[o]]]

\* PaperBroker.liquidate: the position is closed at the last price, now.
Liquidated(s, b) ==
  IF s.held = 0 THEN s
  ELSE LET side == IF s.held > 0 THEN -1 ELSE 1
           q    == IF s.held > 0 THEN s.held ELSE -s.held
           with == [s EXCEPT !.orders = Append(@, [side |-> side, left |-> q, created |-> s.clock,
                                                   width |-> 0, togo |-> b.togo])]
       IN Fill(with, Len(with.orders), q, s.last, b, s.clock)

\* TradingEngine.square_off_due
SquaredOff(s, b, r) ==
  IF r.intraday /\ s.held # 0 /\ s.clock >= Close(b.start) - SquareOff
  THEN Liquidated(Cancelled(s, Working(s)), b)
  ELSE s

\* SimClock.set
MayAdvance(s, t) == t >= s.clock
Advanced(s, t) == [s EXCEPT !.clock = t]

\* PaperBroker.equity
Equity(s) == s.cash + s.held * s.last

(***************************** match_trades *******************************)
\* A book: the round trips, the lots that are open, first in first, and what is
\* left of the fill that is being matched.
Unmatched == [trades |-> <<>>, lots |-> <<>>, left |-> 0]

\* A turn of the loop: the fill closes what it can of the first lot, if that is of
\* the other direction.
Turn(m, f) ==
  LET lot == Head(m.lots)
      q   == Lower(lot.qty, m.left)
  IN IF m.left = 0 \/ m.lots = <<>> \/ lot.dir = f.side THEN m
     ELSE [trades |-> Append(m.trades, [qty |-> q, dir |-> lot.dir, entry |-> lot.price,
                                        exit |-> f.price, fees |-> 2 * FeePerUnit * q]),
           lots   |-> IF q = lot.qty THEN Tail(m.lots) ELSE [m.lots EXCEPT ![1].qty = @ - q],
           left   |-> m.left - q]

RemainderLost(m, f) ==                                            \* mutated form
  IF m.left < f.qty THEN m.lots ELSE Append(m.lots, [qty |-> m.left, dir |-> f.side, price |-> f.price])

\* What is left of the fill then is a lot of its own.
Remainder(m, f) ==
  IF m.left = 0 THEN m.lots
  ELSE Append(m.lots, [qty |-> m.left, dir |-> f.side, price |-> f.price])

\* One fill against the lots.
Match(m, f) ==
  LET turns[n \in 0 .. Len(m.lots)] ==
        IF n = 0 THEN [m EXCEPT !.left = f.qty] ELSE Turn(turns[n - 1], f)
      after == turns[Len(m.lots)]
  IN [after EXCEPT !.lots = Remainder(after, f), !.left = 0]

\* The last of some fills by their time; those of one time are in order.
Latest(fills, S) ==
  CHOOSE i \in S : \A k \in S :
    \/ fills[k].ts < fills[i].ts
    \/ /\ fills[k].ts = fills[i].ts
       /\ k <= i

\* The fills one after the other, by their times.
Matched(fills) ==
  LET book[S \in SUBSET DOMAIN fills] ==
        IF S = {} THEN Unmatched
        ELSE Match(book[S \ {Latest(fills, S)}], fills[Latest(fills, S)])
  IN book[DOMAIN fills]

\* An open lot is valued at the last price and has paid its entry only.
Open(lot, last) == [qty |-> lot.qty, dir |-> lot.dir, entry |-> lot.price,
                    exit |-> last, fees |-> FeePerUnit * lot.qty]

MatchTrades(s) ==
  LET m == Matched(s.fills)
  IN m.trades \o [i \in DOMAIN m.lots |-> Open(m.lots[i], s.last)]

NetPnL(t) == (t.exit - t.entry) * t.qty * t.dir - t.fees

\* BacktestRunner._result: what a run reports of its account.
Result(s) == [trades |-> MatchTrades(s), equity |-> Equity(s)]

(******************************* the replay *******************************)
\* BacktestRunner.run up to the first bar, in the thread of the job.
Replay(j) ==
  [at |-> "running", job |-> j, bars |-> Window(Request[j]), known |-> Primed(Request[j])]

\* TradingEngine.step: the clock jumps to the bar's end (and refuses to go back),
\* the broker meets the bar, the strategies of its interval decide once
\* their features are warm, execution manages what works, intraday positions are
\* squared off.
Step ==
  /\ thread.at = "running"
  /\ \E next \in Soonest(thread.bars) :
       LET r == Request[thread.job]
           b == Coming(next, Cardinality(thread.bars))
           s == Advanced(sim, BarEnd(b))
       IN /\ MayAdvance(sim, BarEnd(b))
          /\ thread' = [thread EXCEPT !.bars = @ \ {next}, !.known[next.width] = @ + 1]
          /\ \E takes \in [DOMAIN s.orders -> UNION {0 .. q : q \in Sizes}] :
               /\ \A o \in DOMAIN s.orders : takes[o] <= s.orders[o].left
               /\ LET met == OnBar(s, b, takes)
                  IN \E decided \in {met} \cup
                          {Placed(met, b, d[1], d[2]) : d \in
                             {d \in {1, -1} \X Sizes : /\ Len(met.orders) < MaxOrders
                                                       /\ thread'.known[b.width] >= Lookback
                                                       /\ Accepts(met, r, d[1], d[2])}} :
                     \E ends \in SUBSET Working(decided) :
                        sim' = SquaredOff(Cancelled(decided, ends), b, r)
  /\ UNCHANGED <<process, row, saved, queue, worker, replays, restarts>>

\* The rest of BacktestRunner.run and of BacktestJobs._run: an empty window is an error.
Finish ==
  /\ thread.at = "running" /\ thread.bars = {}
  /\ LET r == Request[thread.job]
     IN IF Window(r) = {}
        THEN thread' = [thread EXCEPT !.at = "failed"] /\ UNCHANGED sim
        ELSE /\ thread' = [thread EXCEPT !.at = "saving"]
             /\ sim' = IF r.close THEN Liquidated(sim, [width |-> 0, togo |-> 0]) ELSE sim
  /\ UNCHANGED <<process, row, saved, queue, worker, replays, restarts>>

\* BacktestResult.save: a directory counts once it has its summary, which is
\* written last.
Save ==
  /\ thread.at = "saving"
  /\ saved' = saved \cup {thread.job}
  /\ thread' = [thread EXCEPT !.at = "returned"]
  /\ UNCHANGED <<process, row, queue, worker, sim, replays, restarts>>

\* Anything the run raises: a lot size, a model, a feature, a full disk.
Fail ==
  /\ thread.at \in Busy
  /\ thread' = [thread EXCEPT !.at = "failed"]
  /\ UNCHANGED <<process, row, saved, queue, worker, sim, replays, restarts>>

(******************************** the jobs ********************************)
BTInit ==
  /\ process = "down" /\ restarts = 0
  /\ row = [j \in Job |-> "none"] /\ saved = {}
  /\ queue = <<>> /\ worker = NoJob
  /\ thread = NoThread /\ sim = <<>>
  /\ replays = [j \in Job |-> 0]

\* BacktestRequest
Valid(r) == r.widths # {} /\ r.first <= r.last

\* BacktestJobs.submit: the row first, then the queue.
Submit(j) ==
  /\ process = "up" /\ row[j] = "none" /\ Valid(Request[j])
  /\ row' = [row EXCEPT ![j] = "queued"]
  /\ queue' = Append(queue, j)
  /\ UNCHANGED <<process, saved, worker, thread, sim, replays, restarts>>

RequeuedNone == {}                                                \* mutated form

\* The rows BacktestJobs.start puts into the queue again.
Requeued == {j \in Job : row[j] = "queued"}

BootRetries ==                                                    \* mutated form
  /\ process = "down"
  /\ process' = "up"
  /\ row' = [j \in Job |-> IF row[j] = "running" THEN "queued" ELSE row[j]]
  /\ \E order \in SetToSeqs({j \in Job : row'[j] = "queued"}) : queue' = order
  /\ worker' = NoJob
  /\ UNCHANGED <<saved, thread, sim, replays, restarts>>

\* BacktestJobs.start: what was running is failed, what was queued is queued
\* again, in the order the database returns it.
Boot ==
  /\ process = "down"
  /\ process' = "up"
  /\ row' = [j \in Job |-> IF row[j] = "running" THEN "failed" ELSE row[j]]
  /\ \E order \in SetToSeqs(Requeued) : queue' = order
  /\ worker' = NoJob
  /\ UNCHANGED <<saved, thread, sim, replays, restarts>>

\* _work and run_job up to the symbol map: a job that is no longer queued is dropped.
Take ==
  /\ process = "up" /\ worker = NoJob /\ queue # <<>>
  /\ LET j == Head(queue)
     IN /\ row' = [row EXCEPT ![j] = IF @ = "queued" THEN "running" ELSE @]
        /\ worker' = IF row[j] = "queued" THEN [at |-> "loading", job |-> j] ELSE NoJob
  /\ queue' = Tail(queue)
  /\ UNCHANGED <<process, saved, thread, sim, replays, restarts>>

\* The symbol map has come: asyncio.to_thread.
StartReplay ==
  /\ worker.at = "loading"
  /\ worker' = [worker EXCEPT !.at = "waiting"]
  /\ thread' = Replay(worker.job)
  /\ sim' = Fresh(Request[worker.job])
  /\ replays' = [replays EXCEPT ![worker.job] = @ + 1]
  /\ UNCHANGED <<process, row, saved, queue, restarts>>

\* The end of run_job: the row of a job that could not load the map, or whose
\* thread returned or raised.
Record ==
  /\ \/ worker.at = "loading"
     \/ worker.at = "waiting" /\ thread.at \in Ended
  /\ row' = [row EXCEPT ![worker.job] = IF thread.at = "returned" THEN "done" ELSE "failed"]
  /\ worker' = NoJob
  /\ thread' = NoThread /\ sim' = <<>>
  /\ UNCHANGED <<process, saved, queue, replays, restarts>>

\* BacktestJobs.stop at shutdown: the worker is cancelled, its row stays as it
\* is, and a thread that runs is not interrupted.
StopJobs ==
  /\ process = "up" /\ restarts < MaxRestarts
  /\ process' = "stopping"
  /\ worker' = NoJob /\ queue' = <<>>
  /\ restarts' = restarts + 1
  /\ UNCHANGED <<row, saved, thread, sim, replays>>

Gone ==
  /\ process' = "down"
  /\ worker' = NoJob /\ queue' = <<>>
  /\ thread' = NoThread /\ sim' = <<>>
  /\ UNCHANGED <<row, saved, replays>>

\* The interpreter waits for the thread before it exits.
Exit ==
  /\ process = "stopping" /\ thread.at \notin Busy
  /\ Gone /\ UNCHANGED restarts

Crash ==
  /\ process # "down" /\ restarts < MaxRestarts
  /\ Gone /\ restarts' = restarts + 1

WorkerStep == Take \/ StartReplay \/ Record
ThreadStep == Step \/ Finish \/ Save \/ Fail

BTNext ==
  \/ \E j \in Job : Submit(j)
  \/ Boot \/ WorkerStep \/ ThreadStep
  \/ StopJobs \/ Exit \/ Crash

BTSpec == BTInit /\ [][BTNext]_btvars

\* ThreadStep in the one variable that tells it from the other actions: TLC
\* decides its fairness much faster so.
ThreadMoves ==
  /\ thread.at \in Busy
  /\ \/ \E at \in {"saving"} \cup Ended : thread' = [thread EXCEPT !.at = at]
     \/ \E b \in Soonest(thread.bars) :
          thread' = [thread EXCEPT !.bars = @ \ {b}, !.known[b.width] = @ + 1]

\* The process is started again, the loop runs its worker, a thread computes.
FairBTSpec ==
  BTSpec /\ WF_btvars(Boot) /\ WF_btvars(Exit) /\ WF_btvars(WorkerStep) /\ WF_thread(ThreadMoves)

(******************************* properties *******************************)
Fills == IF thread = NoThread THEN {} ELSE {sim.fills[i] : i \in DOMAIN sim.fills}

Created(f) == sim.orders[f.order].created

\* An order decided on a bar waits for a later one, and trades at a price that
\* is older than the order only where the bar that fills it is of another
\* interval than the one that decided it (sim_broker.py, runner.py).
PeeksExplained ==
  \A f \in Fills :
    \/ sim.orders[f.order].width = 0
    \/ /\ f.togo < sim.orders[f.order].togo
       /\ f.ts < Created(f) => f.width # sim.orders[f.order].width

\* No fill at a price from before its order: "filling it at the close that
\* produced the signal is a quiet look-ahead" (sim_broker.py).
NoLookAhead == \A f \in Fills : f.ts >= Created(f)

\* The round trips a run reports, open ones at the last price, add up to what
\* its account gained (metrics.match_trades against the broker's cash and
\* position), at every bar and so at the end.
TradesAddUp ==
  thread # NoThread =>
    LET r == Result(sim)
    IN SumFunction([i \in DOMAIN r.trades |-> NetPnL(r.trades[i])]) = r.equity - Cash

\* A job is replayed once at most, whatever restarts come between, and is done
\* only with its result on disk (BacktestJobs.start, run_job, BacktestResult.save).
JobsOnce == \A j \in Job : replays[j] <= 1 /\ (row[j] = "done" => j \in saved)

\* Every submitted job ends, done or failed, also if the process stopped while it
\* waited (BacktestJobs.start, run_job).
JobsSettle == \A j \in Job : row[j] = "queued" ~> row[j] \in {"done", "failed"}
=============================================================================
