------------------------------ MODULE LiveEngine ------------------------------
(***************************************************************************)
(* The two drivers of the engine over a simulated broker: replay steps     *)
(* (TradingEngine.step) and a live feed (run_live).  What is at stake is   *)
(* the path of a fill: the broker copies it to every queue registered with *)
(* it, and each consumer of a queue hands it on to execution, which        *)
(* publishes it to the portfolio and to the strategy                       *)
(* (trading/agents/engine.py, execution.py, portfolio.py, brokers/paper.py).*)
(*                                                                         *)
(* One strategy, long only, trades one symbol intraday, in orders of one   *)
(* slice.  The limiter and the bus may suspend a task between two updates. *)
(***************************************************************************)
EXTENDS Integers, Sequences, SequencesExt, FiniteSetsExt

CONSTANTS
  Driver,       \* the drivers that are run: "replay", "live"
  Size,         \* the quantity of an entry
  MaxOrders,    \* bound: orders of the strategy
  MaxRestarts   \* bound: restarts

VARIABLES
  driver,     \* how this engine is driven
  up,         \* TradingEngine.started
  queues,     \* PaperBroker._update_queues: consumer -> updates it has not handled
  held,       \* PaperBroker._positions: the signed quantity
  orders,     \* PaperBroker._orders: signed quantity left; ours: in ExecutionAgent._working
  view,       \* Portfolio.positions
  pending,    \* SignalAgent._pending: the order its intent became, 0 when None
  feed,       \* the task that emits bars
  timer,      \* the manage loop; in a replay the end of the step
  restarts    \* restarts so far
broker == <<held, orders>>
agents == <<view, pending>>
tasks  == <<feed, timer>>
vars   == <<driver, up, queues, broker, agents, tasks, restarts>>
-----------------------------------------------------------------------------
\* "engine" is TradingEngine._queue, "pump" the stream of pump_updates.
Consumers == {"engine"} \cup (IF driver = "live" THEN {"pump"} ELSE {})

\* PaperBroker._emit: a copy for every queue.  Of the updates only the fills, as signed
\* quantities, tell an agent something that it does not know already.
Emitted(fills) == [c \in DOMAIN queues |-> queues[c] \o fills]

Working == {o \in DOMAIN orders : orders[o].left # 0}
\* What the market may do to the working orders: fill any part of each.
Portion(n) == IF n < 0 THEN n..0 ELSE 0..n
Matches == {m \in [Working -> UNION {Portion(orders[o].left) : o \in Working}] :
              \A o \in Working : m[o] \in Portion(orders[o].left)}

\* PaperBroker._fill for each fill of m.
Match(m) ==
  LET filled == SetToSortSeq({o \in Working : m[o] # 0}, <)
  IN /\ orders' = [o \in DOMAIN orders |->
                     IF o \in Working THEN [orders[o] EXCEPT !.left = @ - m[o]] ELSE orders[o]]
     /\ held' = held + MapThenSumSet(LAMBDA o : m[o], Working)
     /\ queues' = Emitted([k \in DOMAIN filled |-> m[filled[k]]])
-----------------------------------------------------------------------------
(* Starting and stopping.                                                  *)

\* sync adopts what the broker holds.
Adopted == held

\* start, and for a live feed run_live: each registers a queue of its own.
Start ==
  /\ ~up /\ up' = TRUE
  /\ queues' = [c \in Consumers |-> <<>>]
  /\ view' = Adopted /\ pending' = 0
  /\ UNCHANGED <<driver, broker, tasks, restarts>>

\* The queues go, and what is in them; the next process finds the broker's book on
\* disk and leaves the orders in it alone.
Stop ==
  /\ driver = "live" /\ up /\ restarts < MaxRestarts
  /\ up' = FALSE /\ restarts' = restarts + 1
  /\ queues' = <<>>
  /\ orders' = [o \in DOMAIN orders |-> [orders[o] EXCEPT !.ours = FALSE]]
  /\ feed' = "idle" /\ timer' = "idle"
  /\ UNCHANGED <<driver, held, agents>>
-----------------------------------------------------------------------------
(* Updates.                                                                *)

\* handle_update of the next fill: it reaches the portfolio, and clears what the
\* strategy waits for, whatever order it is of.
Handle(c) ==
  /\ queues[c] # <<>>
  /\ view' = view + Head(queues[c]) /\ pending' = 0
  /\ queues' = [queues EXCEPT ![c] = Tail(@)]
  /\ UNCHANGED <<driver, up, broker, restarts>>

\* drain_updates goes on until the queue is empty.
Drained == queues["engine"] = <<>>

Pump == /\ up /\ driver = "live"
        /\ Handle("pump") /\ UNCHANGED tasks

\* subscribe_live shows each tick to the broker before anyone else sees it.
Tick == /\ up /\ driver = "live"
        /\ \E m \in Matches : Match(m)
        /\ UNCHANGED <<driver, up, agents, tasks, restarts>>
-----------------------------------------------------------------------------
(* A bar: the broker matches it, its updates are handled, the strategy     *)
(* decides.                                                                *)

FeedBroker ==
  /\ up /\ feed = "idle" /\ feed' = "drain"
  /\ driver = "replay" => timer = "idle"
  /\ \E m \in Matches : Match(m)
  /\ UNCHANGED <<driver, up, agents, timer, restarts>>

Drain ==
  \/ feed = "drain" /\ ~Drained /\ Handle("engine") /\ UNCHANGED tasks
  \/ /\ feed = "drain" /\ Drained /\ feed' = "decide"
     /\ UNCHANGED <<driver, up, queues, broker, agents, timer, restarts>>

\* SignalAgent.decide: flat it may enter, in a position it may exit all it sees of it.
Quantity == IF view = 0 THEN Size ELSE -view

\* In a replay the rest of the step follows the last handler of the bar.
DecideDone == feed' = "idle" /\ timer' = IF driver = "replay" THEN "drain" ELSE timer

Rests ==
  /\ feed = "decide" /\ DecideDone
  /\ UNCHANGED <<driver, up, queues, broker, agents, restarts>>

\* An intent that risk and execution let through (what may come before its order is
\* placed is in RiskFlow and Execution): the order may be filled as it is placed.
Orders ==
  /\ feed = "decide" /\ pending = 0 /\ Len(orders) < MaxOrders
  /\ LET o == Len(orders) + 1
     IN \E q \in {0, Quantity} :
          /\ orders' = Append(orders, [left |-> Quantity - q, ours |-> TRUE])
          /\ held' = held + q
          /\ queues' = Emitted(IF q # 0 THEN <<q>> ELSE <<>>)
          /\ pending' = o
  /\ DecideDone
  /\ UNCHANGED <<driver, up, view, restarts>>
-----------------------------------------------------------------------------
(* The timer, which in a replay has its turn between bars.                 *)

Turn == up /\ timer = "idle" /\ (driver = "replay" => feed = "idle")

\* ExecutionAgent.cancel publishes the order itself, so the strategy stops waiting for it.
Cancelled(S) ==
  /\ orders' = [o \in DOMAIN orders |-> IF o \in S THEN [orders[o] EXCEPT !.left = 0] ELSE orders[o]]
  /\ pending' = IF pending \in S THEN 0 ELSE pending
Ours == {o \in Working : orders[o].ours}

\* manage at the end of an order's time to live.
Expire ==
  /\ Turn
  /\ \E o \in Ours : Cancelled({o})
  /\ timer' = IF driver = "replay" THEN "drain" ELSE timer
  /\ UNCHANGED <<driver, up, queues, held, view, feed, restarts>>

\* square_off_due: cancel, liquidate at the last price, drain.
SquareOff ==
  /\ Turn /\ held # 0
  /\ Cancelled(Ours)
  /\ held' = 0 /\ queues' = Emitted(<<-held>>)
  /\ timer' = "drain"
  /\ UNCHANGED <<driver, up, view, feed, restarts>>

SettleUpdates ==
  \/ timer = "drain" /\ ~Drained /\ Handle("engine") /\ UNCHANGED tasks
  \/ /\ timer = "drain" /\ Drained /\ timer' = "idle"
     /\ UNCHANGED <<driver, up, queues, broker, agents, feed, restarts>>
-----------------------------------------------------------------------------
Init ==
  /\ driver \in Driver /\ up = FALSE /\ queues = <<>>
  /\ held = 0 /\ orders = <<>>
  /\ view = 0 /\ pending = 0
  /\ feed = "idle" /\ timer = "idle" /\ restarts = 0

Next == Start \/ Stop \/ Pump \/ Tick \/ FeedBroker \/ Drain \/ Rests \/ Orders
        \/ Expire \/ SquareOff \/ SettleUpdates

Spec == Init /\ [][Next]_vars
-----------------------------------------------------------------------------
\* Once every update is handled, the portfolio shows the position the broker holds
\* (portfolio.py: the engine's own running view of it; engine.py: the wiring is the same
\* for live, paper and replay).
Mirrors == up /\ (\A c \in DOMAIN queues : queues[c] = <<>>) => view = held
=============================================================================
