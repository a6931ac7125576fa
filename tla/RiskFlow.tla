------------------------------- MODULE RiskFlow -------------------------------
(***************************************************************************)
(* From a bar to an order: the signal agents, the risk agent, the          *)
(* portfolio they share and the part of the execution agent that answers   *)
(* them (trading/agents/signal.py, risk.py, portfolio.py, execution.py).   *)
(*                                                                         *)
(* The in-memory bus awaits the handlers of a message one after another,   *)
(* so a decision, its evaluation and the start of its execution are one    *)
(* step, up to the first call that leaves the process: the limiter and the *)
(* broker.  From there the intent is in flight while bars, fills of other  *)
(* orders, the day's end, the kill switch and a restart come between.      *)
(***************************************************************************)
EXTENDS Integers, Sequences, FiniteSets, FiniteSetsExt, Functions

CONSTANTS
  Strategy,
  SymbolOf, ProductOf,  \* Strategy -> what it trades
  Rules,                \* Strategy -> the sides its rules enter on
  Size,                 \* Strategy -> the quantity it suggests
  Lot,                  \* lot size of every symbol
  Slice,                \* most that one child order takes (plan_slices)
  Prices,               \* prices a bar can close at
  MaxPosition,          \* RiskLimits.max_position_value
  MaxGross,             \* RiskLimits.max_gross_exposure
  MaxLoss,              \* the daily loss limit in rupees
  Fee,                  \* charges of one fill
  Days,                 \* bound: trading days
  MaxIntents,           \* bound: intents
  MaxRestarts           \* bound: restarts

ASSUME RiskAssumption ==
  /\ IsFiniteSet(Strategy) /\ Size \in [Strategy -> Nat \ {0}]
  /\ DOMAIN SymbolOf = Strategy /\ DOMAIN ProductOf = Strategy
  /\ Rules \in [Strategy -> SUBSET {1, -1}]
  /\ Lot \in Nat \ {0} /\ Slice \in Nat \ {0} /\ Prices \subseteq Nat \ {0} /\ Prices # {}
  /\ {MaxPosition, MaxGross, MaxLoss, Fee, MaxIntents, MaxRestarts} \subseteq Nat
  /\ Days \in Nat \ {0}

VARIABLES
  pos,      \* Portfolio.positions: signed quantity of each symbol and product
  cash,     \* money paid and received, fees included
  price,    \* Portfolio.last_price
  day,      \* Portfolio.day: its day (0: None) and start_equity
  today,    \* the date of the clock
  latched,  \* RiskAgent.halted_day, 0 when None
  killed,   \* RiskAgent.killed
  halted,   \* ExecutionAgent.halted
  killing,  \* a KILL the execution agent has seen and the risk agent has not
  pending,  \* SignalAgent._pending: strategy -> intent, 0 when it has none
  intents,  \* the approved intents, as the execution agent carries them out
  restarts, \* restarts so far
  doubled,  \* keys an order was approved for while another was in flight (history)
  breached  \* days a fill of this process left at or past the limit (history)
book == <<pos, cash, price, day>>
gate == <<latched, killed, halted, killing>>
vars == <<book, today, gate, pending, intents, restarts, doubled, breached>>
-----------------------------------------------------------------------------
BUY  == 1
SELL == -1
Symbol == {SymbolOf[s] : s \in Strategy}
KeyOf(s) == <<SymbolOf[s], ProductOf[s]>>
Key == {KeyOf(s) : s \in Strategy}

Abs(n) == IF n < 0 THEN -n ELSE n
Least(S) == CHOOSE n \in S : \A m \in S : n <= m

\* Portfolio.equity, less what it started with.
Equity == cash + SumFunctionOnSet([k \in Key |-> pos[k] * price[k[1]]], Key)
Gross  == SumFunctionOnSet([k \in Key |-> Abs(pos[k]) * price[k[1]]], Key)
DayPnl == IF day.day = 0 THEN 0 ELSE Equity - day.start
RollDay == IF day.day = today THEN day ELSE [day |-> today, start |-> Equity]

\* "waiting" for the limiter or the broker, "working" at the exchange; "refused" by
\* check_approval, "lost" to a BrokerError.
InFlight == {"waiting", "working"}
Status   == InFlight \cup {"refused", "lost", "done"}
Intent   == [by: Strategy, side: {BUY, SELL}, entry: BOOLEAN, open: Nat, left: Nat,
             status: Status, ours: BOOLEAN]
Busy(k) == \E i \in DOMAIN intents : intents[i].status \in InFlight
                                     /\ KeyOf(intents[i].by) = k

\* A new process waits for no intent and has no snapshot of the day.
NothingPending == [s \in Strategy |-> 0]
NoSnapshot == [day |-> 0, start |-> 0]

\* SignalAgent._clear_pending.
Clear(i) == [s \in Strategy |-> IF pending[s] = i THEN 0 ELSE pending[s]]
-----------------------------------------------------------------------------
(* A bar.                                                                  *)

\* The portfolio is marked before any strategy sees the bar: it rolls the day with
\* the prices of the day before.
Mark(sym, p) ==
  /\ price' = [price EXCEPT ![sym] = p]
  /\ day' = RollDay
  /\ UNCHANGED <<pos, cash, today, gate, pending, intents, restarts, doubled, breached>>

\* RiskAgent._is_exit.
IsExit(s, side) == pos[KeyOf(s)] # 0 /\ (pos[KeyOf(s)] > 0) # (side = BUY)

\* RiskAgent._daily_loss lets entries through.
LossAllows == latched # today /\ DayPnl > -MaxLoss

\* _qty_for_value: whole lots only.
InLots(value, p) == ((value \div p) \div Lot) * Lot

PositionRoomUnpriced(s) == InLots(MaxPosition, 1)                \* mutated form
PositionRoom(s) ==
  LET p == price[SymbolOf[s]] IN InLots(MaxPosition - Abs(pos[KeyOf(s)]) * p, p)
GrossRoom(s) == InLots(MaxGross - Gross, price[SymbolOf[s]])

\* RiskAgent._kelly_size cuts an entry to any smaller number of lots.
KellySizes(qty) == {q \in 1..qty : q % Lot = 0}

\* SignalAgent.decide: flat, it enters by a rule; in a position it only exits it.
Wants(s) ==
  LET held == pos[KeyOf(s)]
  IN IF held # 0 THEN {[side |-> IF held > 0 THEN SELL ELSE BUY, qty |-> Abs(held)]}
     ELSE [side: Rules[s], qty: KellySizes(Size[s])]

\* What each of RiskAgent._rules leaves of it: none that is about money binds an exit.
Bounds(s, w) ==
  IF IsExit(s, w.side) THEN {w.qty} ELSE {w.qty, PositionRoom(s), GrossRoom(s)}
Rejects(s, w) == killed \/ (~IsExit(s, w.side) /\ ~LossAllows)

\* What RiskAgent.evaluate approves of it; 0 is a rejection.
Approved(s, w) == IF Rejects(s, w) THEN 0 ELSE Max({0, Min(Bounds(s, w))})

\* Slices of the plan: what the next child takes.
Child(left) == Min({left, IF Slice > Lot THEN (Slice \div Lot) * Lot ELSE Lot})

\* The intent of a strategy, with the quantity that was approved of it and the
\* status ExecutionAgent._on_approval gives it.
BuildIntent(s, w, q) ==
  [by |-> s, side |-> w.side, entry |-> ~IsExit(s, w.side), ours |-> TRUE,
   open |-> IF halted THEN 0 ELSE Child(q),
   left |-> IF halted THEN 0 ELSE q - Child(q),
   status |-> IF halted THEN "refused" ELSE "waiting"]

\* RiskAgent._on_intent of an approval.  A rejection, which hours, lots, costs or a
\* paused strategy cause as well, clears the pending intent again and leaves no trace.
OnIntent(s, w) ==
  LET q == Approved(s, w)
  IN /\ q > 0
     /\ intents' = Append(intents, BuildIntent(s, w, q))
     /\ doubled' = IF ~halted /\ Busy(KeyOf(s)) THEN doubled \cup {KeyOf(s)} ELSE doubled

\* A strategy decides on a bar of today: intent, evaluation and approval gate; a
\* refusal of the execution agent clears nothing.
Decide(s) ==
  /\ day.day = today /\ pending[s] = 0 /\ Len(intents) < MaxIntents
  /\ \E w \in Wants(s) : OnIntent(s, w)
  /\ pending' = [pending EXCEPT ![s] = Len(intents) + 1]
  /\ UNCHANGED <<book, today, gate, restarts, breached>>
-----------------------------------------------------------------------------
(* Orders.                                                                 *)

Ended(c)   == [c EXCEPT !.open = 0, !.left = 0, !.status = "done"]
NextChild(c) ==
  [c EXCEPT !.open = Child(c.left), !.left = c.left - Child(c.left), !.status = "waiting"]

\* _on_order_progress of a child that ended: the next slice, unless halted.
Advance(c) == IF c.left > 0 /\ c.ours /\ ~halted THEN NextChild(c) ELSE Ended(c)

\* The broker answers a placement: accepted, rejected or raised.
Place(i) ==
  LET c == intents[i]
  IN /\ c.status = "waiting"
     /\ \/ intents' = [intents EXCEPT ![i].status = "working"] /\ UNCHANGED pending
        \/ intents' = [intents EXCEPT ![i] = Ended(c)] /\ pending' = Clear(i)
        \/ /\ intents' = [intents EXCEPT ![i] = [Ended(c) EXCEPT !.status = "lost"]]
           /\ UNCHANGED pending
  /\ UNCHANGED <<book, today, gate, restarts, doubled, breached>>

\* RiskAgent._on_fill: the day is latched the moment a fill leaves it at the limit.
LatchNever(pnl) == latched                                       \* mutated form
Latch(pnl) == IF pnl <= -MaxLoss THEN today ELSE latched

\* Every strategy of the symbol forgets its pending intent, whoever the fill is of.
Forget(sym) == [s \in Strategy |-> IF SymbolOf[s] = sym THEN 0 ELSE pending[s]]

\* A fill reaches the portfolio, then the risk agent, then the strategies; it trades
\* at the last price.
Fill(i, q) ==
  LET c == intents[i]
      k == KeyOf(c.by)
      paid == c.side * q * price[k[1]] + Fee
      rolled == RollDay
      pnl == Equity - Fee - rolled.start
  IN /\ c.status = "working" /\ q <= c.open
     /\ pos' = [pos EXCEPT ![k] = @ + c.side * q]
     /\ cash' = cash - paid
     /\ day' = rolled
     /\ latched' = Latch(pnl)
     /\ breached' = IF pnl <= -MaxLoss THEN breached \cup {today} ELSE breached
     /\ pending' = Forget(k[1])
     /\ intents' = [intents EXCEPT ![i] =
          IF q = c.open THEN Advance([c EXCEPT !.open = 0]) ELSE [c EXCEPT !.open = @ - q]]
     /\ UNCHANGED <<price, today, killed, halted, killing, restarts, doubled>>

\* An order ends unfilled: its TTL, the kill switch, the exchange.  Strategies hear of
\* the orders the process can attribute.
ClearNone(i) == pending                                          \* mutated form
ClearEnded(i) == IF intents[i].ours THEN Clear(i) ELSE pending
Cancel(i) ==
  /\ intents[i].status = "working"
  /\ pending' = ClearEnded(i)
  /\ intents' = [intents EXCEPT ![i] = Advance([intents[i] EXCEPT !.open = 0])]
  /\ UNCHANGED <<book, today, gate, restarts, doubled, breached>>
-----------------------------------------------------------------------------
(* Control, time and crashes.                                              *)

\* KILL: the execution agent, whose cancels await the broker, then the risk agent.
ExecKill ==
  /\ halted' = TRUE /\ killing' = TRUE
  /\ UNCHANGED <<book, today, latched, killed, pending, intents, restarts, doubled, breached>>

RiskKill ==
  /\ killing /\ killed' = TRUE /\ killing' = FALSE
  /\ UNCHANGED <<book, today, latched, halted, pending, intents, restarts, doubled, breached>>

Resume ==
  /\ halted' = FALSE /\ killed' = FALSE
  /\ UNCHANGED <<book, today, latched, killing, pending, intents, restarts, doubled, breached>>

NextDay ==
  /\ today < Days /\ today' = today + 1
  /\ UNCHANGED <<book, gate, pending, intents, restarts, doubled, breached>>

\* The process dies and starts again: positions and equity are adopted from the broker,
\* working orders stay there unattributed, with any placement that had reached it, and
\* everything else is gone.
Restart ==
  /\ restarts < MaxRestarts /\ restarts' = restarts + 1
  /\ day' = NoSnapshot
  /\ latched' = 0 /\ killed' = FALSE /\ halted' = FALSE /\ killing' = FALSE
  /\ pending' = NothingPending
  /\ \E reached \in SUBSET {i \in DOMAIN intents : intents[i].status = "waiting"} :
       intents' = [i \in DOMAIN intents |->
         IF intents[i].status = "working" \/ i \in reached
         THEN [intents[i] EXCEPT !.status = "working", !.ours = FALSE, !.left = 0]
         ELSE Ended(intents[i])]
  /\ breached' = {}
  /\ UNCHANGED <<pos, cash, price, today, doubled>>

Init ==
  /\ pos = [k \in Key |-> 0] /\ cash = 0
  /\ price \in [Symbol -> Prices]
  /\ day = NoSnapshot /\ today = 1
  /\ latched = 0 /\ killed = FALSE /\ halted = FALSE /\ killing = FALSE
  /\ pending = NothingPending /\ intents = <<>>
  /\ restarts = 0 /\ doubled = {} /\ breached = {}

Market  == \E sym \in Symbol, p \in Prices : Mark(sym, p)
Signals == \E s \in Strategy : Decide(s)
Orders  == \E i \in DOMAIN intents :
             Place(i) \/ Cancel(i) \/ \E q \in 1..intents[i].open : Fill(i, q)
Control == ExecKill \/ RiskKill \/ Resume
Next == Market \/ Signals \/ Orders \/ Control \/ NextDay \/ Restart
Spec == Init /\ [][Next]_vars
-----------------------------------------------------------------------------
(* Properties.                                                             *)

\* Every variable has its type, and a pending intent was decided by the strategy
\* that waits for it.
TypeOK ==
  /\ pos \in [Key -> Int] /\ cash \in Int /\ price \in [Symbol -> Prices]
  /\ day \in [day: 0..today, start: Int] /\ today \in 1..Days
  /\ latched \in 0..today /\ killed \in BOOLEAN /\ halted \in BOOLEAN /\ killing \in BOOLEAN
  /\ intents \in Seq(Intent) /\ restarts \in 0..MaxRestarts
  /\ pending \in [Strategy -> 0..Len(intents)]
  /\ \A s \in Strategy : pending[s] # 0 => intents[pending[s]].by = s
  /\ doubled \subseteq Key /\ breached \subseteq 1..today

\* signal.py:107, "must not leave the strategy stuck": a strategy waits only for an
\* intent that still has an order coming or working, or that execution refused or lost
\* to a BrokerError; every other end reached it.
PendingLive ==
  \A s \in Strategy : pending[s] # 0 => intents[pending[s]].status # "done"

\* Caps and directions hold of the position, however prices, slices, other strategies
\* and days come between an approval and its fills, as long as no order of the key
\* was approved while another was in flight.
PositionSound ==
  \A s \in Strategy : KeyOf(s) \notin doubled =>
    LET held == pos[KeyOf(s)]
    IN /\ Abs(held) * Least(Prices) <= MaxPosition
       /\ held > 0 => \E r \in Strategy : KeyOf(r) = KeyOf(s) /\ BUY \in Rules[r]
       /\ held < 0 => \E r \in Strategy : KeyOf(r) = KeyOf(s) /\ SELL \in Rules[r]

\* risk.py:31: once a fill left the day at or past the loss limit, no entry is
\* approved for the rest of that day, even if prices recover; RESUME does not change it.
LossLatches ==
  [][\A i \in DOMAIN intents' \ DOMAIN intents : intents'[i].entry => today \notin breached]_vars
===============================================================================
