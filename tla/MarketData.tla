------------------------------ MODULE MarketData ------------------------------
(***************************************************************************)
(* From the exchange's trades to bars: the market feed of the Dhan adapter *)
(* (trading/brokers/dhan.py), the bar builder and the data agent           *)
(* (trading/agents/data.py), for one symbol and one interval.              *)
(*                                                                         *)
(* A packet of the feed carries the last trade: its time, its quantity and *)
(* the volume of the session so far.  Packets come for trades and for      *)
(* changes of the market depth, which repeat the last trade.  Two tasks    *)
(* work on the builder: the feed, which handles the packets in order, and  *)
(* the flush loop, which closes windows by the clock.  Both publish, and   *)
(* while the handlers of a bar wait for a limiter or a broker their task   *)
(* does nothing else.                                                      *)
(***************************************************************************)
EXTENDS Integers, Sequences, SequencesExt, FiniteSets, FiniteSetsExt

CONSTANTS
  Width,          \* length of a window: interval.seconds
  Session,        \* length of a session
  End,            \* bound: the clock stops here
  LastTrade,      \* bound: no trade after this time
  Quantities,     \* quantities of a trade
  BufferSize,     \* bars the feature buffer holds (deque maxlen)
  MaxWire,        \* bound: packets under way
  MaxTrades,      \* bound: trades
  MaxDrops,       \* bound: disconnects of the feed
  MaxRestarts     \* bound: restarts of the process

ASSUME DataAssumption ==
  /\ Width \in Nat \ {0} /\ Session \in Nat \ {0} /\ Session % Width = 0
  /\ {End, LastTrade, MaxDrops, MaxRestarts} \subseteq Nat /\ LastTrade + Width < End
  /\ Quantities \subseteq Nat \ {0} /\ Quantities # {}
  /\ {BufferSize, MaxWire, MaxTrades} \subseteq Nat \ {0}

VARIABLES
  now,        \* the clock
  last,       \* the last trade: time, quantity and volume of its session
  traded,     \* volume of each window, as the exchange's history has it
  trades,     \* trades so far
  connected,  \* the websocket of the feed
  wire,       \* packets the feed has not handled
  drops,      \* disconnects so far
  builder,    \* BarBuilder: start and volume of the window, _prev_cum_volume, _session
  buffer,     \* DataAgent.buffer: the bars features are computed from
  busy,       \* the tasks inside a publication
  restarts,   \* restarts so far
  shown,      \* window -> the volume this process published for it last (history)
  seen,       \* session -> cumulative volume before and at the packets handled (history)
  late        \* sessions with a packet of a window already published (history)
exchange == <<last, traded, trades>>
feed     == <<connected, wire, drops>>
history  == <<shown, seen, late>>
vars == <<now, exchange, feed, builder, buffer, busy, restarts, history>>
-----------------------------------------------------------------------------
None == -1
Feed == "feed"
Flusher == "flusher"

\* MarketCalendar.bar_start, and the day of a tick.
Floor(t) == t - (t % Width)
SessionOf(t) == t \div Session
Windows  == {Floor(t) : t \in 0..End}
Sessions == {SessionOf(t) : t \in 0..End}

Bar(w, v) == [ts |-> w, volume |-> v]
Fresh == [start |-> None, volume |-> 0, prev |-> None, session |-> None]
Unseen == [base |-> 0, top |-> 0]
-----------------------------------------------------------------------------
(* The exchange and the feed.                                              *)

\* DhanMarketFeed.stream yields a tick for every packet that reaches it.
Deliver(packet) == IF connected THEN Append(wire, packet) ELSE wire

Trade(q) ==
  /\ now <= LastTrade /\ trades < MaxTrades /\ Len(wire) < MaxWire
  /\ trades' = trades + 1
  /\ last' = [ts |-> now, qty |-> q,
              cum |-> IF last.ts # None /\ SessionOf(last.ts) = SessionOf(now)
                      THEN last.cum + q ELSE q]
  /\ traded' = [traded EXCEPT ![Floor(now)] = @ + q]
  /\ wire' = Deliver(last')
  /\ UNCHANGED <<now, connected, drops, builder, buffer, busy, restarts, history>>

\* The depth changes: FeedState keeps the last trade and makes a tick of it.
DepthChange ==
  /\ connected /\ last.ts # None /\ Len(wire) < MaxWire
  /\ wire' = Append(wire, last)
  /\ UNCHANGED <<now, exchange, connected, drops, builder, buffer, busy, restarts, history>>

\* The connection breaks, and the stream reconnects after its backoff and subscribes.
Disconnect ==
  /\ connected /\ drops < MaxDrops
  /\ connected' = FALSE /\ wire' = <<>> /\ drops' = drops + 1
  /\ UNCHANGED <<now, exchange, builder, buffer, busy, restarts, history>>

Connect ==
  /\ ~connected /\ connected' = TRUE
  /\ wire' = IF last.ts = None THEN wire ELSE Append(wire, last)
  /\ UNCHANGED <<now, exchange, drops, builder, buffer, busy, restarts, history>>
-----------------------------------------------------------------------------
(* The bar builder and the data agent.                                     *)

\* BarBuilder._tick_volume: the cumulative volume as a difference, and the quantity of
\* the trade itself for the first tick of a session.
TickVolumeOneSession(tick) ==                                    \* mutated form
  IF builder.prev = None \/ tick.cum < builder.prev THEN tick.qty ELSE tick.cum - builder.prev
TickVolume(tick) ==
  IF \/ builder.session # SessionOf(tick.ts) \/ builder.prev = None
     \/ tick.cum < builder.prev
  THEN tick.qty ELSE tick.cum - builder.prev

\* DataAgent.emit_bar: older bars are dropped, the same window replaces its bar.
Keep(buf, bar) ==
  IF buf = <<>> \/ bar.ts > Last(buf).ts
  THEN LET grown == Append(buf, bar)
       IN IF Len(grown) > BufferSize THEN Tail(grown) ELSE grown
  ELSE IF bar.ts = Last(buf).ts THEN [buf EXCEPT ![Len(buf)] = bar] ELSE buf

\* A task emits a completed bar.
Emit(task, bar) ==
  /\ buffer' = Keep(buffer, bar)
  /\ IF Last(buffer') = bar
     THEN /\ shown' = [shown EXCEPT ![bar.ts] = bar.volume]
          /\ busy' = busy \cup {task}
     ELSE UNCHANGED <<shown, busy>>

\* BarBuilder.on_tick, and what it completes is emitted.
OnTick ==
  LET tick   == Head(wire)
      w      == Floor(tick.ts)
      s      == SessionOf(tick.ts)
      delta  == TickVolume(tick)
      opened == [start |-> w, volume |-> delta, prev |-> tick.cum, session |-> s]
      noted  == [builder EXCEPT !.prev = tick.cum, !.session = s]
  IN /\ Feed \notin busy /\ wire # <<>> /\ wire' = Tail(wire)
     /\ IF builder.start = None
        THEN builder' = opened /\ UNCHANGED <<buffer, busy, shown>>
        ELSE IF w > builder.start
        THEN builder' = opened /\ Emit(Feed, Bar(builder.start, builder.volume))
        ELSE /\ builder' = IF w = builder.start THEN [noted EXCEPT !.volume = @ + delta] ELSE noted
             /\ UNCHANGED <<buffer, busy, shown>>
     /\ seen' = [seen EXCEPT ![s] = [base |-> IF @ = Unseen THEN tick.cum - tick.qty ELSE @.base,
                                     top |-> tick.cum]]
     /\ late' = IF shown[w] # None THEN late \cup {s} ELSE late
  /\ UNCHANGED <<now, exchange, connected, drops, restarts>>

\* BarBuilder.close_if_due: its end has passed, whether or not anything traded in it.
DueIfTraded ==                                                   \* mutated form
  builder.start # None /\ now >= builder.start + Width /\ builder.volume > 0
Due == builder.start # None /\ now >= builder.start + Width

Flush ==
  /\ Flusher \notin busy /\ Due
  /\ builder' = [builder EXCEPT !.start = None]
  /\ Emit(Flusher, Bar(builder.start, builder.volume))
  /\ UNCHANGED <<now, exchange, feed, restarts, seen, late>>

\* The handlers of the bar, and of the features computed after it, have returned.
Done(task) ==
  /\ task \in busy /\ busy' = busy \ {task}
  /\ UNCHANGED <<now, exchange, feed, builder, buffer, restarts, history>>
-----------------------------------------------------------------------------
\* DataAgent.warmup of a process that starts: the newest windows with trades so far, in
\* order, the one that is not over included.
WarmBuffers ==
  LET known == {w \in Windows : traded[w] > 0}
      n == Min({Cardinality(known), BufferSize})
      newest == {q \in [1..n -> known] :
                   /\ \A i, j \in 1..n : i < j => q[i] < q[j]
                   /\ \A w \in known : (\A i \in 1..n : q[i] # w) => \A i \in 1..n : w < q[i]}
  IN {[i \in 1..n |-> Bar(q[i], traded[q[i]])] : q \in newest}

Restart ==
  /\ restarts < MaxRestarts /\ restarts' = restarts + 1
  /\ builder' = Fresh /\ busy' = {}
  /\ buffer' \in {<<>>} \cup WarmBuffers     \* nothing when the history cannot be had
  /\ connected' = FALSE /\ wire' = <<>>
  /\ shown' = [w \in Windows |-> None]
  /\ seen' = [s \in Sessions |-> Unseen] /\ late' = {}
  /\ UNCHANGED <<now, exchange, drops>>

TimePasses ==
  /\ now < End /\ now' = now + 1
  /\ UNCHANGED <<exchange, feed, builder, buffer, busy, restarts, history>>

Init ==
  /\ now = 0
  /\ last = [ts |-> None, qty |-> 0, cum |-> 0]
  /\ traded = [w \in Windows |-> 0] /\ trades = 0
  /\ connected = FALSE /\ wire = <<>> /\ drops = 0
  /\ builder = Fresh /\ buffer = <<>> /\ busy = {} /\ restarts = 0
  /\ shown = [w \in Windows |-> None]
  /\ seen = [s \in Sessions |-> Unseen] /\ late = {}

Exchange == (\E q \in Quantities : Trade(q)) \/ DepthChange
Network  == Disconnect \/ Connect
Agent    == OnTick \/ Flush \/ \E task \in {Feed, Flusher} : Done(task)
Next == Exchange \/ Network \/ Agent \/ Restart \/ TimePasses
Spec == Init /\ [][Next]_vars

\* The clock goes on, the flush loop runs, and handlers return.
FairSpec ==
  Spec /\ WF_vars(TimePasses) /\ WF_vars(Flush) /\ WF_vars(Done(Flusher))
-----------------------------------------------------------------------------
(* Properties.                                                             *)

\* Every variable has its type, and the buffer is ordered and within its size.
TypeOK ==
  /\ now \in 0..End /\ last.ts \in Windows \cup {None} \cup 0..now
  /\ traded \in [Windows -> Nat] /\ connected \in BOOLEAN /\ Len(wire) <= MaxWire + 1
  /\ builder.start \in Windows \cup {None} /\ builder.volume \in Nat
  /\ Len(buffer) <= BufferSize
  /\ \A i \in 2..Len(buffer) : buffer[i - 1].ts < buffer[i].ts
  /\ busy \subseteq {Feed, Flusher} /\ late \subseteq Sessions

\* What the bars of a session add up to: the latest version of each window, and the
\* window that is open.
Counted(s) ==
  LET done == {w \in Windows : SessionOf(w) = s /\ shown[w] # None}
  IN SumFunctionOnSet(shown, done)
     + (IF builder.start # None /\ SessionOf(builder.start) = s THEN builder.volume ELSE 0)

\* Volume is counted once: through lost packets, reconnects, repeated packets, closed
\* windows and new sessions the bars of a session add up to what the exchange traded from
\* the first packet handled to the last.  Only a packet stamped in a window that was
\* published already (data.py:107) makes them less, never more.
CountedOnce ==
  \A s \in Sessions : seen[s] # Unseen =>
    /\ Counted(s) <= seen[s].top - seen[s].base
    /\ s \notin late => Counted(s) = seen[s].top - seen[s].base

\* A window that is open is closed and published, even if no packet ever comes again.
WindowCloses == \A w \in Windows : builder.start = w ~> builder.start # w
===============================================================================
