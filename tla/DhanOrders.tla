------------------------------ MODULE DhanOrders ------------------------------
(***************************************************************************)
(* One sliced plan of the execution agent traded through the Dhan adapter  *)
(* (trading/brokers/dhan.py, trading/agents/execution.py).                 *)
(*                                                                         *)
(* An order is known in three places: at the exchange, in the adapter's    *)
(* cache (DhanBroker._orders) and in the agent (_orders_seen, _working).   *)
(* The agent learns of a change twice over: from the answers of its REST   *)
(* calls and from the order-update websocket, and nothing orders the two.  *)
(* Every call is a request, its service at the exchange and its answer;    *)
(* the request or the answer may be lost, and the client then asks again.  *)
(* Four tasks of one event loop make calls, one at a time each: "feed"     *)
(* (approvals), "pump" (the update stream), "manage" (the timer loop) and  *)
(* "control" (the kill switch).                                            *)
(***************************************************************************)
EXTENDS Integers, Sequences, FiniteSets, FiniteSetsExt

CONSTANTS
  Slices,      \* child orders of the plan
  Qty,         \* Child -> its quantity
  MaxChase,    \* cfg.max_chase_steps
  MaxRetries,  \* DhanConfig.max_retries
  MaxFaults    \* bound: lost requests or answers, disconnects and restarts

ASSUME DhanAssumption ==
  /\ Slices \in Nat \ {0} /\ Qty \in [1..Slices -> Nat \ {0}]
  /\ MaxChase \in Nat /\ MaxRetries \in Nat /\ MaxFaults \in Nat

VARIABLES
  market,    \* the exchange's orders
  stream,    \* order updates sent on the websocket and not yet handled
  connected, \* the websocket is up
  cache,     \* DhanBroker._orders
  phase,     \* TradingEngine.start: what is still to be read from the broker
  halted,    \* ExecutionAgent.halted
  approved,  \* the process acted on its approval: there is a plan
  placed,    \* plan.placed
  advanced,  \* plan.advanced
  seen,      \* _orders_seen
  working,   \* _working: order -> chase steps
  overdue,   \* working orders past their deadline
  counted,   \* what the portfolio holds of each order, from fills and positions
  calls,     \* the REST call a task awaits
  todo,      \* what is left of a task's loop over working orders
  faults,    \* faults so far
  missed,    \* orders whose last update was lost (history)
  skewed,    \* orders an answer gave another filled quantity than updates (history)
  overtaken, \* orders whose placement answered after their last update (history)
  disowned   \* orders of an earlier process, or whose placement raised (history)
exchange == <<market, stream, connected>>
plan     == <<halted, approved, placed, advanced>>
history  == <<missed, skewed, overtaken, disowned>>
vars     == <<exchange, cache, phase, plan, seen, working, overdue, counted, calls, todo,
              faults, history>>
-----------------------------------------------------------------------------
Child == 1..Slices
Task  == {"feed", "pump", "manage", "control"}

\* STATUS_FROM_DHAN: "open" stands for PENDING, OPEN and PARTIAL.
Status == {"none", "open", "filled", "cancelled", "rejected"}
Closed == {"filled", "cancelled", "rejected"}
Copy   == [status: Status, filled: Nat]
None   == [status |-> "none", filled |-> 0]
As(s, q) == [status |-> s, filled |-> q]
Update(c, copy) == [id |-> c, copy |-> copy]

\* A call, until its answer is consumed; "refused" is an error that is not retried.
Op      == {"place", "look", "put", "relook", "cancel"}
Waiting == As("waiting", 0)
Refused == As("refused", 0)
NoCall  == [op |-> "idle", id |-> 0, tries |-> 0, reply |-> Waiting]
Call    == {NoCall} \cup
           [op: Op, id: Child, tries: 0..MaxRetries, reply: Copy \cup {Waiting, Refused}]
Ask(op, c) == [op |-> op, id |-> c, tries |-> 0, reply |-> Waiting]

Free(t)     == phase = "up" /\ calls[t] = NoCall /\ todo[t] = {}
Done(t)     == calls' = [calls EXCEPT ![t] = NoCall]
Begin(t, k) == calls' = [calls EXCEPT ![t] = k]
Answered(t, op) == calls[t].op = op /\ calls[t].reply # Waiting
Got(t, op)  == Answered(t, op) /\ calls[t].reply # Refused

DropByBrokerId(w, c) == w                                        \* mutated form
Drop(w, c)   == [x \in DOMAIN w \ {c} |-> w[x]]
Put(w, c, n) == [x \in DOMAIN w \cup {c} |-> IF x = c THEN n ELSE w[x]]
Sent(c) == \E k \in 1..Len(stream) : stream[k].id = c
-----------------------------------------------------------------------------
(* The exchange.                                                           *)

\* A change of order c, sent on the websocket if it is up.
Becomes(c, copy) ==
  /\ market' = [market EXCEPT ![c] = copy]
  /\ stream' = IF connected THEN Append(stream, Update(c, copy)) ELSE stream
  /\ missed' = IF connected THEN missed \ {c} ELSE missed \cup {c}
  /\ UNCHANGED connected

Trade(c, q) ==
  /\ market[c].status = "open" /\ market[c].filled + q <= Qty[c]
  /\ LET n == market[c].filled + q
     IN Becomes(c, As(IF n = Qty[c] THEN "filled" ELSE "open", n))
  /\ UNCHANGED <<cache, phase, plan, seen, working, overdue, counted, calls, todo, faults,
                 skewed, overtaken, disowned>>

Expire(c) ==
  /\ market[c].status = "open"
  /\ \E s \in {"cancelled", "rejected"} : Becomes(c, As(s, market[c].filled))
  /\ UNCHANGED <<cache, phase, plan, seen, working, overdue, counted, calls, todo, faults,
                 skewed, overtaken, disowned>>

\* The exchange serves the request a task waits on.  A placement it has already
\* accepted is answered with that order: the correlation id is the idempotency tag.
Serve(t) ==
  LET k == calls[t]
      c == k.id
      Reply(r) == calls' = [calls EXCEPT ![t].reply = r]
  IN /\ k.op # "idle" /\ k.reply = Waiting
     /\ \/ /\ k.op = "place" /\ market[c].status = "none"
           /\ \/ Becomes(c, As("open", 0)) /\ Reply(As("open", 0))
              \/ Becomes(c, As("filled", Qty[c])) /\ Reply(As("filled", 0))
              \/ Reply(As("rejected", 0)) /\ UNCHANGED <<exchange, missed>>
        \/ /\ k.op = "place" /\ market[c].status # "none"
           /\ Reply(As(market[c].status, 0)) /\ UNCHANGED <<exchange, missed>>
        \/ /\ k.op \in {"look", "relook"}
           /\ Reply(market[c]) /\ UNCHANGED <<exchange, missed>>
        \/ /\ k.op = "put"
           /\ Reply(IF market[c].status = "open" THEN market[c] ELSE Refused)
           /\ UNCHANGED <<exchange, missed>>
        \/ /\ k.op = "cancel" /\ market[c].status = "open"
           /\ Becomes(c, As("cancelled", market[c].filled)) /\ Reply(As("cancelled", 0))
        \/ /\ k.op = "cancel" /\ market[c].status # "open"
           /\ Reply(Refused) /\ UNCHANGED <<exchange, missed>>
     /\ UNCHANGED <<cache, phase, plan, seen, working, overdue, counted, todo, faults,
                    skewed, overtaken, disowned>>
-----------------------------------------------------------------------------
(* The client.                                                             *)

\* The request or its answer is lost and the client asks again, or gives up: the
\* caller gets a BrokerError.  A placement that raised leaves the order untracked.
Lose(t) ==
  LET k == calls[t]
  IN /\ k.op # "idle" /\ faults < MaxFaults
     /\ faults' = faults + 1
     /\ IF k.tries < MaxRetries
        THEN /\ calls' = [calls EXCEPT ![t].tries = @ + 1, ![t].reply = Waiting]
             /\ UNCHANGED disowned
        ELSE /\ Done(t)
             /\ disowned' = IF k.op = "place" THEN disowned \cup {k.id} ELSE disowned
     /\ UNCHANGED <<exchange, cache, phase, plan, seen, working, overdue, counted, todo,
                    missed, skewed, overtaken>>

\* A call the broker refuses: logged, and the caller goes on.
Fails(t) ==
  /\ calls[t].reply = Refused /\ Done(t)
  /\ UNCHANGED <<exchange, cache, phase, plan, seen, working, overdue, counted, todo,
                 faults, history>>
-----------------------------------------------------------------------------
(* The agent.                                                              *)

\* The copy of c the agent holds is replaced by an answer.
Learn(c, copy) ==
  /\ seen' = [seen EXCEPT ![c] = copy]
  /\ skewed' = IF copy.filled # seen[c].filled THEN skewed \cup {c} ELSE skewed

IsTerminalPartial(copy) == copy.status \in Closed \/ copy.filled > 0 \* mutated form
IsTerminal(copy) == copy.status \in Closed
ReleasesOnFill(c, copy, linked) == linked /\ c \notin advanced /\ copy.filled > 0 \* mutated form
Releases(c, copy, linked) == linked /\ c \notin advanced /\ copy.status \in Closed

\* _on_order_progress: an order that closed leaves the working set and releases the
\* next slice, once; task t places it.  The plan is found through the order's link.
Progress(t, c, copy, linked, w) ==
  LET next == Releases(c, copy, linked) /\ placed < Slices /\ ~halted
  IN /\ working' = IF IsTerminal(copy) THEN Drop(w, c) ELSE w
     /\ advanced' = IF Releases(c, copy, linked) THEN advanced \cup {c} ELSE advanced
     /\ placed' = IF next THEN placed + 1 ELSE placed
     /\ Begin(t, IF next THEN Ask("place", placed + 1) ELSE NoCall)
     /\ UNCHANGED <<halted, approved>>

\* execute: an approval is acted on once; its first slice is placed.
Approve ==
  /\ Free("feed") /\ ~approved /\ ~halted /\ placed < Slices
  /\ approved' = TRUE /\ placed' = placed + 1
  /\ Begin("feed", Ask("place", placed + 1))
  /\ UNCHANGED <<exchange, cache, phase, halted, advanced, seen, working, overdue, counted,
                 todo, faults, history>>

\* place_order returned: the order is remembered as it was asked, with the status of
\* the answer and nothing filled.
Placed(t) ==
  LET c == calls[t].id
      copy == calls[t].reply
      w == IF copy.status = "open" THEN Put(working, c, 0) ELSE working
  IN /\ Got(t, "place")
     /\ cache' = [cache EXCEPT ![c] = copy]
     /\ Learn(c, copy)
     /\ overtaken' = IF seen[c].status \in Closed THEN overtaken \cup {c} ELSE overtaken
     /\ IF copy.status = "filled"
        THEN Progress(t, c, copy, TRUE, w)
        ELSE working' = w /\ Done(t) /\ UNCHANGED plan
     /\ UNCHANGED <<exchange, phase, overdue, counted, todo, faults, missed, disowned>>

GrownWhole(c, copy) == copy.filled                               \* mutated form
Grown(c, copy) == copy.filled - seen[c].filled

\* handle_update: the stream's copy is a new object, linked to the plan only while the
\* order is in _working; the growth of the filled quantity is published as a fill.
HandleUpdate ==
  LET c == Head(stream).id
      copy == Head(stream).copy
      grown == Grown(c, copy)
  IN /\ Free("pump") /\ stream # <<>>
     /\ stream' = Tail(stream)
     /\ seen' = [seen EXCEPT ![c] = copy]
     /\ counted' = IF grown > 0 THEN [counted EXCEPT ![c] = @ + grown] ELSE counted
     /\ Progress("pump", c, copy, c \in DOMAIN working, working)
     /\ UNCHANGED <<market, connected, cache, phase, overdue, todo, faults, history>>

\* The deadline of a working order passes.
Overdue(c) ==
  /\ c \in DOMAIN working \ overdue /\ overdue' = overdue \cup {c}
  /\ UNCHANGED <<exchange, cache, phase, plan, seen, working, counted, calls, todo, faults,
                 history>>

\* manage and cancel_all walk a snapshot of the working orders.
Manage ==
  /\ Free("manage") /\ DOMAIN working # {}
  /\ todo' = [todo EXCEPT !["manage"] = DOMAIN working]
  /\ UNCHANGED <<exchange, cache, phase, plan, seen, working, overdue, counted, calls,
                 faults, history>>

Kill ==
  /\ Free("control") /\ ~halted
  /\ halted' = TRUE
  /\ todo' = [todo EXCEPT !["control"] = DOMAIN working]
  /\ UNCHANGED <<exchange, cache, phase, approved, placed, advanced, seen, working, overdue,
                 counted, calls, faults, history>>

StepsLeft(c) == working[c] < MaxChase
Cancels(t, c) == t = "control" \/ c \in overdue

\* The next order of the walk: cancelled by a kill or past its deadline; chased, if its
\* copy is open and steps are left; or left alone, its price being right.
Turn(t) ==
  LET c == Min(todo[t])
  IN /\ calls[t] = NoCall /\ todo[t] # {}
     /\ todo' = [todo EXCEPT ![t] = @ \ {c}]
     /\ \/ Cancels(t, c) /\ Begin(t, Ask("cancel", c))
        \/ /\ ~Cancels(t, c)
           /\ c \in DOMAIN working => seen[c].status = "open" /\ StepsLeft(c)
           /\ Begin(t, Ask("look", c))
        \/ ~Cancels(t, c) /\ UNCHANGED calls
     /\ UNCHANGED <<exchange, cache, phase, plan, seen, working, overdue, counted, faults,
                    history>>

\* modify_order reads the order first and gives up on a closed one.
Looked(t) ==
  LET c == calls[t].id
      copy == calls[t].reply
  IN /\ Got(t, "look")
     /\ cache' = [cache EXCEPT ![c] = copy]
     /\ Begin(t, IF copy.status = "open" THEN Ask("put", c) ELSE NoCall)
     /\ UNCHANGED <<exchange, phase, plan, seen, working, overdue, counted, todo, faults,
                    history>>

Modified(t) ==
  /\ Got(t, "put") /\ Begin(t, Ask("relook", calls[t].id))
  /\ UNCHANGED <<exchange, cache, phase, plan, seen, working, overdue, counted, todo,
                 faults, history>>

\* _maybe_chase goes on with the order as it was read after the change.
Chased(t) ==
  LET c == calls[t].id
      copy == calls[t].reply
      w == IF c \in DOMAIN working THEN [working EXCEPT ![c] = @ + 1] ELSE working
  IN /\ Got(t, "relook")
     /\ cache' = [cache EXCEPT ![c] = copy]
     /\ Learn(c, copy)
     /\ Progress(t, c, copy, TRUE, w)
     /\ UNCHANGED <<exchange, phase, overdue, counted, todo, faults, missed, overtaken,
                    disowned>>

\* cancel: the adapter returns its cached copy, closed.
Cancelled(t) ==
  LET c == calls[t].id
      copy == As("cancelled", cache[c].filled)
  IN /\ Got(t, "cancel")
     /\ cache' = [cache EXCEPT ![c] = copy]
     /\ Learn(c, copy)
     /\ Progress(t, c, copy, TRUE, working)
     /\ UNCHANGED <<exchange, phase, overdue, counted, todo, faults, missed, overtaken,
                    disowned>>
-----------------------------------------------------------------------------
(* The websocket and the process.                                          *)

\* Updates that were not handled are lost.  Nothing is read again on reconnecting.
Disconnect ==
  /\ phase = "up" /\ connected /\ faults < MaxFaults
  /\ faults' = faults + 1
  /\ connected' = FALSE /\ stream' = <<>>
  /\ missed' = missed \cup {c \in Child : Sent(c)}
  /\ UNCHANGED <<market, cache, phase, plan, seen, working, overdue, counted, calls, todo,
                 skewed, overtaken, disowned>>

Connect ==
  /\ phase = "up" /\ ~connected /\ connected' = TRUE
  /\ UNCHANGED <<market, stream, cache, phase, plan, seen, working, overdue, counted, calls,
                 todo, faults, history>>

\* The process dies with what it knew; requests it had sent may have been served.
Restart ==
  /\ faults < MaxFaults /\ faults' = faults + 1
  /\ phase' = "orders" /\ connected' = FALSE /\ stream' = <<>>
  /\ cache' = [c \in Child |-> None] /\ seen' = [c \in Child |-> None]
  /\ working' = <<>> /\ overdue' = {} /\ advanced' = {} /\ halted' = FALSE /\ approved' = FALSE
  /\ counted' = [c \in Child |-> 0]
  /\ calls' = [t \in Task |-> NoCall] /\ todo' = [t \in Task |-> {}]
  /\ missed' = {} /\ skewed' = {} /\ overtaken' = {} /\ disowned' = 1..placed
  /\ UNCHANGED <<market, placed>>

\* DhanBroker.orders: the day's book, which replaces what the adapter had cached.
Book == market

\* DhanBroker.positions: the net quantity, here the part each order made of it.
Positions == [c \in Child |-> market[c].filled]

\* start, reconcile: the broker's orders are adopted; a failure is logged.
SyncOrders ==
  /\ phase = "orders" /\ phase' = "positions"
  /\ \/ /\ cache' = Book /\ seen' = Book /\ missed' = {} /\ UNCHANGED faults
     \/ /\ faults < MaxFaults /\ faults' = faults + 1
        /\ UNCHANGED <<cache, seen, missed>>
  /\ UNCHANGED <<exchange, plan, working, overdue, counted, calls, todo, skewed, overtaken,
                 disowned>>

\* sync: the portfolio adopts the broker's positions, read after its orders.
SyncPositions ==
  /\ phase = "positions" /\ phase' = "up"
  /\ counted' = Positions
  /\ skewed' = {c \in Child : seen[c].filled # Positions[c]}
  /\ UNCHANGED <<exchange, cache, plan, seen, working, overdue, calls, todo, faults, missed,
                 overtaken, disowned>>
-----------------------------------------------------------------------------
Init ==
  /\ market = [c \in Child |-> None] /\ stream = <<>> /\ connected = TRUE
  /\ cache = [c \in Child |-> None] /\ phase = "up"
  /\ halted = FALSE /\ approved = FALSE /\ placed = 0 /\ advanced = {}
  /\ seen = [c \in Child |-> None] /\ working = <<>> /\ overdue = {}
  /\ counted = [c \in Child |-> 0]
  /\ calls = [t \in Task |-> NoCall] /\ todo = [t \in Task |-> {}]
  /\ faults = 0 /\ missed = {} /\ skewed = {} /\ overtaken = {} /\ disowned = {}

Answer(t) == Fails(t) \/ Placed(t) \/ Looked(t) \/ Modified(t) \/ Chased(t) \/ Cancelled(t)

Next ==
  \/ \E c \in Child : Expire(c) \/ Overdue(c) \/ \E q \in 1..Qty[c] : Trade(c, q)
  \/ \E t \in Task : Serve(t) \/ Lose(t) \/ Answer(t) \/ Turn(t)
  \/ Approve \/ HandleUpdate \/ Manage \/ Kill
  \/ Disconnect \/ Connect \/ Restart \/ SyncOrders \/ SyncPositions

Spec == Init /\ [][Next]_vars
-----------------------------------------------------------------------------
(* Properties.                                                             *)

TypeOK ==
  /\ market \in [Child -> Copy] /\ stream \in Seq([id: Child, copy: Copy])
  /\ connected \in BOOLEAN /\ cache \in [Child -> Copy]
  /\ phase \in {"orders", "positions", "up"}
  /\ halted \in BOOLEAN /\ approved \in BOOLEAN /\ placed \in 0..Slices
  /\ advanced \subseteq Child
  /\ seen \in [Child -> Copy] /\ overdue \subseteq Child
  /\ DOMAIN working \subseteq 1..placed /\ \A c \in DOMAIN working : working[c] \in 0..MaxChase
  /\ counted \in [Child -> Nat]
  /\ calls \in [Task -> Call] /\ todo \in [Task -> SUBSET Child]
  /\ faults \in 0..MaxFaults
  /\ missed \cup skewed \cup overtaken \cup disowned \subseteq Child

Placing(c) == \E t \in Task : calls[t].op = "place" /\ calls[t].id = c

\* An order that works at the exchange is in the working set, which is what the TTL
\* and the kill switch walk, unless its placement is still awaited, raised, or was
\* made by an earlier process.
Tracked ==
  \A c \in Child :
    market[c].status = "open" => c \in DOMAIN working \/ Placing(c) \/ c \in disowned

\* "Children go out one at a time": two orders of the plan never work together,
\* whatever closes first reaches the agent by, an answer or an update.
OneAtATime ==
  \A c, d \in Child :
    c < d /\ market[c].status = "open" /\ market[d].status # "none" => c \in disowned

\* A closed order stays in the working set only until its last update is handled,
\* unless that update was lost or overtook the answer of the placement.
GhostsExplained ==
  \A c \in DOMAIN working :
    market[c].status \in Closed => Sent(c) \/ c \in missed \cup overtaken

\* With its updates handled, the portfolio holds what was traded of an order, unless
\* an answer gave the agent another filled quantity than the updates had.
CountsExplained ==
  phase = "up" =>
    \A c \in Child : counted[c] = market[c].filled \/ Sent(c) \/ c \in missed \cup skewed
=============================================================================
