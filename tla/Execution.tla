------------------------------ MODULE Execution ------------------------------
(***************************************************************************)
(* The execution agent (trading/agents/execution.py) against the paper     *)
(* broker (trading/brokers/paper.py), for one (symbol, product) pair.      *)
(*                                                                         *)
(* The process is one asyncio event loop.  Four tasks run handlers of the  *)
(* agent: "feed" (market data and the bus chain it drives, approvals       *)
(* included), "pump" (the broker's update stream), "manage" (the timer     *)
(* loop) and "control" (an operator's request).  A handler gives the loop  *)
(* up at one place only, the order limiter in front of place_order, so a   *)
(* handler is a stack of frames that run to the next placement, and other  *)
(* tasks interleave only while a placement waits.  Without a limiter       *)
(* (orders_per_second None, every replay) handlers are atomic.             *)
(***************************************************************************)
EXTENDS Integers, Sequences, FiniteSets, FiniteSetsExt

CONSTANTS
  Intent,          \* intents risk approves; each gets one approval token
  NoIntent,        \* the intent_id of an order the agent did not place
  Side,            \* Intent -> BUY or SELL
  Approved,        \* Intent -> the approved quantity
  Cap,             \* lot-rounded child quantity cap of plan_slices
  WithStop,        \* intents whose meta carries stop_loss_pct
  ExitOnly,        \* intents risk approves only as a reduction
  Controls,        \* the operator commands issued
  Throttled,       \* the order limiter is on and may make a placement wait
  Brackets,        \* cfg.place_bracket_stop
  FillAtPlacement, \* the paper broker may fill an order as it is placed
  Partial,         \* a volume participation cap is set: partial fills happen
  Faulty,          \* broker calls may raise BrokerError
  SquaresOff,      \* the MIS square-off window is reached
  MaxChase,        \* cfg.max_chase_steps
  MaxFills,        \* bound: fills the market gives in a behaviour
  MaxCommands      \* bound: operator commands in a behaviour

BUY == 1
SELL == -1

Commands == {"KILL", "RESUME", "FLATTEN"}

ASSUME ExecutionAssumption ==
  /\ NoIntent \notin Intent
  /\ Side \in [Intent -> {BUY, SELL}]
  /\ Approved \in [Intent -> Nat \ {0}]
  /\ Cap \in Nat \ {0}
  /\ WithStop \subseteq Intent /\ ExitOnly \subseteq Intent
  /\ Controls \subseteq Commands
  /\ {Throttled, Brackets, FillAtPlacement, Partial, Faulty, SquaresOff} \subseteq BOOLEAN
  /\ MaxChase \in Nat /\ MaxFills \in Nat /\ MaxCommands \in Nat

VARIABLES
  book,        \* the paper broker's orders, in placement order; an id is an index
  pos,         \* the paper broker's signed position
  nfills,      \* fills the market gave so far
  commands,    \* operator commands given so far
  queue,       \* updates emitted and not yet consumed
  halted,      \* ExecutionAgent.halted
  used,        \* _used_tokens; a plan exists for exactly these intents
  plans,       \* _plans: slices claimed and children that released a successor
  working,     \* _working: order id -> chase steps
  attributed,  \* orders in _orders_seen whose stored copy carries intent_id
  protective,  \* _protective of the pair
  net,         \* _net of the pair: the engine's view, built from published fills
  pend,        \* the placement a task is waiting to make, per task
  stack,       \* what remains of a task's current handler, per task
  run          \* the task that holds the event loop
broker == <<book, pos, nfills>>
agent  == <<halted, used, plans, working, attributed, protective, net>>
tasks  == <<pend, stack, run>>
vars   == <<broker, commands, queue, agent, tasks>>
-----------------------------------------------------------------------------
Task == {"feed", "pump", "manage", "control"}
Idle == "idle"

Status   == {"OPEN", "FILLED", "CANCELLED", "REJECTED"}
TerminalButRejected == {"FILLED", "CANCELLED"}                   \* mutated form
Terminal == Status \ {"OPEN"}     \* OPEN stands for TRIGGER_PENDING and PARTIAL too

Order ==
  [kind: {"none", "child", "stop", "liquidation"}, intent: Intent \cup {NoIntent},
   slice: Nat, side: {BUY, SELL}, qty: Nat, filled: Nat, status: Status]

NoOrder ==
  [kind |-> "none", intent |-> NoIntent, slice |-> 0, side |-> BUY, qty |-> 0,
   filled |-> 0, status |-> "REJECTED"]

\* Updates and frames about orders with these ids.
Message(ids) ==
  [type: {"fill"}, id: ids, qty: Nat, side: {BUY, SELL}]
    \cup [type: {"order"}, id: ids, status: Status, tagged: BOOLEAN]

Frame(ids) ==
  [op: {"cancel", "manage", "oco"}, ids: SUBSET ids, exclude: Nat]
    \cup [op: {"progress"}, id: ids, status: Status, tagged: BOOLEAN]
    \cup [op: {"bracket"}, id: ids, qty: Nat]
    \cup [op: {"liquidate"}]

\* plan_slices: full children of Cap, then what is left.
SliceCount(i) == (Approved[i] + Cap - 1) \div Cap
SliceQtyRoundedUp(i, k) == Cap                                   \* mutated form
SliceQty(i, k) == IF k * Cap <= Approved[i] THEN Cap ELSE Approved[i] - (k - 1) * Cap

Child(i, k) ==
  [kind |-> "child", intent |-> i, slice |-> k, side |-> Side[i],
   qty |-> SliceQty(i, k), filled |-> 0, status |-> "OPEN"]
Stop(i, q) ==
  [kind |-> "stop", intent |-> i, slice |-> 0, side |-> -Side[i],
   qty |-> q, filled |-> 0, status |-> "OPEN"]

\* The market order liquidate() closes position p with.
Closing(p) ==
  [kind |-> "liquidation", intent |-> NoIntent, slice |-> 0,
   side |-> IF p > 0 THEN SELL ELSE BUY, qty |-> IF p > 0 THEN p ELSE -p,
   filled |-> 0, status |-> "OPEN"]

Progress(o, s, tagged) == [op |-> "progress", id |-> o, status |-> s, tagged |-> tagged]
Loop(op, ids, exclude) == [op |-> op, ids |-> ids, exclude |-> exclude]
FillOfUnsigned(o, q, side) == [type |-> "fill", id |-> o, qty |-> q, side |-> BUY] \* mutated form
FillOf(o, q, side) == [type |-> "fill", id |-> o, qty |-> q, side |-> side]
OrderOf(o, s, tagged) == [type |-> "order", id |-> o, status |-> s, tagged |-> tagged]

OpenOrders == {o \in DOMAIN book : book[o].status = "OPEN"}
IsOldest(o, ids) == \A p \in ids : o <= p         \* dict order is placement order

Pop(w, o) == [x \in DOMAIN w \ {o} |-> w[x]]
Put(w, o, n) == [x \in DOMAIN w \cup {o} |-> IF x = o THEN n ELSE w[x]]
-----------------------------------------------------------------------------
(* Scheduling: what a task does next, and who may run meanwhile.           *)

Free(t) == run = Idle /\ stack[t] = <<>> /\ pend[t] = NoOrder

At(t, op) ==
  /\ run = t
  /\ pend[t] = NoOrder
  /\ stack[t] # <<>>
  /\ Head(stack[t]).op = op

Continue(t, frames) ==
  /\ stack' = [stack EXCEPT ![t] = frames]
  /\ run' = IF frames = <<>> THEN Idle ELSE t
  /\ UNCHANGED pend

Await(t, frames, order) ==
  /\ stack' = [stack EXCEPT ![t] = frames]
  /\ pend' = [pend EXCEPT ![t] = order]
  /\ run' = IF Throttled THEN Idle ELSE t
-----------------------------------------------------------------------------
(* The paper broker.                                                       *)

Filled(order, q) ==
  [order EXCEPT !.filled = @ + q,
                !.status = IF order.filled + q = order.qty THEN "FILLED" ELSE "OPEN"]

\* A BUY the cash does not cover is refused, when placed and when it would fill.
Refused(order) ==
  IF order.side = BUY THEN {[order EXCEPT !.status = "REJECTED"]} ELSE {}

\* What _try_fill may do with quantities q of an order, while fills are left.
Fills(order, qs) ==
  {Filled(order, q) : q \in IF nfills < MaxFills THEN qs ELSE {}} \cup Refused(order)

\* An order as place_order or modify_order leaves it: resting or matched at once.
Matched(order) ==
  {order} \cup (IF FillAtPlacement THEN Fills(order, {order.qty - order.filled}) ELSE {})
Placed(order) == Matched(order) \cup Refused(order)

\* The fill and order updates one price event emits for order o.
Emitted(o, before, after, tagged) ==
  IF after.filled # before.filled
  THEN <<FillOf(o, after.filled - before.filled, after.side), OrderOf(o, after.status, tagged)>>
  ELSE IF after.status # before.status THEN <<OrderOf(o, after.status, tagged)>> ELSE <<>>

\* Position and fill count after an order went from before to after.
Book(before, after) ==
  /\ pos' = pos + after.side * (after.filled - before.filled)
  /\ nfills' = nfills + (IF after.filled # before.filled THEN 1 ELSE 0)

CancelledAt(o) ==
  IF book[o].status = "OPEN" THEN [book EXCEPT ![o].status = "CANCELLED"] ELSE book
CancelMsg(o) ==
  IF book[o].status = "OPEN" THEN <<OrderOf(o, "CANCELLED", TRUE)>> ELSE <<>>

\* A tick or bar reaches a working order.  It comes through the feed task, so
\* not while that task waits in a handler of its own.
Market(o) ==
  /\ Free("feed")
  /\ o \in OpenOrders
  /\ LET left == book[o].qty - book[o].filled IN
     \E after \in Fills(book[o], IF Partial THEN 1..left ELSE {left}) :
       /\ book' = [book EXCEPT ![o] = after]
       /\ Book(book[o], after)
       /\ queue' = queue \o Emitted(o, book[o], after, TRUE)
  /\ UNCHANGED <<agent, tasks>>
-----------------------------------------------------------------------------
(* The approval gate.                                                      *)

\* check_approval, for an approval of i that risk issued and has not expired;
\* a refused approval changes nothing.
AcceptableAgain(i) == ~halted /\ (i \in ExitOnly => net * Side[i] < 0) \* mutated form
Acceptable(i) ==
  /\ ~halted
  /\ i \notin used
  /\ i \in ExitOnly => net * Side[i] < 0

Approval(i) ==
  /\ Free("feed")
  /\ Acceptable(i)
  /\ used' = used \cup {i}
  /\ plans' = [plans EXCEPT ![i] = [placed |-> 1, advanced |-> {}]]
  /\ Await("feed", <<>>, Child(i, 1))
  /\ UNCHANGED <<broker, queue, halted, working, attributed, protective, net>>
-----------------------------------------------------------------------------
(* _place, once the limiter lets the task through.                         *)

\* Orders the agent goes on managing.
TrackedChild(order) == order.status = "OPEN" /\ order.kind = "child"  \* mutated form
Tracked(order) == order.status = "OPEN"

Place(t) ==
  /\ pend[t] # NoOrder
  /\ run \in {t, Idle}
  /\ LET o == Len(book) + 1
         before == pend[t]
     IN \E after \in Placed(before) :
          /\ book' = Append(book, after)
          /\ Book(before, after)
          /\ queue' = queue \o Emitted(o, before, after, FALSE)
                            \o <<OrderOf(o, after.status, FALSE)>>
          /\ working' = IF Tracked(after) THEN Put(working, o, 0) ELSE working
          /\ attributed' = attributed \cup {o}
          /\ protective' = IF before.kind = "stop" THEN protective \cup {o} ELSE protective
          /\ stack' = [stack EXCEPT ![t] =
                         IF after.status = "FILLED"
                         THEN <<Progress(o, "FILLED", TRUE)>> \o @ ELSE @]
          /\ run' = IF stack'[t] = <<>> THEN Idle ELSE t
          /\ pend' = [pend EXCEPT ![t] = NoOrder]
  /\ UNCHANGED <<halted, used, plans, net>>

\* place_order raised: an alert, and nothing else.
PlaceFails(t) ==
  /\ Faulty
  /\ pend[t] # NoOrder
  /\ run \in {t, Idle}
  /\ pend' = [pend EXCEPT ![t] = NoOrder]
  /\ run' = IF stack[t] = <<>> THEN Idle ELSE t
  /\ UNCHANGED <<broker, queue, agent, stack>>
-----------------------------------------------------------------------------
(* Updates from the broker.                                                *)

\* handle_update of a Fill: publish it, close the bracket stops if that made
\* the position flat, then bracket the fill.
FillUpdate ==
  /\ Free("pump")
  /\ queue # <<>>
  /\ Head(queue).type = "fill"
  /\ LET m == Head(queue) IN
       /\ net' = net + m.side * m.qty
       /\ Continue("pump",
            (IF net' = 0 THEN <<Loop("oco", protective, m.id)>> ELSE <<>>)
              \o <<[op |-> "bracket", id |-> m.id, qty |-> m.qty]>>)
  /\ queue' = Tail(queue)
  /\ UNCHANGED <<broker, halted, used, plans, working, attributed, protective>>

\* _on_order_update.  The paper broker streams real fills ahead of the order,
\* so no fill is synthesised here.
OrderUpdate ==
  /\ Free("pump")
  /\ queue # <<>>
  /\ Head(queue).type = "order"
  /\ LET m == Head(queue)
         tagged == m.tagged \/ m.id \in DOMAIN working
     IN /\ attributed' = IF tagged THEN attributed \cup {m.id} ELSE attributed \ {m.id}
        /\ Continue("pump", <<Progress(m.id, m.status, tagged)>>)
  /\ queue' = Tail(queue)
  /\ UNCHANGED <<broker, halted, used, plans, working, protective, net>>

\* A finished child releases its successor, once; a bracket stop never does
\* while the agent still knows it as one.
ReleasesTwice(f) ==       \* mutated form
  LET i == book[f.id].intent
      known == f.id \in DOMAIN working
  IN /\ f.status \in Terminal
     /\ ~(known /\ book[f.id].kind = "stop")
     /\ f.tagged \/ known
     /\ i \in used
ReleasesIfFilled(f) ==       \* mutated form
  LET i == book[f.id].intent
      known == f.id \in DOMAIN working
  IN /\ f.status = "FILLED"
     /\ ~(known /\ book[f.id].kind = "stop")
     /\ f.tagged \/ known
     /\ i \in used
     /\ f.id \notin plans[i].advanced
Releases(f) ==
  LET i == book[f.id].intent
      known == f.id \in DOMAIN working
  IN /\ f.status \in Terminal
     /\ ~(known /\ book[f.id].kind = "stop")
     /\ f.tagged \/ known
     /\ i \in used
     /\ f.id \notin plans[i].advanced

\* The next slice may go out: _place_next_slice.
HasNextAlways(i) == plans[i].placed < SliceCount(i)              \* mutated form
HasNextLate(i) == plans[i].placed <= SliceCount(i) /\ ~halted    \* mutated form
HasNext(i) == plans[i].placed < SliceCount(i) /\ ~halted

\* _on_order_progress.
OnOrderProgress(t) ==
  /\ At(t, "progress")
  /\ LET f == Head(stack[t])
         i == book[f.id].intent
     IN /\ working' = IF f.status \in Terminal THEN Pop(working, f.id) ELSE working
        /\ \/ /\ ~Releases(f)
              /\ UNCHANGED plans
              /\ Continue(t, Tail(stack[t]))
           \/ /\ Releases(f) /\ ~HasNext(i)
              /\ plans' = [plans EXCEPT ![i].advanced = @ \cup {f.id}]
              /\ Continue(t, Tail(stack[t]))
           \/ /\ Releases(f) /\ HasNext(i)
              /\ plans' = [plans EXCEPT ![i] =
                             [placed |-> @.placed + 1, advanced |-> @.advanced \cup {f.id}]]
              /\ Await(t, Tail(stack[t]), Child(i, plans[i].placed + 1))
  /\ UNCHANGED <<broker, queue, halted, used, attributed, protective, net>>

\* _maybe_bracket.
MaybeBracket(t) ==
  /\ At(t, "bracket")
  /\ LET f == Head(stack[t])
         i == book[f.id].intent
         known == f.id \in DOMAIN working
         wanted == /\ Brackets
                   /\ ~(known /\ book[f.id].kind = "stop")
                   /\ known \/ f.id \in attributed
                   /\ i \in WithStop
     IN \/ wanted /\ Await(t, Tail(stack[t]), Stop(i, f.qty))
        \/ ~wanted /\ Continue(t, Tail(stack[t]))
  /\ UNCHANGED <<broker, queue, agent>>
-----------------------------------------------------------------------------
(* Cancelling.                                                             *)

\* cancel(o), then the rest of the loop that called it.
CancelThen(t, o, rest) ==
  /\ book' = CancelledAt(o)
  /\ queue' = queue \o CancelMsg(o)
  /\ working' = Pop(working, o)
  /\ attributed' = attributed \cup {o}
  /\ Continue(t, <<Progress(o, book'[o].status, TRUE)>> \o rest)

\* One turn of cancel_where: every working order is cancelled, oldest first.
CancelWhere(t) ==
  /\ At(t, "cancel")
  /\ LET f == Head(stack[t]) IN
       \/ /\ f.ids = {}
          /\ Continue(t, Tail(stack[t]))
          /\ UNCHANGED <<book, queue, working, attributed>>
       \/ \E o \in f.ids :
            LET rest == <<Loop("cancel", f.ids \ {o}, 0)>> \o Tail(stack[t]) IN
            /\ IsOldest(o, f.ids)
            /\ \/ CancelThen(t, o, rest)
               \/ /\ Faulty
                  /\ Continue(t, rest)
                  /\ UNCHANGED <<book, queue, working, attributed>>
  /\ UNCHANGED <<pos, nfills, halted, used, plans, protective, net>>

\* One turn of _cancel_protective.
CancelProtective(t) ==
  /\ At(t, "oco")
  /\ LET f == Head(stack[t]) IN
       \/ /\ f.ids = {}
          /\ Continue(t, Tail(stack[t]))
          /\ UNCHANGED <<book, queue, working, attributed, protective>>
       \/ \E o \in f.ids :
            LET rest == <<Loop("oco", f.ids \ {o}, f.exclude)>> \o Tail(stack[t])
                skip == o = f.exclude \/ o \notin DOMAIN working
            IN /\ IsOldest(o, f.ids)
               /\ protective' = protective \ {o}
               /\ \/ ~skip /\ CancelThen(t, o, rest)
                  \/ /\ skip \/ Faulty
                     /\ Continue(t, rest)
                     /\ UNCHANGED <<book, queue, working, attributed>>
  /\ UNCHANGED <<pos, nfills, halted, used, plans, net>>
-----------------------------------------------------------------------------
(* The timer: TTL, chase, square-off.                                      *)

ChildrenUnchased ==                                              \* mutated form
  {o \in DOMAIN working : book[o].kind = "child" /\ working[o] = 0}
Children == {o \in DOMAIN working : book[o].kind = "child"}

Manage ==
  /\ Free("manage")
  /\ Children # {}
  /\ Continue("manage", <<Loop("manage", Children, 0)>>)
  /\ UNCHANGED <<broker, queue, agent>>

\* The deadline of the oldest order left in the loop has passed.
Expire ==
  /\ At("manage", "manage")
  /\ LET f == Head(stack["manage"]) IN
     \E o \in f.ids :
       /\ IsOldest(o, f.ids)
       /\ CancelThen("manage", o, <<Loop("manage", f.ids \ {o}, 0)>> \o Tail(stack["manage"]))
  /\ UNCHANGED <<pos, nfills, halted, used, plans, protective, net>>

\* It has not: leave it (too young, at the price bound, or the call failed),
\* or chase it one tick.  The modified order may fill at its new price.
Chase ==
  /\ At("manage", "manage")
  /\ LET f == Head(stack["manage"]) IN
     \E o \in f.ids :
       LET rest == <<Loop("manage", f.ids \ {o}, 0)>> \o Tail(stack["manage"]) IN
       /\ IsOldest(o, f.ids)
       /\ \/ /\ Continue("manage", rest)
             /\ UNCHANGED <<broker, queue, working, attributed>>
          \/ /\ o \in DOMAIN working /\ working[o] < MaxChase
             /\ book[o].status = "OPEN"
             /\ \E after \in Matched(book[o]) :
                  /\ book' = [book EXCEPT ![o] = after]
                  /\ Book(book[o], after)
                  /\ queue' = queue \o Emitted(o, book[o], after, TRUE)
                                    \o <<OrderOf(o, after.status, TRUE)>>
                  /\ Continue("manage", <<Progress(o, after.status, TRUE)>> \o rest)
             /\ working' = [working EXCEPT ![o] = @ + 1]
             /\ attributed' = attributed \cup {o}
  /\ UNCHANGED <<halted, used, plans, protective, net>>

ManageDone ==
  /\ At("manage", "manage")
  /\ Head(stack["manage"]).ids = {}
  /\ Continue("manage", Tail(stack["manage"]))
  /\ UNCHANGED <<broker, queue, agent>>

\* square_off_due: cancel what works, then close the position at the broker.
SquareOff ==
  /\ SquaresOff /\ nfills < MaxFills
  /\ Free("manage")
  /\ pos # 0
  /\ Continue("manage", <<Loop("cancel", DOMAIN working, 0), [op |-> "liquidate"]>>)
  /\ UNCHANGED <<broker, queue, agent>>

Liquidate ==
  /\ At("manage", "liquidate")
  /\ \/ /\ pos = 0
        /\ UNCHANGED <<broker, queue>>
     \/ /\ pos # 0
        /\ LET o == Len(book) + 1
               before == Closing(pos)
           IN \E after \in {Filled(before, before.qty)} \cup Refused(before) :
                /\ book' = Append(book, after)
                /\ Book(before, after)
                /\ queue' = queue \o Emitted(o, before, after, FALSE)
                                  \o <<OrderOf(o, after.status, FALSE)>>
  /\ Continue("manage", Tail(stack["manage"]))
  /\ UNCHANGED agent
-----------------------------------------------------------------------------
(* Operator commands: _on_control.                                         *)

\* An operator's request arrives; MaxCommands bounds how many.
Command(c) ==
  /\ c \in Controls
  /\ commands < MaxCommands
  /\ commands' = commands + 1
  /\ Free("control")

Kill ==
  /\ Command("KILL")
  /\ halted' = TRUE
  /\ Continue("control", <<Loop("cancel", DOMAIN working, 0)>>)
  /\ UNCHANGED <<broker, queue, used, plans, working, attributed, protective, net>>

Resume ==
  /\ Command("RESUME")
  /\ halted
  /\ halted' = FALSE
  /\ UNCHANGED <<broker, queue, used, plans, working, attributed, protective, net, tasks>>

Flatten ==
  /\ Command("FLATTEN")
  /\ Continue("control", <<Loop("cancel", DOMAIN working, 0)>>)
  /\ UNCHANGED <<broker, queue, agent>>
-----------------------------------------------------------------------------
Init ==
  /\ book = <<>> /\ pos = 0 /\ nfills = 0 /\ commands = 0
  /\ queue = <<>>
  /\ halted = FALSE
  /\ used = {}
  /\ plans = [i \in Intent |-> [placed |-> 0, advanced |-> {}]]
  /\ working = [o \in {} |-> 0]
  /\ attributed = {} /\ protective = {}
  /\ net = 0
  /\ pend = [t \in Task |-> NoOrder]
  /\ stack = [t \in Task |-> <<>>]
  /\ run = Idle

Step(t) ==
  \/ Place(t) \/ PlaceFails(t)
  \/ OnOrderProgress(t) \/ MaybeBracket(t)
  \/ CancelWhere(t) \/ CancelProtective(t)

Timer == Manage \/ Expire \/ Chase \/ ManageDone \/ SquareOff \/ Liquidate
Update == FillUpdate \/ OrderUpdate
Control == Kill \/ Resume \/ Flatten

Next ==
  \/ /\ \/ \E o \in DOMAIN book : Market(o)
        \/ \E i \in Intent : Approval(i)
        \/ \E t \in Task : Step(t)
        \/ Timer
        \/ Update
     /\ UNCHANGED commands
  \/ Control

Spec == Init /\ [][Next]_vars

\* The event loop resumes every suspended task and the pump takes every update;
\* the timer loop comes round, and an order that is left alone meets its TTL.
Fairness ==
  /\ \A t \in Task : SF_vars(Step(t) /\ UNCHANGED commands)
  /\ WF_vars(Update /\ UNCHANGED commands)
  /\ WF_vars((Manage \/ Chase \/ ManageDone) /\ UNCHANGED commands)
  /\ SF_vars(Expire /\ UNCHANGED commands)

FairSpec == Spec /\ Fairness
-----------------------------------------------------------------------------
(* Properties.                                                             *)

\* Every variable has its type, and whatever the agent remembers, waits on or has
\* yet to read is about an order that is at the broker.
TypeOK ==
  /\ book \in Seq(Order) /\ pos \in Int /\ nfills \in Nat /\ commands \in Nat
  /\ queue \in Seq(Message(DOMAIN book))
  /\ halted \in BOOLEAN
  /\ used \subseteq Intent
  /\ plans \in [Intent -> [placed: Nat, advanced: SUBSET DOMAIN book]]
  /\ DOMAIN working \subseteq DOMAIN book
  /\ \A o \in DOMAIN working : working[o] \in Nat
  /\ attributed \subseteq DOMAIN book /\ protective \subseteq DOMAIN book
  /\ net \in Int
  /\ pend \in [Task -> Order]
  /\ stack \in [Task -> Seq(Frame(DOMAIN book))]
  /\ run \in Task \cup {Idle}

IsChildOf(order, i) == order.kind = "child" /\ order.intent = i
ChildrenOf(i) == {o \in DOMAIN book : IsChildOf(book[o], i)}
OpenChildrenOf(i) == ChildrenOf(i) \cap OpenOrders

\* Nothing is queued and no handler is under way.
Quiescent ==
  queue = <<>> /\ run = Idle /\ \A t \in Task : stack[t] = <<>> /\ pend[t] = NoOrder

\* The children sent for an approval never add up to more than risk approved,
\* whichever tasks released them (execution.py plan_slices, _on_order_progress).
WithinApproval ==
  \A i \in Intent :
    SumFunctionOnSet([o \in DOMAIN book |-> book[o].qty], ChildrenOf(i)) <= Approved[i]

\* Every order that can still fill is in the agent's working set, where KILL,
\* FLATTEN, square-off and TTL look for it.
CancelReachesAll == OpenOrders \subseteq DOMAIN working

\* Once the updates are consumed the agent manages no order already closed.
NoGhosts == Quiescent => DOMAIN working \subseteq OpenOrders

\* What an update still queued will add to the engine's position.
Signed(m) == IF m.type = "fill" THEN m.side * m.qty ELSE 0

\* The engine's position and the fills still queued add up to the broker's: no
\* fill is lost, counted twice or taken with the wrong sign.
NoFillLost == net + SumFunction([k \in DOMAIN queue |-> Signed(queue[k])]) = pos

\* "children go out one at a time": no plan has two children out, or one out and
\* one waiting for the limiter.
OneChild ==
  \A i \in Intent :
    Cardinality(OpenChildrenOf(i)) + Cardinality({t \in Task : IsChildOf(pend[t], i)}) <= 1

\* When nothing is under way and nobody killed trading, a plan with slices left
\* has a child working, or its last child was refused as it was placed (such a
\* child is never reported to the plan).
StallsExplained ==
  Quiescent /\ ~halted =>
    \A i \in used :
      \/ plans[i].placed = SliceCount(i)
      \/ OpenChildrenOf(i) # {}
      \/ \E o \in ChildrenOf(i) : book[o].status = "REJECTED" /\ o \notin plans[i].advanced

\* While execution is halted no child order reaches the broker.
HaltStopsChildren ==
  [][halted => \A o \in DOMAIN book' \ DOMAIN book : book'[o].kind # "child"]_vars

\* A plan that was accepted is not left with orders working for ever: fills, TTL
\* and the release of the next slice run it out.
PlansRunOut ==
  \A i \in Intent :
    i \in used ~> OpenChildrenOf(i) = {} /\ \A t \in Task : ~IsChildOf(pend[t], i)

\* The children at the broker.
ChildIds == {o \in DOMAIN book : book[o].kind = "child"}
Sent == {[id |-> o, intent |-> book[o].intent, slice |-> book[o].slice] : o \in ChildIds}

\* The agent implements the approval gate: an approval is acted on once and each of
\* its slices is sent once (execution.py check_approval, _place_next_slice).
Gate == INSTANCE ApprovalGate WITH
  Slices <- [i \in Intent |-> SliceCount(i)],
  accepted <- used,
  sent <- Sent
ImplementsGate == Gate!GateSpec
-----------------------------------------------------------------------------
(* What makes the properties inductive (ExecutionProofs).                  *)

\* No order is filled beyond its quantity; one that waits has nothing filled.
FilledWithin ==
  /\ \A o \in DOMAIN book : book[o].filled <= book[o].qty
  /\ \A t \in Task : pend[t].filled = 0

\* A child is one of the slices its plan has claimed so far.
Claimed(order) ==
  order.kind = "child" =>
    order.intent \in used /\ order.slice \in 1..plans[order.intent].placed

SameSlice(a, b) ==
  a.kind = "child" /\ b.kind = "child" /\ a.intent = b.intent /\ a.slice = b.slice

\* A slice is claimed once: by one order at the broker or by one task waiting to
\* place it.
SlicesOnce ==
  /\ \A i \in Intent : plans[i].placed <= SliceCount(i)
  /\ \A o \in DOMAIN book : Claimed(book[o])
  /\ \A t \in Task : Claimed(pend[t])
  /\ \A o, p \in DOMAIN book : o # p => ~SameSlice(book[o], book[p])
  /\ \A o \in DOMAIN book, t \in Task : ~SameSlice(book[o], pend[t])
  /\ \A t, u \in Task : t # u => ~SameSlice(pend[t], pend[u])

\* Without a limiter one task at most is in a handler, and no child waits while
\* execution is halted.
Atomic ==
  ~Throttled =>
    /\ \A t \in Task : pend[t] # NoOrder \/ stack[t] # <<>> => run = t
    /\ halted => \A t \in Task : pend[t].kind # "child"

IInv == TypeOK /\ FilledWithin /\ SlicesOnce /\ Atomic
=============================================================================
