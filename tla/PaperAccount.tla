---------------------------- MODULE PaperAccount ----------------------------
(***************************************************************************)
(* The paper broker (trading/brokers/paper.py) with its store              *)
(* (trading/brokers/paper_store.py): the orders, cash and positions of one *)
(* account in one equity, held under two products that share the cash.     *)
(*                                                                         *)
(* A call of the broker runs without interruption, but what it changes in  *)
(* memory reaches the database by one transaction per row.  A call is a    *)
(* list of jobs (match an order, write a row) taken one by one; the        *)
(* process may stop between two calls, and with Torn between two jobs.     *)
(* Slippage is zero (slippage_bps = 0) and a fill costs a flat fee.        *)
(***************************************************************************)
EXTENDS Integers, Sequences, FiniteSets, FiniteSetsExt, Functions

CONSTANTS
  Prices,          \* the prices there are
  Contexts,        \* price events: ticks and bars, [open, high, low, last]
  Requests,        \* OrderRequests callers send
  Modified,        \* prices callers modify an order to
  Liquidated,      \* products liquidate() is called for
  Start,           \* starting_cash
  Fee,             \* fees of a fill
  FillAtPlacement, \* cfg.fill_at_placement
  Strict,          \* cfg.require_trade_through
  Participation,   \* cfg.max_participation is set: a bar may fill a part or nothing
  Blind,           \* orders may come before the first price
  Torn,            \* the process may stop between two writes of a call
  MaxOrders,       \* bound: orders ever placed
  MaxFills,        \* bound: fills on record
  MaxRestarts      \* bound: restarts and resets

BUY == 1
SELL == -1
Product == {"CNC", "MIS"}
None == 0          \* no price known, no limit, no trigger

ASSUME AccountAssumption ==
  /\ Prices \subseteq Nat \ {0}
  /\ Contexts \subseteq [open: Prices, high: Prices, low: Prices, last: Prices]
  /\ Requests \subseteq
       [product: Product, side: {BUY, SELL}, qty: Nat \ {0}, type: {"MARKET"},
        price: {None}, trigger: {None}]
       \cup [product: Product, side: {BUY, SELL}, qty: Nat \ {0}, type: {"LIMIT"},
             price: Prices, trigger: {None}]
       \cup [product: Product, side: {BUY, SELL}, qty: Nat \ {0}, type: {"SL"},
             price: Prices, trigger: Prices]
       \cup [product: Product, side: {BUY, SELL}, qty: Nat \ {0}, type: {"SLM"},
             price: {None}, trigger: Prices]
  /\ Modified \subseteq Prices /\ Liquidated \subseteq Product
  /\ Start \in Nat /\ Fee \in Nat
  /\ {FillAtPlacement, Strict, Participation, Blind, Torn} \subseteq BOOLEAN
  /\ MaxOrders \in Nat /\ MaxFills \in Nat /\ MaxRestarts \in Nat

VARIABLES
  orders,     \* _orders: id -> order, in placement order
  fills,      \* _fills
  cash,       \* cash
  positions,  \* _positions: a product without entry is flat; its last is the price of
              \* its last fill (_mark changes it in memory where _last is known anyway)
  last,       \* _last of the symbol
  disk,       \* the rows of the store
  todo,       \* what is left of the call under way
  issued,     \* ids given out
  restarts    \* restarts and resets so far
memory == <<orders, fills, cash, positions>>
vars == <<memory, last, disk, todo, issued, restarts>>
-----------------------------------------------------------------------------
(* Exact prices: a fraction is a pair of numerator and denominator.        *)

Whole(n) == <<n, 1>>
Plus(a, b) == <<a[1] * b[2] + b[1] * a[2], a[2] * b[2]>>
Times(k, a) == <<k * a[1], a[2]>>
Over(a, k) == <<a[1], a[2] * k>>
Same(a, b) == a[1] * b[2] = b[1] * a[2]
Magnitude(n) == IF n < 0 THEN -n ELSE n

Flat == [qty |-> 0, avg |-> Whole(0), realised |-> Whole(0), fees |-> 0, last |-> None]

\* apply_fill_to_position, and what _fill adds to it.
AppliedWithoutFlip(pos, signed, p) ==                            \* mutated form
  LET new == pos.qty + signed
      opening == pos.qty = 0 \/ (pos.qty > 0) = (signed > 0)
      closed == Min({Magnitude(pos.qty), Magnitude(signed)}) * (IF pos.qty > 0 THEN 1 ELSE -1)
  IN [qty |-> new,
      avg |-> IF opening
              THEN Over(Plus(Times(Magnitude(pos.qty), pos.avg), Whole(p * Magnitude(signed))),
                        Magnitude(new))
              ELSE IF new = 0 THEN Whole(0) ELSE pos.avg,
      realised |-> IF opening THEN pos.realised
                   ELSE Plus(pos.realised, Times(closed, Plus(Whole(p), Times(-1, pos.avg)))),
      fees |-> pos.fees + Fee,
      last |-> p]
Applied(pos, signed, p) ==
  LET new == pos.qty + signed
      opening == pos.qty = 0 \/ (pos.qty > 0) = (signed > 0)
      flipped == new # 0 /\ (new > 0) # (pos.qty > 0)
      closed == Min({Magnitude(pos.qty), Magnitude(signed)}) * (IF pos.qty > 0 THEN 1 ELSE -1)
  IN [qty |-> new,
      avg |-> IF opening
              THEN Over(Plus(Times(Magnitude(pos.qty), pos.avg), Whole(p * Magnitude(signed))),
                        Magnitude(new))
              ELSE IF new = 0 THEN Whole(0) ELSE IF flipped THEN Whole(p) ELSE pos.avg,
      realised |-> IF opening THEN pos.realised
                   ELSE Plus(pos.realised, Times(closed, Plus(Whole(p), Times(-1, pos.avg)))),
      fees |-> pos.fees + Fee,
      last |-> p]
-----------------------------------------------------------------------------
(* Orders and prices.                                                      *)

Working == {"TRIGGER_PENDING", "OPEN", "PARTIAL"}
Status == Working \cup {"FILLED", "CANCELLED", "REJECTED"}

Stopped(order) == order.type \in {"SL", "SLM"}
LeftWhole(order) == order.qty                                    \* mutated form
Left(order) == order.qty - order.filled

\* Order.from_request, as place_order first holds it.
FromRequest(r) ==
  [product |-> r.product, side |-> r.side, qty |-> r.qty, type |-> r.type,
   price |-> r.price, trigger |-> r.trigger, filled |-> 0,
   status |-> IF Stopped(r) THEN "TRIGGER_PENDING" ELSE "OPEN"]

\* The market order that closes a position of quantity q.
Closing(p, q) ==
  FromRequest([product |-> p, side |-> IF q > 0 THEN SELL ELSE BUY, qty |-> Magnitude(q),
               type |-> "MARKET", price |-> None, trigger |-> None])

Tick(p) == [open |-> p, high |-> p, low |-> p, last |-> p]

\* p is no worse for the order than r.
NoWorse(order, p, r) == order.side * (r - p) >= 0
Crossed(order, px) ==
  LET extreme == IF order.side = BUY THEN px.low ELSE px.high
  IN NoWorse(order, extreme, order.price) /\ (Strict => extreme # order.price)
Hit(order, px) ==
  IF order.side = BUY THEN px.high >= order.trigger ELSE px.low <= order.trigger

\* _try_trigger: where a stop that was hit meets the market, if it trades there.
TriggeredAt(order, px, now) ==
  LET touch == IF now THEN px.last
               ELSE IF NoWorse(order, order.trigger, px.open) THEN px.open ELSE order.trigger
  IN IF order.type = "SLM" \/ NoWorse(order, touch, order.price) THEN {touch} ELSE {}

\* _try_fill: the price an order trades at, if it does.
TradedAt(order, px, now) ==
  IF order.type \in {"MARKET", "SLM"} THEN {IF now THEN px.last ELSE px.open}
  ELSE IF ~Crossed(order, px) THEN {}
  ELSE IF now THEN {px.last}
  ELSE IF NoWorse(order, px.open, order.price) THEN {px.open} ELSE {order.price}

\* _fillable_qty.
Fillable(order, now) == IF Participation /\ ~now THEN 0..Left(order) ELSE {Left(order)}
-----------------------------------------------------------------------------
(* Jobs.  A write copies the row as it is in memory when it is made.       *)

Try(o, px, now) == [job |-> "try", id |-> o, px |-> px, now |-> now]
Match(ids, px) == [job |-> "match", ids |-> ids, px |-> px]
SaveOrder(o) == [job |-> "order", id |-> o]
SaveAccount == [job |-> "account"]

\* _persist_fill, then _persist_order.
SaveFillOnly(o, p) ==                                            \* mutated form
  <<[job |-> "fill"], [job |-> "position", product |-> p], SaveOrder(o)>>
SaveCashOnly(o, p) == <<[job |-> "fill"], SaveAccount, SaveOrder(o)>> \* mutated form
SaveFill(o, p) ==
  <<[job |-> "fill"], [job |-> "position", product |-> p], SaveAccount, SaveOrder(o)>>

AtRest == todo = <<>>
Doing(job) == todo # <<>> /\ Head(todo).job = job

With(f, x, v) == [y \in DOMAIN f \cup {x} |-> IF y = x THEN v ELSE f[y]]

\* What place_order and modify_order do once the order is as it should be.
TryAndSave(o) ==
  (IF FillAtPlacement /\ last # None THEN <<Try(o, Tick(last), TRUE)>> ELSE <<>>)
    \o <<SaveOrder(o)>>
-----------------------------------------------------------------------------
(* Calls.                                                                  *)

OpenSells ==
  SumFunctionOnSet([o \in DOMAIN orders |-> Left(orders[o])],
    {o \in DOMAIN orders : /\ orders[o].product = "CNC" /\ orders[o].side = SELL
                           /\ orders[o].status \in Working})

\* _validate: the order is affordable, and a delivery sell is covered.  An order
\* that cannot be valued yet passes.
ValidIgnoringOpenSells(r) ==                                     \* mutated form
  LET ref == IF r.price # None THEN r.price ELSE last IN
  ref # None =>
    /\ r.side = BUY => r.qty * ref <= cash
    /\ r.product = "CNC" /\ r.side = SELL => r.qty <= positions["CNC"].qty
Valid(r) ==
  LET ref == IF r.price # None THEN r.price ELSE last IN
  ref # None =>
    /\ r.side = BUY => r.qty * ref <= cash
    /\ r.product = "CNC" /\ r.side = SELL => r.qty + OpenSells <= positions["CNC"].qty

PlaceOrder(r) ==
  /\ AtRest /\ issued < MaxOrders
  /\ last # None \/ Blind
  /\ issued' = issued + 1
  /\ \/ /\ Valid(r)
        /\ orders' = With(orders, issued', FromRequest(r))
        /\ todo' = TryAndSave(issued')
     \/ /\ ~Valid(r)
        /\ orders' = With(orders, issued', [FromRequest(r) EXCEPT !.status = "REJECTED"])
        /\ todo' = <<SaveOrder(issued')>>
  /\ UNCHANGED <<fills, cash, positions, last, disk, restarts>>

\* modify_order to a new price, as the chase does it.
ModifyOrder(o, p) ==
  /\ AtRest
  /\ orders[o].status \in Working /\ orders[o].price \notin {None, p}
  /\ orders' = [orders EXCEPT ![o].price = p]
  /\ todo' = TryAndSave(o)
  /\ UNCHANGED <<fills, cash, positions, last, disk, issued, restarts>>

CancelUnsaved(o) ==                                              \* mutated form
  /\ AtRest
  /\ orders[o].status \in Working
  /\ orders' = [orders EXCEPT ![o].status = "CANCELLED"]
  /\ UNCHANGED <<fills, cash, positions, last, disk, todo, issued, restarts>>
CancelOrder(o) ==
  /\ AtRest
  /\ orders[o].status \in Working
  /\ orders' = [orders EXCEPT ![o].status = "CANCELLED"]
  /\ todo' = <<SaveOrder(o)>>
  /\ UNCHANGED <<fills, cash, positions, last, disk, issued, restarts>>

\* on_tick and on_bar: every working order is matched, oldest first.
OnPrice(px) ==
  /\ AtRest /\ Len(fills) < MaxFills
  /\ last' = px.last
  /\ todo' = <<Match({o \in DOMAIN orders : orders[o].status \in Working}, px)>>
  /\ UNCHANGED <<memory, disk, issued, restarts>>

\* liquidate one product at the last price, or at the position's if none is known.
Liquidate(p) ==
  /\ AtRest /\ issued < MaxOrders /\ Len(fills) < MaxFills
  /\ positions[p].qty # 0
  /\ issued' = issued + 1
  /\ orders' = With(orders, issued', Closing(p, positions[p].qty))
  /\ LET price == IF last # None THEN last ELSE positions[p].last IN
     todo' = <<Try(issued', Tick(price), TRUE), SaveOrder(issued')>>
  /\ UNCHANGED <<fills, cash, positions, last, disk, restarts>>
-----------------------------------------------------------------------------
(* Matching.                                                               *)

\* One turn of _match_all.
MatchNext ==
  /\ Doing("match")
  /\ LET m == Head(todo) IN
     \/ m.ids = {} /\ todo' = Tail(todo)
     \/ \E o \in m.ids :
          /\ \A other \in m.ids : o <= other
          /\ todo' = <<Try(o, m.px, FALSE), Match(m.ids \ {o}, m.px)>> \o Tail(todo)
  /\ UNCHANGED <<memory, last, disk, issued, restarts>>

\* The order did not trade; a stop that was hit is now a live order.
Rest(o) ==
  /\ orders' = [orders EXCEPT ![o].status = IF @ = "TRIGGER_PENDING" THEN "OPEN" ELSE @]
  /\ todo' = Tail(todo)
  /\ UNCHANGED <<fills, cash, positions>>

\* _fill: a purchase beyond the cash is refused; else the fill is booked.
AffordableAlways(order, q, p) == TRUE                            \* mutated form
Affordable(order, q, p) == order.side = BUY => q * p <= cash

Fill(o, q, p) ==
  \/ /\ ~Affordable(orders[o], q, p)
     /\ orders' = [orders EXCEPT ![o].status = "REJECTED"]
     /\ todo' = <<SaveOrder(o)>> \o Tail(todo)
     /\ UNCHANGED <<fills, cash, positions>>
  \/ /\ Affordable(orders[o], q, p)
     /\ orders' = [orders EXCEPT ![o].filled = @ + q,
                                 ![o].status = IF q = Left(orders[o]) THEN "FILLED"
                                               ELSE "PARTIAL"]
     /\ positions' = [positions EXCEPT ![orders[o].product] =
                        Applied(@, orders[o].side * q, p)]
     /\ cash' = cash - orders[o].side * q * p - Fee
     /\ fills' = Append(fills, [id |-> o, side |-> orders[o].side, qty |-> q, price |-> p])
     /\ todo' = SaveFill(o, orders[o].product) \o Tail(todo)

\* _try_fill of an order, at a price event or when it was placed.
TryFill ==
  /\ Doing("try")
  /\ LET t == Head(todo)
         order == orders[t.id]
         pending == order.status = "TRIGGER_PENDING"
         at == IF pending THEN TriggeredAt(order, t.px, t.now) ELSE TradedAt(order, t.px, t.now)
     IN \/ /\ order.status \notin Working \/ (pending /\ ~Hit(order, t.px))
           /\ todo' = Tail(todo)
           /\ UNCHANGED memory
        \/ /\ order.status \in Working /\ (pending => Hit(order, t.px))
           /\ \/ at = {} /\ Rest(t.id)
              \/ \E q \in Fillable(order, t.now), p \in at :
                   \/ q = 0 /\ Rest(t.id)
                   \/ q # 0 /\ Fill(t.id, q, p)
  /\ UNCHANGED <<last, disk, issued, restarts>>
-----------------------------------------------------------------------------
(* Writes, and what a restart reads back.                                  *)

Write ==
  /\ todo # <<>>
  /\ Head(todo).job \in {"order", "fill", "position", "account"}
  /\ LET w == Head(todo) IN
     disk' = CASE w.job = "order" -> [disk EXCEPT !.orders = With(@, w.id, orders[w.id])]
               [] w.job = "fill" -> [disk EXCEPT !.fills = fills]
               [] w.job = "position" ->
                    [disk EXCEPT !.positions[w.product] = positions[w.product]]
               [] w.job = "account" -> [disk EXCEPT !.cash = cash]
  /\ todo' = Tail(todo)
  /\ UNCHANGED <<memory, last, issued, restarts>>

\* The process stops and starts again: _load.
Restart ==
  /\ AtRest \/ Torn
  /\ restarts < MaxRestarts
  /\ restarts' = restarts + 1
  /\ orders' = disk.orders /\ fills' = disk.fills
  /\ cash' = disk.cash /\ positions' = disk.positions
  /\ last' = None /\ todo' = <<>>
  /\ UNCHANGED <<disk, issued>>

NewAccount ==
  [orders |-> [o \in {} |-> 0], fills |-> <<>>, cash |-> Start,
   positions |-> [p \in Product |-> Flat]]

\* reset_paper while no engine runs, and the next start.
Reset ==
  /\ AtRest
  /\ restarts < MaxRestarts
  /\ restarts' = restarts + 1
  /\ disk' = NewAccount
  /\ orders' = NewAccount.orders /\ fills' = NewAccount.fills
  /\ cash' = NewAccount.cash /\ positions' = NewAccount.positions
  /\ last' = None
  /\ UNCHANGED <<todo, issued>>
-----------------------------------------------------------------------------
Init ==
  /\ orders = NewAccount.orders /\ fills = NewAccount.fills
  /\ cash = NewAccount.cash /\ positions = NewAccount.positions
  /\ disk = NewAccount
  /\ last = None /\ todo = <<>>
  /\ issued = 0 /\ restarts = 0

Call ==
  \/ \E r \in Requests : PlaceOrder(r)
  \/ \E o \in DOMAIN orders : CancelOrder(o) \/ \E p \in Modified : ModifyOrder(o, p)
  \/ \E px \in Contexts : OnPrice(px)
  \/ \E p \in Liquidated : Liquidate(p)

Next == Call \/ MatchNext \/ TryFill \/ Write \/ Restart \/ Reset

Spec == Init /\ [][Next]_vars
-----------------------------------------------------------------------------
(* Properties.                                                             *)

OrderType ==
  [product: Product, side: {BUY, SELL}, qty: Nat \ {0}, type: {"MARKET", "LIMIT", "SL", "SLM"},
   price: Prices \cup {None}, trigger: Prices \cup {None}, filled: Nat, status: Status]
Fraction == Int \X (Nat \ {0})
PositionType ==
  [qty: Int, avg: Fraction, realised: Fraction, fees: Nat, last: Prices \cup {None}]
Valued(pos) == pos.qty # 0 => pos.last \in Prices
FillType == [id: Nat, side: {BUY, SELL}, qty: Nat \ {0}, price: Prices]
Job(ids) ==
  [job: {"try"}, id: ids, px: [open: Prices, high: Prices, low: Prices, last: Prices],
   now: BOOLEAN]
    \cup [job: {"match"}, ids: SUBSET ids,
          px: [open: Prices, high: Prices, low: Prices, last: Prices]]
    \cup [job: {"order"}, id: ids]
    \cup [job: {"position"}, product: Product]
    \cup [job: {"fill", "account"}]

\* The prices an order of its type needs are there, only stops wait for a trigger;
\* nothing is filled beyond its quantity, and a working order has something left.
WellFormed(order) ==
  /\ order \in OrderType
  /\ order.filled <= order.qty
  /\ order.status \in Working => order.filled < order.qty
  /\ order.type \in {"LIMIT", "SL"} => order.price \in Prices
  /\ order.type \in {"SL", "SLM"} => order.trigger \in Prices
  /\ order.status = "TRIGGER_PENDING" => order.type \in {"SL", "SLM"}

\* The state has its type; no order is filled beyond its quantity, in memory or on
\* disk; the call under way is about orders in memory.
TypeOK ==
  /\ issued \in Nat /\ restarts \in Nat
  /\ disk = [orders |-> disk.orders, fills |-> disk.fills, cash |-> disk.cash,
             positions |-> disk.positions]
  /\ DOMAIN orders \subseteq 1..issued /\ DOMAIN disk.orders \subseteq 1..issued
  /\ \A o \in DOMAIN orders : WellFormed(orders[o])
  /\ \A o \in DOMAIN disk.orders : WellFormed(disk.orders[o])
  /\ fills \in Seq(FillType) /\ disk.fills \in Seq(FillType)
  /\ cash \in Int /\ disk.cash \in Int
  /\ positions \in [Product -> PositionType] /\ disk.positions \in [Product -> PositionType]
  /\ \A p \in Product : Valued(positions[p]) /\ Valued(disk.positions[p])
  /\ last \in Prices \cup {None}
  /\ todo \in Seq(Job(DOMAIN orders))

SumFills(ks) == SumFunctionOnSet([k \in DOMAIN fills |-> fills[k].qty], ks)

\* The three books of the account agree: the fills of an order add up to its filled
\* quantity, and the orders of a product to its position.
BooksAgree ==
  /\ \A o \in DOMAIN orders :
       SumFills({k \in DOMAIN fills : fills[k].id = o}) = orders[o].filled
  /\ \A k \in DOMAIN fills : fills[k].id \in DOMAIN orders
  /\ \A p \in Product :
       SumFunctionOnSet([o \in DOMAIN orders |-> orders[o].side * orders[o].filled],
                        {o \in DOMAIN orders : orders[o].product = p}) = positions[p].qty

\* The profit kept with the positions is the one kept in the cash: realised profit
\* less the cost of what is held is what cash gained, fees aside, however positions
\* were averaged, reduced or flipped.
PnLAgrees ==
  LET Gain(p) == Plus(positions[p].realised, Times(-positions[p].qty, positions[p].avg))
  IN Same(Plus(Gain("CNC"), Gain("MIS")),
          Whole(cash - Start + positions["CNC"].fees + positions["MIS"].fees))

\* Purchases are paid from the cash there is, whatever other orders did between
\* placing and filling: only the fees of a fill can overdraw the account.
CashFloor == cash >= -Fee

\* "CNC sell exceeds holdings": delivery shares are never sold short, however sell
\* orders overlap.
NoShortHoldings == positions["CNC"].qty >= 0

\* The row of an order is as the order is, but for a stop that was hit and did not
\* trade: it is live in memory only.
Kept(row, order) ==
  \/ row = order
  \/ row.status = "TRIGGER_PENDING" /\ order = [row EXCEPT !.status = "OPEN"]

\* Between calls the store has what the broker has, but for the stops that were hit
\* without trading.
DiskFollows ==
  AtRest =>
    /\ DOMAIN disk.orders = DOMAIN orders
    /\ \A o \in DOMAIN orders : Kept(disk.orders[o], orders[o])
    /\ disk.fills = fills /\ disk.cash = cash /\ disk.positions = positions

\* The account is a ledger: cash and holdings move by posting executions of booked
\* orders, each paid for and within its order, and restarts change neither.
Account == INSTANCE Ledger WITH
  money <- cash,
  holding <- [p \in Product |-> positions[p].qty],
  booked <- [o \in DOMAIN orders |->
               [product |-> orders[o].product, side |-> orders[o].side,
                qty |-> orders[o].qty, filled |-> orders[o].filled]]
ImplementsLedger == Account!LedgerSpec
-----------------------------------------------------------------------------
(* What makes the properties inductive (AccountProofs).                    *)

Queued(job) == \E k \in DOMAIN todo : todo[k] = job

\* Whatever differs between memory and store is about to be written.
StaleIsQueued ==
  /\ DOMAIN disk.orders \subseteq DOMAIN orders
  /\ \A o \in DOMAIN orders :
       \/ o \in DOMAIN disk.orders /\ Kept(disk.orders[o], orders[o])
       \/ Queued(SaveOrder(o))
  /\ disk.fills = fills \/ Queued([job |-> "fill"])
  /\ \A p \in Product :
       disk.positions[p] = positions[p] \/ Queued([job |-> "position", product |-> p])
  /\ disk.cash = cash \/ Queued(SaveAccount)

IInv == TypeOK /\ StaleIsQueued
=============================================================================
